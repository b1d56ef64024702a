------------------------- MODULE WorkspaceRegistry -------------------------
(***************************************************************************)
(* What the registry promises, whatever the processes that edit it do: a   *)
(* name holds at most one identity, an identity is registered once, under  *)
(* one name, and a deleted identity never comes back.                      *)
(***************************************************************************)
CONSTANTS Names, Owners, None

VARIABLES registry,   \* the identity registered under each name
          drawn,      \* identities that have been allocated
          retired     \* identities whose workspace was deleted

vars == <<registry, drawn, retired>>

Registered(o) == \E n \in Names : registry[n] = o

Init ==
    /\ registry \in [Names -> Owners \cup {None}]
    /\ \A n, m \in Names : registry[n] = registry[m] /\ n # m => registry[n] = None
    /\ drawn = {o \in Owners : Registered(o)}
    /\ retired = {}

Draw(o) ==
    /\ o \notin drawn
    /\ drawn' = drawn \cup {o}
    /\ UNCHANGED <<registry, retired>>

Register(n, o) ==
    /\ registry[n] = None
    /\ o \in drawn \ retired
    /\ ~Registered(o)
    /\ registry' = [registry EXCEPT ![n] = o]
    /\ UNCHANGED <<drawn, retired>>

Retire(n) ==
    /\ registry[n] # None
    /\ retired' = retired \cup {registry[n]}
    /\ registry' = [registry EXCEPT ![n] = None]
    /\ UNCHANGED drawn

Next ==
    \/ \E o \in Owners : Draw(o)
    \/ \E n \in Names, o \in Owners : Register(n, o)
    \/ \E n \in Names : Retire(n)

Spec == Init /\ [][Next]_vars

=============================================================================
