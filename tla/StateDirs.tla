------------------------------ MODULE StateDirs ------------------------------
(***************************************************************************)
(* The default state directory (crates/world-runtime/src/silo.rs).  It was *)
(* renamed: the first command that finds a registry under the old name     *)
(* moves its three files to the new one, by up to three renames under the  *)
(* locks of both directories.  Meanwhile other commands use the new        *)
(* directory by default, or name the old one with --state-dir; any process *)
(* may die between two steps.                                              *)
(* A file is described by the registry it belongs to; what it says         *)
(* otherwise is left out.  What stands at a name is a regular file or      *)
(* nothing (is_file, symlink_metadata).                                    *)
(***************************************************************************)
EXTENDS Integers

CONSTANTS
    Clients,    \* processes
    MaxReg,     \* registries 1..MaxReg are ever created
    MaxIdent,   \* identities 1..MaxIdent are ever drawn
    None        \* no client

Dirs == {"old", "new"}
Regs == 1..MaxReg
Idents == 1..MaxIdent

ASSUME CountAssumption == MaxReg \in Nat \ {0} /\ MaxIdent \in Nat \ {0}
ASSUME NoneAssumption == None \notin Clients

VARIABLES
    \* On disk; 0 is a missing file
    registry,   \* registry.json of each directory: which registry it is
    ident,      \* registry-id
    holders,    \* holders.json: the registries whose holders it records
    trusted,    \* old is a real directory of the calling user
    lock,       \* holder of each registry.lock
    \* History
    born,       \* registries created so far
    drawn,      \* identities drawn so far
    owners,     \* the identities under which each registry recorded temp roots
    torn,       \* a process died between the first two renames
    \* One process
    pc, at, op, \* where it is, its state directory, its command
    mine,       \* the registry in which it found its workspace
    move        \* the files it decided to move

disk == <<registry, ident, holders, trusted>>
history == <<born, drawn, owners, torn>>
local == <<pc, at, op, mine, move>>
vars == <<disk, lock, history, local>>

\* Before the rename: nothing, or one registry in the old directory, from a
\* release that drew identities or from an earlier one.
Init ==
    /\ trusted \in BOOLEAN
    /\ lock = [d \in Dirs |-> None]
    /\ torn = FALSE
    /\ \E old \in {0, 1}, id \in {0, 1}, hold \in SUBSET {1} :
        /\ old = 0 => id = 0 /\ hold = {}
        /\ registry = [d \in Dirs |-> IF d = "old" THEN old ELSE 0]
        /\ ident = [d \in Dirs |-> IF d = "old" THEN id ELSE 0]
        /\ holders = [d \in Dirs |-> IF d = "old" THEN hold ELSE {}]
        /\ born = old
        /\ drawn = id
        /\ owners = [r \in Regs |-> IF r = 1 /\ id = 1 THEN {1} ELSE {}]
    /\ pc = [c \in Clients |-> "idle"]
    /\ at = [c \in Clients |-> "new"]
    /\ op = [c \in Clients |-> "create"]
    /\ mine = [c \in Clients |-> 0]
    /\ move = [c \in Clients |-> {}]

-----------------------------------------------------------------------------
(* Locks, and the end of a process                                         *)

Goto(c, label) == pc' = [pc EXCEPT ![c] = label]

\* Mutant: the lock of the new directory outlives the migration.
ReleaseOld(c) == lock' = [lock EXCEPT !["old"] = IF lock["old"] = c THEN None ELSE @]
Release(c) == lock' = [d \in Dirs |-> IF lock[d] = c THEN None ELSE lock[d]]

Acquire(c, d) ==
    /\ lock[d] = None
    /\ lock' = [lock EXCEPT ![d] = c]

\* The command is over, or its process is gone: the locks go with it.
Exit(c) ==
    /\ Release(c)
    /\ Goto(c, "idle")
    /\ at' = [at EXCEPT ![c] = "new"]
    /\ op' = [op EXCEPT ![c] = "create"]
    /\ mine' = [mine EXCEPT ![c] = 0]
    /\ move' = [move EXCEPT ![c] = {}]

Crash(c) ==
    /\ pc[c] # "idle"
    /\ Exit(c)
    /\ torn' = (torn \/ (pc[c] = "move_registry" /\ {"id", "registry"} \subseteq move[c]))
    /\ UNCHANGED <<disk, born, drawn, owners>>

\* `workspace create` or `workspace setup`; with --state-dir the directory is
\* used as it is.
Begin(c) ==
    /\ pc[c] = "idle"
    /\ \E o \in {"create", "setup"} : op' = [op EXCEPT ![c] = o]
    /\ \/ Goto(c, "look") /\ UNCHANGED at
       \/ Goto(c, "use") /\ at' = [at EXCEPT ![c] = "old"]
    /\ UNCHANGED <<disk, lock, history, mine, move>>

-----------------------------------------------------------------------------
(* default_state_dir_in                                                    *)

PendingRegistry == trusted /\ registry["old"] # 0 /\ registry["new"] = 0

\* Mutant: the records move whenever there are none in the new directory.
PendingHoldersAlone == trusted /\ holders["old"] # {} /\ holders["new"] = {}
PendingHolders ==
    /\ trusted
    /\ holders["old"] # {} /\ holders["new"] = {}
    /\ PendingRegistry \/ registry["old"] = 0

\* A leftover identity in the new directory gives way to the one that moves.
PendingId(moving) ==
    /\ trusted
    /\ ident["old"] # 0
    /\ moving \/ (ident["new"] = 0 /\ registry["old"] = 0)

PendingFiles ==
    {f \in {"registry", "holders", "id"} :
        CASE f = "registry" -> PendingRegistry
          [] f = "holders"  -> PendingHolders
          [] f = "id"       -> PendingId(PendingRegistry)}

\* The first look takes no lock, and looks at the identity last.
Look(c) ==
    /\ pc[c] = "look"
    /\ Goto(c, IF PendingRegistry \/ PendingHolders THEN "lock_new" ELSE "look_id")
    /\ UNCHANGED <<disk, lock, history, at, op, mine, move>>

LookId(c) ==
    /\ pc[c] = "look_id"
    /\ Goto(c, IF PendingId(FALSE) THEN "lock_new" ELSE "use")
    /\ UNCHANGED <<disk, lock, history, at, op, mine, move>>

LockNew(c) ==
    /\ pc[c] = "lock_new"
    /\ Acquire(c, "new")
    /\ Goto(c, "lock_old")
    /\ UNCHANGED <<disk, history, at, op, mine, move>>

LockOld(c) ==
    /\ pc[c] = "lock_old"
    /\ Acquire(c, "old")
    /\ Goto(c, "decide")
    /\ UNCHANGED <<disk, history, at, op, mine, move>>

\* Both files are decided on before the first rename, the identity with them:
\* nobody else changes the directories under the two locks.
Decide(c) ==
    /\ pc[c] = "decide"
    /\ move' = [move EXCEPT ![c] = PendingFiles]
    /\ Goto(c, "move_id")
    /\ UNCHANGED <<disk, lock, history, at, op, mine>>

Moved(f, empty) == [f EXCEPT !["new"] = f["old"], !["old"] = empty]

\* Mutant: the identity stays behind.
MoveIdNot(c) ==
    /\ pc[c] = "move_id"
    /\ Goto(c, "move_registry")
    /\ UNCHANGED <<disk, lock, history, at, op, mine, move>>
MoveId(c) ==
    /\ pc[c] = "move_id"
    /\ IF "id" \in move[c] THEN ident' = Moved(ident, 0) ELSE UNCHANGED ident
    /\ Goto(c, "move_registry")
    /\ UNCHANGED <<registry, holders, trusted, lock, history, at, op, mine, move>>

MoveRegistry(c) ==
    /\ pc[c] = "move_registry"
    /\ IF "registry" \in move[c] THEN registry' = Moved(registry, 0) ELSE UNCHANGED registry
    /\ Goto(c, "move_holders")
    /\ UNCHANGED <<ident, holders, trusted, lock, history, at, op, mine, move>>

\* The locks are dropped when the directory is returned.
MoveHolders(c) ==
    /\ pc[c] = "move_holders"
    /\ IF "holders" \in move[c] THEN holders' = Moved(holders, {}) ELSE UNCHANGED holders
    /\ Release(c)
    /\ Goto(c, "use")
    /\ UNCHANGED <<registry, ident, trusted, history, at, op, mine, move>>

-----------------------------------------------------------------------------
(* The commands that use a state directory: create_in; setup, which is     *)
(* owned_temp_root and, under the lock taken again, the holder records.    *)

\* Setup knows only what is registered.  The registry's identity is drawn on
\* first use, before anything is recorded.
Use(c) ==
    /\ pc[c] = "use"
    /\ lock[at[c]] = None
    /\ \/ /\ \/ op[c] = "setup" /\ registry[at[c]] = 0
             \/ ident[at[c]] = 0 /\ drawn = MaxIdent         \* the bound: an I/O error
          /\ Exit(c)
          /\ UNCHANGED <<disk, history>>
       \/ /\ op[c] = "setup" => registry[at[c]] # 0
          /\ \/ ident[at[c]] # 0 /\ UNCHANGED <<ident, drawn>>
             \/ /\ ident[at[c]] = 0 /\ drawn < MaxIdent
                /\ drawn' = drawn + 1
                /\ ident' = [ident EXCEPT ![at[c]] = drawn + 1]
          /\ Acquire(c, at[c])
          /\ mine' = [mine EXCEPT ![c] = registry[at[c]]]
          /\ Goto(c, "record")
          /\ UNCHANGED <<registry, holders, trusted, born, owners, torn, at, op, move>>

\* save: the entry, with the temp root claimed under the identity.
Record(c) ==
    /\ pc[c] = "record"
    /\ LET r == IF mine[c] # 0 THEN mine[c] ELSE born + 1 IN
        \/ /\ r > MaxReg                                     \* the bound: an I/O error
           /\ Exit(c)
           /\ UNCHANGED <<registry, born, owners>>
        \/ /\ r <= MaxReg
           /\ registry' = [registry EXCEPT ![at[c]] = r]
           /\ born' = IF r > born THEN r ELSE born
           /\ owners' = [owners EXCEPT ![r] = @ \cup {ident[at[c]]}]
           /\ \/ op[c] = "create" /\ Exit(c)
              \/ op[c] = "setup" /\ Release(c) /\ Goto(c, "relock")
                 /\ UNCHANGED <<at, op, mine, move>>
    /\ UNCHANGED <<ident, holders, trusted, drawn, torn>>

\* The lock was free in between: the registry may have moved.
Relock(c) ==
    /\ pc[c] = "relock"
    /\ Acquire(c, at[c])
    /\ Goto(c, "holders")
    /\ UNCHANGED <<disk, history, at, op, mine, move>>

Holders(c) ==
    /\ pc[c] = "holders"
    /\ holders' = [holders EXCEPT ![at[c]] = @ \cup {mine[c]}]
    /\ Exit(c)
    /\ UNCHANGED <<registry, ident, trusted, history>>

Step(c) ==
    \/ Look(c) \/ LookId(c) \/ LockNew(c) \/ LockOld(c) \/ Decide(c)
    \/ MoveId(c) \/ MoveRegistry(c) \/ MoveHolders(c)
    \/ Use(c) \/ Record(c) \/ Relock(c) \/ Holders(c)

Next == \E c \in Clients : Begin(c) \/ Step(c) \/ Crash(c)

Spec == Init /\ [][Next]_vars

\* flock is granted to one of the waiting processes after the other.
FairSpec ==
    /\ Spec
    /\ \A c \in Clients : /\ WF_vars(Step(c))
                          /\ SF_vars(LockNew(c) \/ LockOld(c) \/ Use(c) \/ Relock(c))

-----------------------------------------------------------------------------
(* Properties                                                              *)

TypeOK ==
    /\ registry \in [Dirs -> 0..MaxReg]
    /\ ident \in [Dirs -> 0..MaxIdent]
    /\ holders \in [Dirs -> SUBSET Regs]
    /\ trusted \in BOOLEAN
    /\ lock \in [Dirs -> Clients \cup {None}]
    /\ born \in 0..MaxReg
    /\ drawn \in 0..MaxIdent
    /\ owners \in [Regs -> SUBSET Idents]
    /\ torn \in BOOLEAN
    /\ pc \in [Clients -> {"idle", "look", "look_id", "lock_new", "lock_old", "decide",
                           "move_id", "move_registry", "move_holders",
                           "use", "record", "relock", "holders"}]
    /\ at \in [Clients -> Dirs]
    /\ op \in [Clients -> {"create", "setup"}]
    /\ mine \in [Clients -> 0..MaxReg]
    /\ move \in [Clients -> SUBSET {"registry", "holders", "id"}]

\* Two registries never record temp roots under one identity: roots are told
\* apart by it, and a shared one would let a workspace of each use one /tmp.
\* (registry_id: the identity "is never inherited by a new registry".)
NoSharedIdentity ==
    \A r, s \in Regs : owners[r] \cap owners[s] # {} => r = s

\* It takes a process that died after the first rename, and a command whose
\* first look is older than the registry that moves.
SharedOnlyIfTorn == torn \/ NoSharedIdentity

\* Unless a process died there, the identity beside a registry in the new
\* directory is one under which it recorded its temp roots, if it has any.
IdentityTravels ==
    LET r == registry["new"] IN
    ~torn /\ r # 0 /\ ident["new"] # 0 =>
        owners[r] = {} \/ ident["new"] \in owners[r]

\* Holder records in the new directory are those of the registry there: they
\* are keyed by workspace id only, and would pass for another registry's.
HoldersOfTheirRegistry == holders["new"] \subseteq {registry["new"]}

\* No registry that was ever saved is lost, overwritten or doubled.
RegistryKept == \A r \in 1..born : \E d \in Dirs : \A e \in Dirs : registry[e] = r <=> e = d

\* What belongs together is together: registry, identity and holder records.
MovedTogether == IdentityTravels /\ HoldersOfTheirRegistry /\ RegistryKept

\* Every command comes to its end, whoever dies while it waits for a lock.
CommandsEnd == \A c \in Clients : pc[c] # "idle" ~> pc[c] = "idle"
=============================================================================
