----------------------------- MODULE TempRoots -----------------------------
(***************************************************************************)
(* Temp roots of native workspaces (crates/world-runtime/src/silo.rs).     *)
(* A workspace gets an address and, under HOME, the directory of that      *)
(* address as its private /tmp.  Each registry has its own lock, but all   *)
(* registries of a user share HOME: two of them meet only in the directory *)
(* and in the owner marker it holds.  A process may stop anywhere, and     *)
(* older releases left entries without a root and roots without a marker.  *)
(***************************************************************************)
EXTENDS Integers

CONSTANTS
    States,     \* state directories, each with a registry of its own
    Ids,        \* workspace ids
    MaxIp,      \* addresses 1..MaxIp (65534 in the code)
    Clients,    \* processes
    None,       \* "no value"
    Blank       \* an owner marker that was created and not written

Ips == 1..MaxIp
Workspaces == States \X Ids
Entries == [ip : Ips, root : {"none", "some"}]

ASSUME IpAssumption == MaxIp \in Nat
ASSUME ValueAssumption ==
    /\ None \notin Entries \cup Workspaces \cup Clients \cup States \cup Ids
    /\ Blank \notin Workspaces \cup {None}

VARIABLES
    \* On disk
    reg,        \* registry.json of each state directory; root: its temp_root
    lock,       \* holder of its registry.lock
    dir,        \* addresses whose directory exists under HOME
    marker,     \* the owner file in it
    legacy,     \* history: directories an older release made, still there
    \* One process
    pc, at, id, \* where it is, its state directory and its workspace
    task,       \* the function at work: create, get or own (owned_temp_root)
    worlds,     \* its in-memory registry
    cand,       \* the address it tries, or uses
    aim         \* to keep the recorded address, or to move (allocate)

rootVars == <<dir, marker, legacy>>
clientVars == <<pc, at, id, task, worlds, cand, aim>>
vars == <<reg, lock, rootVars, clientVars>>

Entry(c) == reg[at[c]][id[c]]
Empty == [i \in Ids |-> None]

\* A registry does not give one address to two workspaces.
Distinct(r) ==
    \A i, j \in Ids : r[i] # None /\ r[j] # None /\ r[i].ip = r[j].ip => i = j

\* An older release filled the registries, and some roots, without markers.
Init ==
    /\ reg \in {r \in [States -> [Ids -> Entries \cup {None}]] :
                    \A s \in States : Distinct(r[s])}
    /\ lock = [s \in States |-> None]
    /\ dir \in SUBSET Ips
    /\ legacy = dir
    /\ marker = [i \in Ips |-> None]
    /\ pc = [c \in Clients |-> "idle"]
    /\ at = [c \in Clients |-> None]
    /\ id = [c \in Clients |-> None]
    /\ task = [c \in Clients |-> None]
    /\ worlds = [c \in Clients |-> Empty]
    /\ cand = [c \in Clients |-> 0]
    /\ aim = [c \in Clients |-> "keep"]

-----------------------------------------------------------------------------
(* Locks, and the end of a process                                         *)

Goto(c, label) == pc' = [pc EXCEPT ![c] = label]

\* lock(state) waits for the registry's lock.
LockFree(c) == lock[at[c]] = None

Acquire(c) == lock' = [lock EXCEPT ![at[c]] = c]
Unlock(c) == lock' = [s \in States |-> IF lock[s] = c THEN None ELSE lock[s]]

\* The process is gone, and with it its lock and its memory.
Exit(c) ==
    /\ Unlock(c)
    /\ Goto(c, "idle")
    /\ at' = [at EXCEPT ![c] = None]
    /\ id' = [id EXCEPT ![c] = None]
    /\ task' = [task EXCEPT ![c] = None]
    /\ worlds' = [worlds EXCEPT ![c] = Empty]
    /\ cand' = [cand EXCEPT ![c] = 0]
    /\ aim' = [aim EXCEPT ![c] = "keep"]

\* `workspace create`, or a command that uses a workspace: get, then setup (on
\* macOS also exec), which begins with owned_temp_root.
Begin(c) ==
    /\ pc[c] = "idle"
    /\ \E s \in States : at' = [at EXCEPT ![c] = s]
    /\ \E i \in Ids : id' = [id EXCEPT ![c] = i]
    /\ \E t \in {"create", "get"} : task' = [task EXCEPT ![c] = t] /\ Goto(c, t)
    /\ UNCHANGED <<reg, lock, rootVars, worlds, cand, aim>>

-----------------------------------------------------------------------------
(* allocate: the next address that this registry does not use.  macOS      *)
(* also skips one that answers as a loopback alias.                        *)

Pool == Ips

Used(r) == {r[i].ip : i \in {j \in Ids : r[j] # None}}
Free(r, from) == {i \in Pool : i > from /\ i \notin Used(r)}

Scan(c, r, from) ==
    /\ \E i \in Free(r, from) : cand' = [cand EXCEPT ![c] = i]
    /\ aim' = [aim EXCEPT ![c] = "move"]
    /\ Goto(c, "peek")

\* Starts a claim of the recorded address (fill_temp_root, owned_temp_root).
Retain(c, label) ==
    /\ cand' = [cand EXCEPT ![c] = Entry(c).ip]
    /\ aim' = [aim EXCEPT ![c] = "keep"]
    /\ Goto(c, label)

-----------------------------------------------------------------------------
(* create_in, get_in and owned_temp_root up to the first claim             *)

\* An entry with a root is returned as it is, whatever HOME is now; a new one
\* is refused when no address is left.
CreateLock(c) ==
    /\ pc[c] = "create"
    /\ LockFree(c)
    /\ \/ /\ IF Entry(c) = None THEN Free(reg[at[c]], 0) = {}
                                   ELSE Entry(c).root = "some"
          /\ Exit(c)
       \/ /\ \/ Entry(c) = None /\ Scan(c, reg[at[c]], 0)
             \/ Entry(c) # None /\ Entry(c).root = "none" /\ Retain(c, "peek")
          /\ Acquire(c)
          /\ worlds' = [worlds EXCEPT ![c] = reg[at[c]]]
          /\ UNCHANGED <<at, id, task>>
    /\ UNCHANGED <<reg, rootVars>>

\* The first look at the registry takes no lock.
GetRead(c) ==
    /\ pc[c] = "get"
    /\ \/ Entry(c) = None /\ Exit(c)
       \/ /\ Entry(c) # None
          /\ Goto(c, IF Entry(c).root = "some" THEN "own" ELSE "get_lock")
          /\ UNCHANGED <<lock, at, id, task, worlds, cand, aim>>
    /\ UNCHANGED <<reg, rootVars>>

\* Another process may have filled in the root since.
GetLock(c) ==
    /\ pc[c] = "get_lock"
    /\ LockFree(c)
    /\ \/ /\ Entry(c).root = "some"
          /\ Goto(c, "own")
          /\ UNCHANGED <<lock, worlds, cand, aim>>
       \/ /\ Entry(c).root = "none"
          /\ Acquire(c)
          /\ worlds' = [worlds EXCEPT ![c] = [reg[at[c]] EXCEPT ![id[c]] = None]]
          /\ Retain(c, "peek")
    /\ UNCHANGED <<reg, rootVars, at, id, task>>

\* temp_root rebuilds the recorded directory, marker or not.
OwnLock(c) ==
    /\ pc[c] = "own"
    /\ LockFree(c)
    /\ Acquire(c)
    /\ task' = [task EXCEPT ![c] = "own"]
    /\ worlds' = [worlds EXCEPT ![c] = reg[at[c]]]
    /\ Retain(c, "make")
    /\ UNCHANGED <<reg, rootVars, at, id>>

-----------------------------------------------------------------------------
(* claim_root and mark_root                                                *)

\* The claim succeeded: owned_temp_root returns the root it confirmed, every
\* other claim goes into the registry first.
Held(c) ==
    /\ \/ /\ task[c] = "own" /\ aim[c] = "keep"
          /\ Goto(c, "run")
          /\ Unlock(c)
       \/ /\ task[c] # "own" \/ aim[c] = "move"
          /\ Goto(c, "save")
          /\ UNCHANGED lock
    /\ UNCHANGED <<at, id, task, worlds, cand, aim>>

\* Mutant: the loop starts over.
AfterStart(c) == 0
After(c) == IF aim[c] = "move" THEN cand[c] ELSE 0

\* Somebody else's: on to the next address, if there is one.
Taken(c) ==
    \/ Scan(c, worlds[c], After(c)) /\ UNCHANGED <<lock, at, id, task, worlds>>
    \/ Free(worlds[c], After(c)) = {} /\ Exit(c)

\* A directory of an older release has no marker and is not taken over.
Unmarked(i) == i \in dir /\ marker[i] = None

Peek(c) ==
    /\ pc[c] = "peek"
    /\ \/ Unmarked(cand[c]) /\ Taken(c)
       \/ /\ ~Unmarked(cand[c])
          /\ Goto(c, "make")
          /\ UNCHANGED <<lock, at, id, task, worlds, cand, aim>>
    /\ UNCHANGED <<reg, rootVars>>

Make(c) ==
    /\ pc[c] = "make"
    /\ dir' = dir \cup {cand[c]}
    /\ Goto(c, "mark")
    /\ UNCHANGED <<reg, lock, marker, legacy, at, id, task, worlds, cand, aim>>

\* Mutant: every registry has the same identity.
OwnerById(c) == <<CHOOSE s \in States : TRUE, id[c]>>
\* root_owner: the registry's random identity and the workspace's id.
RootOwner(c) == <<at[c], id[c]>>

\* Mutant: a root that has an owner is never one's own.
MineNever(c) == FALSE
Mine(c) == marker[cand[c]] = RootOwner(c)

\* create_new: one claimant creates the file, the others compare it with
\* their own name.  A file that is still empty is somebody else's.
Mark(c) ==
    /\ pc[c] = "mark"
    /\ \/ /\ marker[cand[c]] = None
          /\ marker' = [marker EXCEPT ![cand[c]] = Blank]
          /\ Goto(c, "write")
          /\ UNCHANGED <<lock, at, id, task, worlds, cand, aim>>
       \/ /\ marker[cand[c]] # None
          /\ (Mine(c) /\ Held(c)) \/ (~Mine(c) /\ Taken(c))
          /\ UNCHANGED marker
    /\ UNCHANGED <<reg, dir, legacy>>

WriteOwner(c) ==
    /\ pc[c] = "write"
    /\ marker' = [marker EXCEPT ![cand[c]] = RootOwner(c)]
    /\ Held(c)
    /\ UNCHANGED <<reg, dir, legacy>>

\* The whole registry is written from the copy.  get goes on to
\* owned_temp_root, which itself returns the root it has moved to.
Save(c) ==
    /\ pc[c] = "save"
    /\ reg' = [reg EXCEPT ![at[c]] =
                    [worlds[c] EXCEPT ![id[c]] = [ip |-> cand[c], root |-> "some"]]]
    /\ \/ task[c] = "create" /\ Exit(c)
       \/ /\ task[c] = "get"
          /\ Unlock(c)
          /\ Goto(c, "own")
          /\ cand' = [cand EXCEPT ![c] = 0]
          /\ UNCHANGED <<at, id, task, worlds, aim>>
       \/ /\ task[c] = "own"
          /\ Unlock(c)
          /\ Goto(c, "run")
          /\ UNCHANGED <<at, id, task, worlds, cand, aim>>
    /\ UNCHANGED rootVars

-----------------------------------------------------------------------------
(* The end of a command, failures and the user                             *)

\* The command, or on Linux the namespace holder, ends.
Done(c) == pc[c] = "run" /\ Exit(c) /\ UNCHANGED <<reg, rootVars>>

\* An error return or a kill.
Fail(c) == pc[c] \notin {"idle", "run"} /\ Exit(c) /\ UNCHANGED <<reg, rootVars>>

\* The user deletes the temp root of an address nobody works on.
RemoveRoot(i) ==
    /\ i \in dir
    /\ \A c \in Clients : cand[c] # i
    /\ dir' = dir \ {i} /\ legacy' = legacy \ {i}
    /\ marker' = [marker EXCEPT ![i] = None]
    /\ UNCHANGED <<reg, lock, clientVars>>

Step(c) ==
    \/ CreateLock(c) \/ GetRead(c) \/ GetLock(c) \/ OwnLock(c)
    \/ Peek(c) \/ Make(c) \/ Mark(c) \/ WriteOwner(c) \/ Save(c)

Next ==
    \/ \E c \in Clients : Begin(c) \/ Step(c) \/ Done(c) \/ Fail(c)
    \/ \E i \in Ips : RemoveRoot(i)

Spec == Init /\ [][Next]_vars

\* A process that is not waiting for a lock goes on.
FairSpec == Spec /\ \A c \in Clients : WF_vars(Step(c))

-----------------------------------------------------------------------------
(* Properties                                                              *)

Claiming == {"peek", "make", "mark", "write", "save"}
Labels == {"idle", "create", "get", "get_lock", "own", "run"} \cup Claiming

\* Every variable has its type.
TypeOK ==
    /\ reg \in [States -> [Ids -> Entries \cup {None}]]
    /\ lock \in [States -> Clients \cup {None}]
    /\ dir \subseteq Ips /\ legacy \subseteq dir
    /\ marker \in [Ips -> Workspaces \cup {None, Blank}]
    /\ pc \in [Clients -> Labels]
    /\ at \in [Clients -> States \cup {None}]
    /\ id \in [Clients -> Ids \cup {None}]
    /\ task \in [Clients -> {"create", "get", "own", None}]
    /\ worlds \in [Clients -> [Ids -> Entries \cup {None}]]
    /\ cand \in [Clients -> Ips \cup {0}]
    /\ aim \in [Clients -> {"keep", "move"}]

\* Two commands that run at the same time with the same temp root belong to
\* the same workspace, whichever registries they come from.
NoSharedRoot ==
    \A c, d \in Clients :
        pc[c] = "run" /\ pc[d] = "run" /\ cand[c] = cand[d]
            => at[c] = at[d] /\ id[c] = id[d]

\* Within a registry every workspace has an address of its own.
AddressesDiffer == \A s \in States : Distinct(reg[s])

\* A recorded root is given up only when its directory is not marked as the
\* workspace's: a workspace is never moved away from its own files.
MovesOnlyWhenTaken ==
    [][\A s \in States : \A i \in Ids :
        /\ reg[s][i] # None => reg'[s][i] # None
        /\ reg[s][i] # None /\ reg[s][i].root = "some" /\ reg'[s][i] # reg[s][i]
              => reg'[s][i].root = "some" /\ marker[reg[s][i].ip] # <<s, i>>]_vars

\* A directory that an older release left without a marker is taken into use
\* by the workspace that records it, and by no other.
LegacyRootsKept ==
    [][\A i \in legacy : marker[i] = None /\ marker'[i] # None =>
        \E c \in Clients :
            /\ pc[c] = "mark" /\ pc'[c] = "write" /\ cand[c] = i
            /\ Entry(c) = [ip |-> i, root |-> "some"]]_vars

\* A workspace's own temp root is kept for it.
RootsStay == MovesOnlyWhenTaken /\ LegacyRootsKept

\* The search for an address ends, so the registry lock is given back.
SearchEnds == \A c \in Clients : \A s \in States : lock[s] = c ~> lock[s] # c

=============================================================================
