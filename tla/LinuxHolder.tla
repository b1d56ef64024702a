---------------------------- MODULE LinuxHolder ----------------------------
(***************************************************************************)
(* Namespace holders of native workspaces on Linux: setup, teardown and    *)
(* the start of exec (crates/world-runtime/src/silo.rs) with the processes *)
(* they start and stop (crates/world-runtime/src/linux.rs).                *)
(*                                                                         *)
(* A holder keeps the namespaces of one workspace, and in them one temp    *)
(* root as /tmp.  It is found again only through its record, which names a *)
(* pid, a start time and namespaces; a pid may be reused.  A holder waits  *)
(* twice for its client, to be pinned and to be recorded, and ends when    *)
(* the client is gone.  Any process may be killed at any time.             *)
(*                                                                         *)
(* Outbound network (pasta) is in HolderStart; here it may make setup      *)
(* replace a holder that would do otherwise.  Zombies are reaped by init.  *)
(***************************************************************************)
EXTENDS Naturals

CONSTANTS
    Ids,        \* workspaces
    Clients,    \* `world` processes
    Pids,       \* process ids
    Ops,        \* the subcommands the clients use
    Births,     \* holder processes: what start time and namespaces tell apart
    Paths,      \* temp roots of this user
    MaxInode,   \* bound: directories made at those paths
    PidFd,      \* TRUE: the kernel has pidfds (Linux 5.3)
    Other,      \* any process that is not a holder
    None        \* "no value"

AllOps == {"setup", "teardown", "exec"}

ASSUME OpsAssumption == Ops \subseteq AllOps
ASSUME InodeAssumption == MaxInode \in Nat
ASSUME PidFdAssumption == PidFd \in BOOLEAN
ASSUME ValueAssumption ==
    /\ None \notin Ids \cup Clients \cup Pids \cup Births \cup Paths \cup {Other}
    /\ Other \notin Births

VARIABLES
    \* On disk
    holders,    \* holders.json: the holder recorded for each workspace
    lock,       \* holder of registry.lock
    recorded,   \* temp_root of each workspace in registry.json
    inode,      \* the directory at each path; 0: there is none
    lastInode,  \* directories made so far
    foreign,    \* those that another registry made
    \* Processes
    at,         \* what each pid names
    stage,      \* how far each holder is
    pid, owner, \* its pid and, for the properties, its workspace
    src,        \* the temp root it was told to mount
    temp,       \* the directory it has mounted; 0: the host's /tmp
    sent,       \* acknowledgments its client has sent
    killed,     \* holders that were sent SIGKILL
    hit,        \* history: another process was sent SIGKILL
    \* One client
    pc, op, id, \* where it is, its subcommand and its workspace
    path,       \* temp root in its World value
    map,        \* its copy of holders.json
    pin,        \* the process its pidfd names
    started,    \* the holder it has started
    before      \* history: directories that were gone when it began

diskVars == <<holders, lock, recorded>>
rootVars == <<inode, lastInode, foreign>>
procVars == <<at, stage, pid, owner, src, temp, sent, killed, hit>>
clientVars == <<pc, op, id, path, map, pin, started, before>>
vars == <<diskVars, rootVars, procVars, clientVars>>

\* A process that runs; "zombie" keeps its pid, "gone" does not.
Live == {"born", "waiting", "holding"}
Stages == Live \cup {"unborn", "zombie", "gone"}

NoRecords == [i \in Ids |-> None]
Record(c) == map[c][id[c]]

\* The process that a pid names is the recorded one, and runs.
Runs(b) == stage[b] \in Live /\ at[pid[b]] = b

\* Some holders of a release that had no private /tmp may be there.
Init ==
    /\ holders \in {h \in [Ids -> Births \cup {None}] :
                        \A i, j \in Ids : h[i] = h[j] /\ i # j => h[i] = None}
    /\ owner \in {o \in [Births -> Ids \cup {None}] :
                        \A b \in Births, i \in Ids : o[b] = i <=> holders[i] = b}
    /\ pid \in {q \in [Births -> Pids \cup {None}] :
                    /\ \A b \in Births : q[b] = None <=> owner[b] = None
                    /\ \A a, b \in Births : q[a] = q[b] /\ a # b => q[a] = None}
    /\ at \in {a \in [Pids -> Births \cup {Other, None}] :
                    \A p \in Pids : \A b \in Births : a[p] = b <=> pid[b] = p}
    /\ stage = [b \in Births |-> IF owner[b] = None THEN "unborn" ELSE "holding"]
    /\ lock = None
    /\ recorded \in {r \in [Ids -> Paths] : \A i, j \in Ids : r[i] = r[j] => i = j}
    /\ inode = [p \in Paths |-> 0] /\ lastInode = 0 /\ foreign = {}
    /\ src = [b \in Births |-> None]
    /\ temp = [b \in Births |-> 0]
    /\ sent = [b \in Births |-> IF owner[b] = None THEN 0 ELSE 2]
    /\ killed = {} /\ hit = FALSE
    /\ pc = [c \in Clients |-> "idle"]
    /\ op = [c \in Clients |-> None]
    /\ id = [c \in Clients |-> None]
    /\ path = [c \in Clients |-> None]
    /\ map = [c \in Clients |-> NoRecords]
    /\ pin = [c \in Clients |-> None]
    /\ started = [c \in Clients |-> None]
    /\ before = [c \in Clients |-> {}]

-----------------------------------------------------------------------------
(* Beginning and end of a client                                           *)

Goto(c, label) == pc' = [pc EXCEPT ![c] = label]

\* The process ends, or the operation returns: its lock goes, and the channel
\* to a holder it has started is closed.
Exit(c) ==
    /\ Goto(c, "idle")
    /\ lock' = IF lock = c THEN None ELSE lock
    /\ op' = [op EXCEPT ![c] = None]
    /\ id' = [id EXCEPT ![c] = None]
    /\ path' = [path EXCEPT ![c] = None]
    /\ map' = [map EXCEPT ![c] = NoRecords]
    /\ pin' = [pin EXCEPT ![c] = None]
    /\ started' = [started EXCEPT ![c] = None]
    /\ before' = [before EXCEPT ![c] = {}]

\* get reads the World value, its temp root with it.
Begin(c) ==
    /\ pc[c] = "idle"
    /\ \E o \in Ops, i \in Ids :
        /\ op' = [op EXCEPT ![c] = o]
        /\ id' = [id EXCEPT ![c] = i]
        /\ path' = [path EXCEPT ![c] = recorded[i]]
        /\ Goto(c, CASE o = "setup" -> "own" [] o = "teardown" -> "lock"
                     [] o = "exec" -> "find")
        /\ before' = [before EXCEPT ![c] =
                        IF o = "exec" THEN (1..lastInode) \ {inode[p] : p \in Paths}
                                      ELSE {}]
    /\ UNCHANGED <<diskVars, rootVars, procVars, map, pin, started>>

\* lock(state) waits for registry.lock.
LockFree == lock = None

\* An error return or a kill.
Fail(c) ==
    /\ pc[c] \notin {"idle", "run"}
    /\ Exit(c)
    /\ UNCHANGED <<holders, recorded, rootVars, procVars>>

-----------------------------------------------------------------------------
(* setup up to the holder that is already there                            *)

\* Mutant: the World value from before owned_temp_root is used.
PathBefore(c, p) == path[c]
PathAfter(c, p) == p

\* owned_temp_root, under the lock: a root that another registry made its own
\* is given up for one that nobody uses; a missing directory is made again.
RootChoices(c) ==
    IF inode[recorded[id[c]]] \in foreign
    THEN {p \in Paths : inode[p] = 0 /\ \A i \in Ids : recorded[i] # p}
    ELSE {recorded[id[c]]}

OwnRoot(c) ==
    /\ pc[c] = "own"
    /\ LockFree
    /\ \E p \in RootChoices(c) :
        /\ recorded' = [recorded EXCEPT ![id[c]] = p]
        /\ path' = [path EXCEPT ![c] = PathAfter(c, p)]
        /\ \/ inode[p] # 0 /\ UNCHANGED <<inode, lastInode>>
           \/ /\ inode[p] = 0 /\ lastInode < MaxInode
              /\ lastInode' = lastInode + 1
              /\ inode' = [inode EXCEPT ![p] = lastInode + 1]
    /\ Goto(c, "lock")
    /\ UNCHANGED <<holders, lock, foreign, procVars, op, id, map, pin, started, before>>

\* setup and teardown read the records under the lock, taken anew.
Lock(c) ==
    /\ pc[c] = "lock"
    /\ LockFree
    /\ \/ /\ op[c] = "teardown" /\ holders[id[c]] = None
          /\ Exit(c)
       \/ /\ op[c] = "setup" \/ holders[id[c]] # None
          /\ lock' = c
          /\ map' = [map EXCEPT ![c] = holders]
          /\ Goto(c, IF holders[id[c]] = None THEN "fork" ELSE "verify")
          /\ UNCHANGED <<op, id, path, pin, started, before>>
    /\ UNCHANGED <<holders, recorded, rootVars, procVars>>

\* Holder::verify: namespaces and start time of the pid are the recorded ones.
Verified(b) == Runs(b)

\* A holder that is definitely gone is forgotten.
Verify(c) ==
    /\ pc[c] = "verify"
    /\ Goto(c, CASE Verified(Record(c)) /\ op[c] = "setup" -> "judge"
                 [] Verified(Record(c)) /\ op[c] = "teardown" -> "pin"
                 [] ~Verified(Record(c)) /\ op[c] = "setup" -> "fork"
                 [] ~Verified(Record(c)) /\ op[c] = "teardown" -> "forget")
    /\ UNCHANGED <<diskVars, rootVars, procVars, op, id, path, map, pin, started, before>>

\* A record of the older release has no mount namespace (Holder::legacy).
\* Otherwise Holder::temp_is looks at whatever has the pid by then: another
\* holder, or a process that may see any /tmp.
TempIs(c) ==
    LET seen == at[pid[Record(c)]] IN
    IF seen = Other /\ temp[Record(c)] # 0 THEN BOOLEAN
    ELSE {/\ seen \in Births /\ stage[seen] \in Live
          /\ temp[Record(c)] # 0 /\ inode[path[c]] # 0
          /\ temp[seen] = inode[path[c]]}

\* The holder will do, or its /tmp or its network asks for another one.
Judge(c) ==
    /\ pc[c] = "judge"
    /\ \/ TRUE \in TempIs(c) /\ Exit(c)
       \/ Goto(c, "pin") /\ UNCHANGED <<lock, op, id, path, map, pin, started, before>>
    /\ UNCHANGED <<holders, recorded, rootVars, procVars>>

-----------------------------------------------------------------------------
(* stop_holder                                                             *)

\* A pidfd names the process that has the pid now, for good.
Pin(c) ==
    /\ pc[c] = "pin"
    /\ \/ /\ PidFd => at[pid[Record(c)]] # None
          /\ pin' = [pin EXCEPT ![c] = IF PidFd THEN at[pid[Record(c)]] ELSE None]
          /\ Goto(c, "recheck")
          /\ UNCHANGED <<lock, op, id, path, map, started, before>>
       \/ PidFd /\ at[pid[Record(c)]] = None /\ Exit(c)
    /\ UNCHANGED <<holders, recorded, rootVars, procVars>>

\* Mutant: what was verified before stays so.
RecheckedAlready(b) == TRUE
Rechecked(b) == Verified(b)

Recheck(c) ==
    /\ pc[c] = "recheck"
    /\ \/ /\ Rechecked(Record(c))
          /\ Goto(c, "signal")
          /\ UNCHANGED <<lock, op, id, path, map, pin, started, before>>
       \/ ~Rechecked(Record(c)) /\ Exit(c)
    /\ UNCHANGED <<holders, recorded, rootVars, procVars>>

\* The process that gets the signal: by pid only where there are no pidfds.
Target(c) == IF PidFd THEN pin[c] ELSE at[pid[Record(c)]]

\* Everything but a process that is already reaped takes the signal.
Reached(c) ==
    Target(c) = Other \/ (Target(c) \in Births /\ stage[Target(c)] # "gone")

Signal(c) ==
    /\ pc[c] = "signal"
    /\ \/ /\ Reached(c)
          /\ hit' = (hit \/ Target(c) = Other)
          /\ killed' = killed \cup ({Target(c)} \ {Other})
          /\ Goto(c, IF op[c] = "setup" THEN "fork" ELSE "forget")
          /\ UNCHANGED <<lock, op, id, path, map, pin, started, before>>
       \/ ~Reached(c) /\ Exit(c) /\ UNCHANGED <<hit, killed>>
    /\ UNCHANGED <<holders, recorded, rootVars, at, stage, pid, owner, src, temp, sent>>

Forget(c) ==
    /\ pc[c] = "forget"
    /\ holders' = [map[c] EXCEPT ![id[c]] = None]
    /\ Exit(c)
    /\ UNCHANGED <<recorded, rootVars, procVars>>

-----------------------------------------------------------------------------
(* start_holder, the record and the commit                                 *)

\* The double fork; the holder says its pid and waits.
FreeSlots == {s \in Births \X Pids : stage[s[1]] = "unborn" /\ at[s[2]] = None}

Fork(c) ==
    /\ pc[c] = "fork"
    /\ \/ /\ \E s \in FreeSlots :
                /\ at' = [at EXCEPT ![s[2]] = s[1]]
                /\ stage' = [stage EXCEPT ![s[1]] = "born"]
                /\ pid' = [pid EXCEPT ![s[1]] = s[2]]
                /\ owner' = [owner EXCEPT ![s[1]] = id[c]]
                /\ src' = [src EXCEPT ![s[1]] = path[c]]
                /\ started' = [started EXCEPT ![c] = s[1]]
          /\ Goto(c, "ack")
          /\ UNCHANGED <<lock, op, id, path, map, pin, before>>
       \/ /\ FreeSlots = {}
          /\ Exit(c)
          /\ UNCHANGED <<at, stage, pid, owner, src>>
    /\ UNCHANGED <<holders, recorded, rootVars, temp, sent, killed, hit>>

\* The holder is pinned and may go on.  Sending to a dead one is an error.
Acknowledge(c) ==
    /\ pc[c] = "ack"
    /\ stage[started[c]] \in Live
    /\ sent' = [sent EXCEPT ![started[c]] = 1]
    /\ Goto(c, "await")
    /\ UNCHANGED <<diskVars, rootVars, at, stage, pid, owner, src, temp, killed, hit, op,
                   id, path, map, pin, started, before>>

\* Its report is read and its identity observed.
Observe(c) ==
    /\ pc[c] = "await"
    /\ stage[started[c]] = "waiting"
    /\ Goto(c, "persist")
    /\ UNCHANGED <<diskVars, rootVars, procVars, op, id, path, map, pin, started, before>>

NewRecords(c) == [map[c] EXCEPT ![id[c]] = started[c]]

Persist(c) ==
    /\ pc[c] = "persist"
    /\ holders' = NewRecords(c)
    /\ Goto(c, "commit")
    /\ UNCHANGED <<lock, recorded, rootVars, procVars, op, id, path, map, pin, started,
                   before>>

Commit(c) ==
    /\ pc[c] = "commit"
    /\ stage[started[c]] \in Live
    /\ sent' = [sent EXCEPT ![started[c]] = 2]
    /\ Exit(c)
    /\ UNCHANGED <<holders, recorded, rootVars, at, stage, pid, owner, src, temp, killed,
                   hit>>

\* The channel or the report of a holder that died ends the operation.
HolderLost(c) ==
    /\ pc[c] \in {"ack", "await", "commit"}
    /\ stage[started[c]] \notin Live
    /\ Exit(c)
    /\ UNCHANGED <<holders, recorded, rootVars, procVars>>

-----------------------------------------------------------------------------
(* exec up to the namespaces it joins                                      *)

Find(c) ==
    /\ pc[c] = "find"
    /\ \/ /\ holders[id[c]] # None
          /\ map' = [map EXCEPT ![c] = holders]
          /\ Goto(c, "temp")
          /\ UNCHANGED <<lock, op, id, path, pin, started, before>>
       \/ holders[id[c]] = None /\ Exit(c)
    /\ UNCHANGED <<holders, recorded, rootVars, procVars>>

CheckTemp(c) ==
    /\ pc[c] = "temp"
    /\ \/ /\ TRUE \in TempIs(c)
          /\ Goto(c, "join")
          /\ UNCHANGED <<lock, op, id, path, map, pin, started, before>>
       \/ FALSE \in TempIs(c) /\ Exit(c)
    /\ UNCHANGED <<holders, recorded, rootVars, procVars>>

\* The open descriptors keep the namespaces, whatever becomes of the holder.
Join(c) ==
    /\ pc[c] = "join"
    /\ \/ /\ Verified(Record(c))
          /\ Goto(c, "run")
          /\ UNCHANGED <<lock, op, id, path, map, pin, started, before>>
       \/ ~Verified(Record(c)) /\ Exit(c)
    /\ UNCHANGED <<holders, recorded, rootVars, procVars>>

Done(c) == pc[c] = "run" /\ Exit(c) /\ UNCHANGED <<holders, recorded, rootVars, procVars>>

-----------------------------------------------------------------------------
(* The holder                                                              *)

\* Mutant: the holder does not wait to be recorded.
HearsUncommitted(b, n) == sent[b] >= 1
\* One byte from the client; what was sent is read even if it is gone.
Hears(b, n) == sent[b] >= n
\* End of file: the client is gone, or gave up.
Abandoned(b) == \A c \in Clients : started[c] # b

Ends(b) ==
    /\ stage' = [stage EXCEPT ![b] = "zombie"]
    /\ UNCHANGED <<diskVars, rootVars, at, pid, owner, src, temp, sent, killed, hit,
                   clientVars>>

\* Pinned, the holder enters its namespaces and binds the directory that its
\* root's path names by now.  Without one, or on any error, it ends.
Enter(b) ==
    /\ stage[b] = "born" /\ b \notin killed
    /\ Hears(b, 1)
    /\ \/ /\ inode[src[b]] # 0
          /\ temp' = [temp EXCEPT ![b] = inode[src[b]]]
          /\ stage' = [stage EXCEPT ![b] = "waiting"]
          /\ UNCHANGED <<diskVars, rootVars, at, pid, owner, src, sent, killed, hit,
                         clientVars>>
       \/ Ends(b)

Hold(b) ==
    /\ stage[b] = "waiting" /\ b \notin killed
    /\ Hears(b, 2)
    /\ stage' = [stage EXCEPT ![b] = "holding"]
    /\ UNCHANGED <<diskVars, rootVars, at, pid, owner, src, temp, sent, killed, hit,
                   clientVars>>

GivesUp(b) ==
    /\ Abandoned(b)
    /\ \/ stage[b] = "born" /\ ~Hears(b, 1)
       \/ stage[b] = "waiting" /\ ~Hears(b, 2)

Leave(b) == GivesUp(b) /\ Ends(b)

\* The user, the kernel or teardown kills it.
Dies(b) == stage[b] \in Live /\ Ends(b)

-----------------------------------------------------------------------------
(* Other processes, other registries and the user                          *)

\* init reaps it; its pid may be given to another process.
Reap(b) ==
    /\ stage[b] = "zombie"
    /\ stage' = [stage EXCEPT ![b] = "gone"]
    /\ at' = [at EXCEPT ![pid[b]] = None]
    /\ src' = [src EXCEPT ![b] = None]
    /\ killed' = killed \ {b}
    /\ UNCHANGED <<diskVars, rootVars, pid, owner, temp, sent, hit, clientVars>>

\* An unrelated process takes, or gives back, a pid.
OtherRuns(p) ==
    /\ \/ at[p] = None /\ at' = [at EXCEPT ![p] = Other]
       \/ at[p] = Other /\ at' = [at EXCEPT ![p] = None]
    /\ UNCHANGED <<diskVars, rootVars, stage, pid, owner, src, temp, sent, killed, hit,
                   clientVars>>

\* A user deletes a temp root, but not while setup works on it.
RemoveRoot(p) ==
    /\ inode[p] # 0
    /\ \A c \in Clients : op[c] = "setup" => path[c] # p
    /\ inode' = [inode EXCEPT ![p] = 0]
    /\ UNCHANGED <<diskVars, lastInode, foreign, procVars, clientVars>>

\* Another registry of the user claims an address that has no directory.
ForeignClaim(p) ==
    /\ inode[p] = 0 /\ lastInode < MaxInode
    /\ lastInode' = lastInode + 1
    /\ inode' = [inode EXCEPT ![p] = lastInode + 1]
    /\ foreign' = foreign \cup {lastInode + 1}
    /\ UNCHANGED <<diskVars, procVars, clientVars>>

-----------------------------------------------------------------------------
Step(c) ==
    \/ OwnRoot(c) \/ Lock(c) \/ Verify(c) \/ Judge(c)
    \/ Pin(c) \/ Recheck(c) \/ Signal(c) \/ Forget(c)
    \/ Fork(c) \/ Acknowledge(c) \/ Observe(c) \/ Persist(c) \/ Commit(c) \/ HolderLost(c)
    \/ Find(c) \/ CheckTemp(c) \/ Join(c)

HolderStep(b) == Enter(b) \/ Hold(b) \/ Leave(b)

Next ==
    \/ \E c \in Clients : Begin(c) \/ Step(c) \/ Done(c) \/ Fail(c)
    \/ \E b \in Births : HolderStep(b) \/ Dies(b) \/ Reap(b)
    \/ \E p \in Pids : OtherRuns(p)
    \/ \E p \in Paths : RemoveRoot(p) \/ ForeignClaim(p)

Spec == Init /\ [][Next]_vars

-----------------------------------------------------------------------------
(* Properties                                                              *)

StartSteps == {"ack", "await", "persist", "commit"}
LockedSteps == {"verify", "judge", "pin", "recheck", "signal", "forget", "fork"}
                    \cup StartSteps
Labels == {"idle", "own", "lock", "find", "temp", "join", "run"} \cup LockedSteps

\* Every variable has its type.
TypeOK ==
    /\ holders \in [Ids -> Births \cup {None}]
    /\ lock \in Clients \cup {None}
    /\ recorded \in [Ids -> Paths]
    /\ lastInode \in 0..MaxInode
    /\ inode \in [Paths -> 0..lastInode]
    /\ foreign \subseteq 1..lastInode
    /\ at \in [Pids -> Births \cup {Other, None}]
    /\ stage \in [Births -> Stages]
    /\ pid \in [Births -> Pids \cup {None}]
    /\ owner \in [Births -> Ids \cup {None}]
    /\ src \in [Births -> Paths \cup {None}]
    /\ temp \in [Births -> 0..lastInode]
    /\ sent \in [Births -> 0..2]
    /\ killed \subseteq Births
    /\ hit \in BOOLEAN
    /\ pc \in [Clients -> Labels]
    /\ op \in [Clients -> Ops \cup {None}]
    /\ id \in [Clients -> Ids \cup {None}]
    /\ path \in [Clients -> Paths \cup {None}]
    /\ map \in [Clients -> [Ids -> Births \cup {None}]]
    /\ pin \in [Clients -> Births \cup {Other, None}]
    /\ started \in [Clients -> Births \cup {None}]
    /\ before \in [Clients -> SUBSET (1..MaxInode)]

\* A holder that keeps a workspace's namespaces is the one recorded for it,
\* whatever crash, failed write or concurrent setup there was: none is left
\* behind that teardown could not find, and no workspace has two.
HoldersAreRecorded ==
    \A b \in Births :
        stage[b] = "holding" /\ b \notin killed => holders[owner[b]] = b

\* teardown and setup kill only the holder that is recorded for their
\* workspace, although its pid may be reused at any time.
KillsOnlyTheRecorded ==
    [][/\ hit' = hit
       /\ \A b \in killed' \ killed :
            \E c \in Clients : pc[c] = "signal" /\ holders[id[c]] = b]_vars

\* No holder keeps the temp root of another registry's workspace, even if
\* that registry has taken over the address.
NoForeignTemp ==
    \A b \in Births : stage[b] = "holding" => temp[b] \notin foreign

\* exec never runs a command on the host's /tmp, on another registry's root
\* or on a directory that had been deleted before exec began.
ExecInOwnTemp ==
    \A c \in Clients :
        pc[c] = "run" => temp[Record(c)] \notin {0} \cup foreign \cup before[c]

\* The temp root a holder keeps and its commands use is the workspace's own.
TempIsPrivate == NoForeignTemp /\ ExecInOwnTemp

=============================================================================
