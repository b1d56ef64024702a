------------------------- MODULE LinuxHolderProofs -------------------------
(***************************************************************************)
(* TLAPS proofs about LinuxHolder, for any workspaces, clients, pids,      *)
(* holders and temp roots.  Inv is inductive: the lock makes a client the  *)
(* only one that works on the records, a live holder keeps its pid, and a  *)
(* client that is about to write a record has seen the old holder end.     *)
(*                                                                         *)
(* The last part is about HolderStart, the processes of one start and      *)
(* stop.  StartInv is inductive: a monitor that no record names is let go  *)
(* of by its holder before that ends or is recorded.                       *)
(***************************************************************************)
EXTENDS LinuxHolder, HolderStart, TLAPS

ExecSteps == {"find", "temp", "join", "run"}
StopSteps == {"verify", "judge", "pin", "recheck", "signal"}

\* What the variables of a client hold at each of its steps.
Shape ==
    \A c \in Clients :
        /\ pc[c] = "idle" => op[c] = None
        /\ pc[c] # "idle" => id[c] \in Ids /\ path[c] \in Paths
        /\ pc[c] \in {"own", "judge", "fork"} \cup StartSteps => op[c] = "setup"
        /\ pc[c] = "forget" => op[c] = "teardown"
        /\ pc[c] \in LockedSteps \cup {"lock"} => op[c] \in {"setup", "teardown"}
        /\ pc[c] \in ExecSteps => op[c] = "exec"
        /\ pc[c] \in StopSteps \cup {"temp", "join", "run"} => Record(c) \in Births
        /\ pc[c] \in StartSteps <=> started[c] # None

\* A process that is there has its pid, and nothing else has.
PidsAgree ==
    /\ \A b \in Births :
        /\ stage[b] # "unborn" => pid[b] \in Pids /\ owner[b] \in Ids
        /\ stage[b] \in Live \cup {"zombie"} => at[pid[b]] = b
        /\ stage[b] = "unborn" => sent[b] = 0 /\ temp[b] = 0
        /\ stage[b] = "born" => sent[b] # 2 /\ src[b] \in Paths
    /\ \A p \in Pids :
        at[p] \in Births => stage[at[p]] \in Live \cup {"zombie"} /\ pid[at[p]] = p

\* A client that works on the records holds the lock, and they do not change
\* until it has written them.
LockHeld ==
    \A c \in Clients : pc[c] \in LockedSteps =>
        /\ lock = c
        /\ pc[c] # "commit" => map[c] = holders

\* A record, on disk or read, names a holder that has entered its namespaces.
Entered ==
    /\ \A i \in Ids : holders[i] # None =>
        stage[holders[i]] \notin {"unborn", "born"} /\ owner[holders[i]] = i
    /\ \A c \in Clients : \A i \in Ids : map[c][i] # None =>
        stage[map[c][i]] \notin {"unborn", "born"}

\* The holder a client has started waits for it.
Starting ==
    \A c \in Clients : pc[c] \in StartSteps =>
        /\ stage[started[c]] \notin {"unborn", "holding"}
        /\ owner[started[c]] = id[c]
        /\ sent[started[c]] = (IF pc[c] = "ack" THEN 0 ELSE 1)
        /\ pc[c] \in {"persist", "commit"} => stage[started[c]] # "born"
        /\ pc[c] = "commit" => holders[id[c]] = started[c]

\* A holder that was told so is recorded.
Committed ==
    \A b \in Births :
        /\ stage[b] = "holding" => sent[b] = 2
        /\ stage[b] \in Live /\ sent[b] = 2 /\ b \notin killed => holders[owner[b]] = b

\* A record is overwritten or dropped when its holder is killed or gone.
Replaceable ==
    \A c \in Clients :
        pc[c] \in {"fork", "ack", "await", "persist", "forget"} /\ holders[id[c]] # None =>
            stage[holders[id[c]]] \notin Live \/ holders[id[c]] \in killed

\* A pidfd names the recorded holder, unless that is gone.
PinNamed ==
    \A c \in Clients : PidFd =>
        /\ pc[c] = "recheck" => pin[c] = Record(c) \/ stage[Record(c)] \notin Live
        /\ pc[c] = "signal" => pin[c] = Record(c)

\* The root that setup has confirmed stays the workspace's own.
RootKept ==
    \A c \in Clients : op[c] = "setup" /\ pc[c] \notin {"idle", "own"} =>
        inode[path[c]] \notin {0} \cup foreign

\* What a holder mounts for a client that lives, or had it recorded, is no
\* other registry's.
TempsAreOwn ==
    /\ \A c \in Clients : pc[c] \in StartSteps =>
        /\ stage[started[c]] = "born" => src[started[c]] = path[c]
        /\ temp[started[c]] \notin foreign
    /\ \A i \in Ids : holders[i] # None => temp[holders[i]] \notin foreign
    /\ \A c \in Clients : \A i \in Ids : map[c][i] # None => temp[map[c][i]] \notin foreign
    /\ \A b \in Births : sent[b] = 2 => temp[b] \notin foreign

\* A directory that was gone does not come back.
PastIsPast ==
    \A c \in Clients :
        /\ before[c] \subseteq 1..lastInode
        /\ \A p \in Paths : inode[p] \notin before[c]

\* The holder whose /tmp was found right still has it, or cannot be joined.
TempChecked ==
    \A c \in Clients :
        pc[c] = "run" \/ (pc[c] = "join" /\ stage[Record(c)] \in Live) =>
            temp[Record(c)] \notin {0} \cup before[c]

Inv ==
    /\ TypeOK
    /\ Shape
    /\ PidsAgree
    /\ LockHeld
    /\ Entered
    /\ Starting
    /\ Committed
    /\ Replaceable
    /\ PinNamed
    /\ RootKept
    /\ TempsAreOwn
    /\ PastIsPast
    /\ TempChecked

-----------------------------------------------------------------------------
(* The steps of a client and of a holder, split at every IF and CASE.      *)

Gone(o) == IF o = "exec" THEN (1..lastInode) \ {inode[p] : p \in Paths} ELSE {}

Begins(c, o, i) ==
    /\ pc[c] = "idle"
    /\ op' = [op EXCEPT ![c] = o]
    /\ id' = [id EXCEPT ![c] = i]
    /\ path' = [path EXCEPT ![c] = recorded[i]]
    /\ \/ o = "setup" /\ Goto(c, "own")
       \/ o = "teardown" /\ Goto(c, "lock")
       \/ o = "exec" /\ Goto(c, "find")
    /\ before' = [before EXCEPT ![c] = Gone(o)]
    /\ UNCHANGED <<diskVars, rootVars, procVars, map, pin, started>>

Leaves(c) == Exit(c) /\ UNCHANGED <<holders, recorded, rootVars, procVars>>

Locks(c) ==
    /\ pc[c] = "lock"
    /\ LockFree
    /\ lock' = c
    /\ map' = [map EXCEPT ![c] = holders]
    /\ \/ holders[id[c]] = None /\ op[c] = "setup" /\ Goto(c, "fork")
       \/ holders[id[c]] # None /\ Goto(c, "verify")
    /\ UNCHANGED <<holders, recorded, rootVars, procVars, op, id, path, pin, started, before>>

\* Only the place changes, while the lock is held ...
Decides(c) ==
    /\ \/ pc[c] = "verify" /\ ~Verified(Record(c)) /\ op[c] = "setup" /\ Goto(c, "fork")
       \/ pc[c] = "verify" /\ ~Verified(Record(c)) /\ op[c] = "teardown" /\ Goto(c, "forget")
       \/ pc[c] = "verify" /\ op[c] = "setup" /\ Goto(c, "judge")
       \/ pc[c] \in {"verify", "judge"} /\ Goto(c, "pin")
       \/ pc[c] = "recheck" /\ Verified(Record(c)) /\ Goto(c, "signal")
    /\ UNCHANGED <<diskVars, rootVars, procVars, op, id, path, map, pin, started, before>>

\* ... or in exec.
TempFits(c) ==
    \/ at[pid[Record(c)]] = Other
    \/ inode[path[c]] # 0 /\ temp[at[pid[Record(c)]]] = inode[path[c]]

Approves(c) ==
    /\ \/ pc[c] = "temp" /\ TempFits(c) /\ Goto(c, "join")
       \/ pc[c] = "join" /\ Verified(Record(c)) /\ Goto(c, "run")
    /\ UNCHANGED <<diskVars, rootVars, procVars, op, id, path, map, pin, started, before>>

Pins(c) ==
    /\ pc[c] = "pin"
    /\ \/ PidFd /\ pin' = [pin EXCEPT ![c] = at[pid[Record(c)]]]
       \/ ~PidFd /\ pin' = [pin EXCEPT ![c] = None]
    /\ Goto(c, "recheck")
    /\ UNCHANGED <<diskVars, rootVars, procVars, op, id, path, map, started, before>>

Signals(c) ==
    /\ pc[c] = "signal"
    /\ Reached(c)
    /\ hit' = (hit \/ Target(c) = Other)
    /\ killed' = killed \cup ({Target(c)} \ {Other})
    /\ \/ op[c] = "setup" /\ Goto(c, "fork")
       \/ op[c] = "teardown" /\ Goto(c, "forget")
    /\ UNCHANGED <<diskVars, rootVars, at, stage, pid, owner, src, temp, sent, op, id,
                   path, map, pin, started, before>>

Forks(c, b, p) ==
    /\ pc[c] = "fork"
    /\ stage[b] = "unborn" /\ at[p] = None
    /\ at' = [at EXCEPT ![p] = b]
    /\ stage' = [stage EXCEPT ![b] = "born"]
    /\ pid' = [pid EXCEPT ![b] = p]
    /\ owner' = [owner EXCEPT ![b] = id[c]]
    /\ src' = [src EXCEPT ![b] = path[c]]
    /\ started' = [started EXCEPT ![c] = b]
    /\ Goto(c, "ack")
    /\ UNCHANGED <<diskVars, rootVars, temp, sent, killed, hit, op, id, path, map, pin, before>>

Finds(c) ==
    /\ pc[c] = "find"
    /\ holders[id[c]] # None
    /\ map' = [map EXCEPT ![c] = holders]
    /\ Goto(c, "temp")
    /\ UNCHANGED <<diskVars, rootVars, procVars, op, id, path, pin, started, before>>

Enters(b) ==
    /\ stage[b] = "born"
    /\ inode[src[b]] # 0
    /\ temp' = [temp EXCEPT ![b] = inode[src[b]]]
    /\ stage' = [stage EXCEPT ![b] = "waiting"]
    /\ UNCHANGED <<diskVars, rootVars, at, pid, owner, src, sent, killed, hit, clientVars>>

StepCase ==
    \/ \E c \in Clients :
        \/ \E o \in Ops, i \in Ids : Begins(c, o, i)
        \/ Leaves(c) \/ OwnRoot(c) \/ Locks(c) \/ Decides(c) \/ Pins(c) \/ Signals(c)
        \/ Forget(c) \/ (\E b \in Births, p \in Pids : Forks(c, b, p))
        \/ Acknowledge(c) \/ Observe(c) \/ Persist(c) \/ Commit(c) \/ Finds(c) \/ Approves(c)
    \/ \E b \in Births : Enters(b) \/ Hold(b) \/ Dies(b) \/ Reap(b)
    \/ \E p \in Pids : OtherRuns(p)
    \/ \E p \in Paths : RemoveRoot(p) \/ ForeignClaim(p)
    \/ UNCHANGED vars

\* The special values are different from all others.
LEMMA Values ==
  /\ None \notin Ids /\ None \notin Clients /\ None \notin Pids /\ None \notin Births
  /\ None \notin Paths /\ None # Other /\ Other \notin Births
  BY ValueAssumption

\* Every step is one of these.
LEMMA StepCases ==
  ASSUME TypeOK, Shape, [Next]_vars
  PROVE  StepCase
<1> USE DEF StepCase, diskVars
<1>1. ASSUME NEW c \in Clients, Begin(c) PROVE StepCase
  <2>1. PICK o \in Ops, i \in Ids : Begin(c)!2!(o, i)
    BY <1>1 DEF Begin
  <2>2. o = "setup" \/ o = "teardown" \/ o = "exec"
    BY OpsAssumption DEF AllOps
  <2>3. Begins(c, o, i)
    BY <1>1, <2>1, <2>2 DEF Begin, Begins, Gone
  <2> QED
    BY <2>3
<1>2. ASSUME NEW c \in Clients, Lock(c) PROVE StepCase
  BY <1>2 DEF Lock, Locks, Leaves
<1>3. ASSUME NEW c \in Clients, Verify(c) PROVE StepCase
  <2>1. op[c] \in {"setup", "teardown"}
    BY <1>3 DEF Verify, Shape, LockedSteps
  <2>2. Decides(c)
    BY <1>3, <2>1 DEF Verify, Decides
  <2> QED
    BY <2>2
<1>4. ASSUME NEW c \in Clients, Judge(c) PROVE StepCase
  BY <1>4 DEF Judge, Decides, Leaves
<1>5. ASSUME NEW c \in Clients, Pin(c) PROVE StepCase
  BY <1>5, PidFdAssumption DEF Pin, Pins, Leaves
<1>6. ASSUME NEW c \in Clients, Recheck(c) PROVE StepCase
  BY <1>6 DEF Recheck, Rechecked, Decides, Leaves
<1>7. ASSUME NEW c \in Clients, Signal(c) PROVE StepCase
  <2>1. op[c] \in {"setup", "teardown"}
    BY <1>7 DEF Signal, Shape, LockedSteps
  <2>2. Signals(c) \/ Leaves(c)
    BY <1>7, <2>1 DEF Signal, Signals, Leaves, procVars
  <2> QED
    BY <2>2
<1>8. ASSUME NEW c \in Clients, Fork(c) PROVE StepCase
  <2>1. CASE FreeSlots = {}
    BY <1>8, <2>1 DEF Fork, Leaves, procVars
  <2>2. CASE FreeSlots # {}
    BY <1>8, <2>2 DEF Fork, FreeSlots, Forks
  <2> QED
    BY <2>1, <2>2
<1>9. ASSUME NEW c \in Clients, HolderLost(c) \/ Done(c) \/ Fail(c) PROVE StepCase
  BY <1>9 DEF HolderLost, Done, Fail, Leaves
<1>10. ASSUME NEW c \in Clients, Find(c) PROVE StepCase
  BY <1>10 DEF Find, Finds, Leaves
<1>11. ASSUME NEW c \in Clients, CheckTemp(c) \/ Join(c) PROVE StepCase
  <2>1. TRUE \in TempIs(c) => TempFits(c)
    BY Zenon DEF TempIs, TempFits
  <2> QED
    BY <1>11, <2>1 DEF CheckTemp, Join, Approves, Leaves
<1>12. ASSUME NEW b \in Births, HolderStep(b) PROVE StepCase
  BY <1>12 DEF HolderStep, Enter, Enters, Leave, GivesUp, Dies, Live
<1> QED
  BY <1>1, <1>2, <1>3, <1>4, <1>5, <1>6, <1>7, <1>8, <1>9, <1>10, <1>11, <1>12
     DEF Next, Step

-----------------------------------------------------------------------------
\* Every step keeps the types.
LEMMA TypeOKNext ==
  ASSUME TypeOK, Shape, PidsAgree, Entered, [Next]_vars
  PROVE  TypeOK'
<1>s. StepCase
  BY StepCases
<1>t. {"idle", "own", "lock", "find", "temp", "join", "run", "verify", "judge", "pin",
       "recheck", "signal", "forget", "fork", "ack", "await", "persist", "commit"}
            \subseteq Labels
  BY DEF Labels, LockedSteps, StartSteps
<1> USE <1>t, Values, InodeAssumption DEF TypeOK, Shape, PidsAgree, Entered, Live, Stages,
        StartSteps, StopSteps, LockedSteps, ExecSteps, Record
<1>1. ASSUME NEW c \in Clients, NEW o \in Ops, NEW i \in Ids, Begins(c, o, i) PROVE TypeOK'
  <2>1. pc' \in [Clients -> Labels]
    <3>1. PICK l \in Labels : Goto(c, l)
      BY <1>1 DEF Begins
    <3> QED
      BY <3>1 DEF Goto
  <2>2. before' \in [Clients -> SUBSET (1..MaxInode)]
    <3>1. Gone(o) \subseteq 1..MaxInode
      BY DEF Gone
    <3> QED
      BY <1>1, <3>1 DEF Begins
  <2> QED
    BY <1>1, <2>1, <2>2 DEF Begins, diskVars, rootVars, procVars
<1>2. ASSUME NEW c \in Clients, Leaves(c) PROVE TypeOK'
  BY <1>2 DEF Leaves, Exit, Goto, rootVars, procVars, NoRecords
<1>3. ASSUME NEW c \in Clients, OwnRoot(c) PROVE TypeOK'
  BY <1>3 DEF OwnRoot, RootChoices, PathAfter, Goto, procVars
<1>4. ASSUME NEW c \in Clients, Locks(c) PROVE TypeOK'
  <2>1. pc' \in [Clients -> Labels]
    <3>1. PICK l \in Labels : Goto(c, l)
      BY <1>4 DEF Locks
    <3> QED
      BY <3>1 DEF Goto
  <2> QED
    BY <1>4, <2>1 DEF Locks, rootVars, procVars
<1>5. ASSUME NEW c \in Clients, Decides(c) PROVE TypeOK'
  <2>1. pc' \in [Clients -> Labels]
    <3>1. PICK l \in Labels : Goto(c, l)
      BY <1>5 DEF Decides
    <3> QED
      BY <3>1 DEF Goto
  <2> QED
    BY <1>5, <2>1 DEF Decides, diskVars, rootVars, procVars
<1>6. ASSUME NEW c \in Clients, Pins(c) PROVE TypeOK'
  BY <1>6 DEF Pins, Goto, diskVars, rootVars, procVars
<1>7. ASSUME NEW c \in Clients, Signals(c) PROVE TypeOK'
  <2>1. pc' \in [Clients -> Labels]
    <3>1. PICK l \in Labels : Goto(c, l)
      BY <1>7 DEF Signals
    <3> QED
      BY <3>1 DEF Goto
  <2>2. killed' \subseteq Births /\ hit' \in BOOLEAN
    <3>1. killed' \subseteq Births
      BY <1>7 DEF Signals, Reached
    <3>2. hit' \in BOOLEAN
      BY <1>7, Zenon DEF Signals
    <3> QED
      BY <3>1, <3>2
  <2> QED
    BY <1>7, <2>1, <2>2 DEF Signals, diskVars, rootVars
<1>8. ASSUME NEW c \in Clients, Forget(c) PROVE TypeOK'
  BY <1>8 DEF Forget, Exit, Goto, rootVars, procVars, NoRecords
<1>9. ASSUME NEW c \in Clients, NEW b \in Births, NEW p \in Pids, Forks(c, b, p) PROVE TypeOK'
  BY <1>9 DEF Forks, Goto, diskVars, rootVars
<1>10. ASSUME NEW c \in Clients, Acknowledge(c) PROVE TypeOK'
  BY <1>10 DEF Acknowledge, Goto, diskVars, rootVars
<1>11. ASSUME NEW c \in Clients, Observe(c) PROVE TypeOK'
  BY <1>11 DEF Observe, Goto, diskVars, rootVars, procVars
<1>12. ASSUME NEW c \in Clients, Persist(c) PROVE TypeOK'
  BY <1>12 DEF Persist, NewRecords, Goto, rootVars, procVars
<1>13. ASSUME NEW c \in Clients, Commit(c) PROVE TypeOK'
  BY <1>13 DEF Commit, Exit, Goto, rootVars, NoRecords
<1>14. ASSUME NEW c \in Clients, Finds(c) PROVE TypeOK'
  BY <1>14 DEF Finds, Goto, diskVars, rootVars, procVars
<1>15. ASSUME NEW c \in Clients, Approves(c) PROVE TypeOK'
  <2>1. pc' \in [Clients -> Labels]
    <3>1. PICK l \in Labels : Goto(c, l)
      BY <1>15 DEF Approves
    <3> QED
      BY <3>1 DEF Goto
  <2> QED
    BY <1>15, <2>1 DEF Approves, diskVars, rootVars, procVars
<1>16. ASSUME NEW b \in Births, Enters(b) PROVE TypeOK'
  BY <1>16 DEF Enters, diskVars, rootVars, clientVars
<1>17. ASSUME NEW b \in Births, Hold(b) PROVE TypeOK'
  BY <1>17 DEF Hold, Hears, diskVars, rootVars, clientVars
<1>18. ASSUME NEW b \in Births, Dies(b) PROVE TypeOK'
  BY <1>18 DEF Dies, Ends, diskVars, rootVars, clientVars
<1>19. ASSUME NEW b \in Births, Reap(b) PROVE TypeOK'
  BY <1>19 DEF Reap, diskVars, rootVars, clientVars
<1>20. ASSUME NEW p \in Pids, OtherRuns(p) PROVE TypeOK'
  <2>1. CASE at' = [at EXCEPT ![p] = Other]
    BY <1>20, <2>1 DEF OtherRuns, diskVars, rootVars, clientVars
  <2>2. CASE at' = [at EXCEPT ![p] = None]
    BY <1>20, <2>2 DEF OtherRuns, diskVars, rootVars, clientVars
  <2> QED
    BY <1>20, <2>1, <2>2 DEF OtherRuns
<1>21. ASSUME NEW p \in Paths, RemoveRoot(p) PROVE TypeOK'
  BY <1>21 DEF RemoveRoot, diskVars, procVars, clientVars
<1>22. ASSUME NEW p \in Paths, ForeignClaim(p) PROVE TypeOK'
  BY <1>22 DEF ForeignClaim, diskVars, procVars, clientVars
<1>23. CASE UNCHANGED vars
  BY <1>23 DEF vars, diskVars, rootVars, procVars, clientVars
<1> HIDE <1>t, Values, InodeAssumption DEF TypeOK, Shape, PidsAgree, Entered, Live,
        Stages, StartSteps, StopSteps, LockedSteps, ExecSteps, Record
<1> QED
  BY <1>s, <1>1, <1>2, <1>3, <1>4, <1>5, <1>6, <1>7, <1>8, <1>9, <1>10, <1>11, <1>12,
     <1>13, <1>14, <1>15, <1>16, <1>17, <1>18, <1>19, <1>20, <1>21, <1>22, <1>23, Zenon
     DEF StepCase

\* A client is given what it works on before it needs it.
LEMMA ShapeNext ==
  ASSUME TypeOK, Shape, [Next]_vars
  PROVE  Shape'
<1>s. StepCase
  BY StepCases
<1> USE Values, OpsAssumption DEF TypeOK, Shape, Labels, LockedSteps, StartSteps,
        ExecSteps, StopSteps, Stages, Live, Record, AllOps
<1>1. ASSUME NEW c \in Clients, NEW o \in Ops, NEW i \in Ids, Begins(c, o, i) PROVE Shape'
  BY <1>1 DEF Begins, Goto, diskVars, rootVars, procVars
<1>2. ASSUME NEW c \in Clients, Leaves(c) PROVE Shape'
  BY <1>2 DEF Leaves, Exit, Goto, rootVars, procVars, NoRecords
<1>3. ASSUME NEW c \in Clients, OwnRoot(c) PROVE Shape'
  BY <1>3 DEF OwnRoot, RootChoices, PathAfter, Goto, procVars
<1>4. ASSUME NEW c \in Clients, Locks(c) PROVE Shape'
  BY <1>4 DEF Locks, LockFree, Goto, rootVars, procVars
<1>5. ASSUME NEW c \in Clients, Decides(c) PROVE Shape'
  BY <1>5 DEF Decides, Goto, diskVars, rootVars, procVars
<1>6. ASSUME NEW c \in Clients, Pins(c) PROVE Shape'
  BY <1>6 DEF Pins, Goto, diskVars, rootVars, procVars
<1>7. ASSUME NEW c \in Clients, Signals(c) PROVE Shape'
  BY <1>7 DEF Signals, Reached, Target, Goto, diskVars, rootVars
<1>8. ASSUME NEW c \in Clients, Forget(c) PROVE Shape'
  BY <1>8 DEF Forget, Exit, Goto, rootVars, procVars, NoRecords
<1>9. ASSUME NEW c \in Clients, NEW b \in Births, NEW p \in Pids, Forks(c, b, p) PROVE Shape'
  BY <1>9 DEF Forks, Goto, diskVars, rootVars
<1>10. ASSUME NEW c \in Clients, Acknowledge(c) PROVE Shape'
  BY <1>10 DEF Acknowledge, Goto, diskVars, rootVars
<1>11. ASSUME NEW c \in Clients, Observe(c) PROVE Shape'
  BY <1>11 DEF Observe, Goto, diskVars, rootVars, procVars
<1>12. ASSUME NEW c \in Clients, Persist(c) PROVE Shape'
  BY <1>12 DEF Persist, NewRecords, Goto, rootVars, procVars
<1>13. ASSUME NEW c \in Clients, Commit(c) PROVE Shape'
  BY <1>13 DEF Commit, Exit, Goto, rootVars, NoRecords
<1>14. ASSUME NEW c \in Clients, Finds(c) PROVE Shape'
  BY <1>14 DEF Finds, Goto, diskVars, rootVars, procVars
<1>15. ASSUME NEW c \in Clients, Approves(c) PROVE Shape'
  BY <1>15 DEF Approves, Goto, diskVars, rootVars, procVars
<1>16. ASSUME NEW b \in Births, Enters(b) PROVE Shape'
  BY <1>16 DEF Enters, diskVars, rootVars, clientVars
<1>17. ASSUME NEW b \in Births, Hold(b) PROVE Shape'
  BY <1>17 DEF Hold, Hears, diskVars, rootVars, clientVars
<1>18. ASSUME NEW b \in Births, Dies(b) PROVE Shape'
  BY <1>18 DEF Dies, Ends, diskVars, rootVars, clientVars
<1>19. ASSUME NEW b \in Births, Reap(b) PROVE Shape'
  BY <1>19 DEF Reap, diskVars, rootVars, clientVars
<1>20. ASSUME NEW p \in Pids, OtherRuns(p) PROVE Shape'
  BY <1>20 DEF OtherRuns, diskVars, rootVars, clientVars
<1>21. ASSUME NEW p \in Paths, RemoveRoot(p) PROVE Shape'
  BY <1>21 DEF RemoveRoot, diskVars, procVars, clientVars
<1>22. ASSUME NEW p \in Paths, ForeignClaim(p) PROVE Shape'
  BY <1>22 DEF ForeignClaim, diskVars, procVars, clientVars
<1>23. CASE UNCHANGED vars
  BY <1>23 DEF vars, diskVars, rootVars, procVars, clientVars
<1> HIDE Values, OpsAssumption DEF TypeOK, Shape, Labels, LockedSteps, StartSteps,
        ExecSteps, StopSteps, Stages, Live, Record, AllOps
<1> QED
  BY <1>s, <1>1, <1>2, <1>3, <1>4, <1>5, <1>6, <1>7, <1>8, <1>9, <1>10, <1>11, <1>12,
     <1>13, <1>14, <1>15, <1>16, <1>17, <1>18, <1>19, <1>20, <1>21, <1>22, <1>23, Zenon
     DEF StepCase

\* A pid is given to a process that has none, and taken from one that ended.
LEMMA PidsAgreeNext ==
  ASSUME TypeOK, Shape, PidsAgree, Starting, [Next]_vars
  PROVE  PidsAgree'
<1>s. StepCase
  BY StepCases
<1> USE Values DEF TypeOK, Shape, PidsAgree, Starting, Labels, LockedSteps, StartSteps,
        ExecSteps, StopSteps, Stages, Live, Record
<1>1. ASSUME NEW c \in Clients, NEW o \in Ops, NEW i \in Ids, Begins(c, o, i) PROVE PidsAgree'
  BY <1>1 DEF Begins, Goto, diskVars, rootVars, procVars
<1>2. ASSUME NEW c \in Clients, Leaves(c) PROVE PidsAgree'
  BY <1>2 DEF Leaves, Exit, Goto, rootVars, procVars, NoRecords
<1>3. ASSUME NEW c \in Clients, OwnRoot(c) PROVE PidsAgree'
  BY <1>3 DEF OwnRoot, RootChoices, PathAfter, Goto, procVars
<1>4. ASSUME NEW c \in Clients, Locks(c) PROVE PidsAgree'
  BY <1>4 DEF Locks, LockFree, Goto, rootVars, procVars
<1>5. ASSUME NEW c \in Clients, Decides(c) PROVE PidsAgree'
  BY <1>5 DEF Decides, Goto, diskVars, rootVars, procVars
<1>6. ASSUME NEW c \in Clients, Pins(c) PROVE PidsAgree'
  BY <1>6 DEF Pins, Goto, diskVars, rootVars, procVars
<1>7. ASSUME NEW c \in Clients, Signals(c) PROVE PidsAgree'
  BY <1>7 DEF Signals, Reached, Target, Goto, diskVars, rootVars
<1>8. ASSUME NEW c \in Clients, Forget(c) PROVE PidsAgree'
  BY <1>8 DEF Forget, Exit, Goto, rootVars, procVars, NoRecords
<1>9. ASSUME NEW c \in Clients, NEW b \in Births, NEW p \in Pids, Forks(c, b, p) PROVE PidsAgree'
  BY <1>9 DEF Forks, Goto, diskVars, rootVars
<1>10. ASSUME NEW c \in Clients, Acknowledge(c) PROVE PidsAgree'
  BY <1>10 DEF Acknowledge, Goto, diskVars, rootVars
<1>11. ASSUME NEW c \in Clients, Observe(c) PROVE PidsAgree'
  BY <1>11 DEF Observe, Goto, diskVars, rootVars, procVars
<1>12. ASSUME NEW c \in Clients, Persist(c) PROVE PidsAgree'
  BY <1>12 DEF Persist, NewRecords, Goto, rootVars, procVars
<1>13. ASSUME NEW c \in Clients, Commit(c) PROVE PidsAgree'
  BY <1>13 DEF Commit, Exit, Goto, rootVars, NoRecords
<1>14. ASSUME NEW c \in Clients, Finds(c) PROVE PidsAgree'
  BY <1>14 DEF Finds, Goto, diskVars, rootVars, procVars
<1>15. ASSUME NEW c \in Clients, Approves(c) PROVE PidsAgree'
  BY <1>15 DEF Approves, Goto, diskVars, rootVars, procVars
<1>16. ASSUME NEW b \in Births, Enters(b) PROVE PidsAgree'
  BY <1>16 DEF Enters, diskVars, rootVars, clientVars
<1>17. ASSUME NEW b \in Births, Hold(b) PROVE PidsAgree'
  BY <1>17 DEF Hold, Hears, diskVars, rootVars, clientVars
<1>18. ASSUME NEW b \in Births, Dies(b) PROVE PidsAgree'
  BY <1>18 DEF Dies, Ends, diskVars, rootVars, clientVars
<1>19. ASSUME NEW b \in Births, Reap(b) PROVE PidsAgree'
  BY <1>19 DEF Reap, diskVars, rootVars, clientVars
<1>20. ASSUME NEW p \in Pids, OtherRuns(p) PROVE PidsAgree'
  <2>1. CASE at' = [at EXCEPT ![p] = Other]
    BY <1>20, <2>1 DEF OtherRuns, diskVars, rootVars, clientVars
  <2>2. CASE at' = [at EXCEPT ![p] = None]
    BY <1>20, <2>2 DEF OtherRuns, diskVars, rootVars, clientVars
  <2> QED
    BY <1>20, <2>1, <2>2 DEF OtherRuns
<1>21. ASSUME NEW p \in Paths, RemoveRoot(p) PROVE PidsAgree'
  BY <1>21 DEF RemoveRoot, diskVars, procVars, clientVars
<1>22. ASSUME NEW p \in Paths, ForeignClaim(p) PROVE PidsAgree'
  BY <1>22 DEF ForeignClaim, diskVars, procVars, clientVars
<1>23. CASE UNCHANGED vars
  BY <1>23 DEF vars, diskVars, rootVars, procVars, clientVars
<1> HIDE Values DEF TypeOK, Shape, PidsAgree, Starting, Labels, LockedSteps, StartSteps,
        ExecSteps, StopSteps, Stages, Live, Record
<1> QED
  BY <1>s, <1>1, <1>2, <1>3, <1>4, <1>5, <1>6, <1>7, <1>8, <1>9, <1>10, <1>11, <1>12,
     <1>13, <1>14, <1>15, <1>16, <1>17, <1>18, <1>19, <1>20, <1>21, <1>22, <1>23, Zenon
     DEF StepCase

\* Only the holder of the lock writes the records.
LEMMA LockHeldNext ==
  ASSUME TypeOK, Shape, LockHeld, [Next]_vars
  PROVE  LockHeld'
<1>s. StepCase
  BY StepCases
<1> USE Values DEF TypeOK, Shape, LockHeld, Labels, LockedSteps, StartSteps, ExecSteps,
        StopSteps, Stages, Live, Record
<1>1. ASSUME NEW c \in Clients, NEW o \in Ops, NEW i \in Ids, Begins(c, o, i) PROVE LockHeld'
  BY <1>1 DEF Begins, Goto, diskVars, rootVars, procVars
<1>2. ASSUME NEW c \in Clients, Leaves(c) PROVE LockHeld'
  BY <1>2 DEF Leaves, Exit, Goto, rootVars, procVars, NoRecords
<1>3. ASSUME NEW c \in Clients, OwnRoot(c) PROVE LockHeld'
  BY <1>3 DEF OwnRoot, RootChoices, PathAfter, Goto, procVars
<1>4. ASSUME NEW c \in Clients, Locks(c) PROVE LockHeld'
  BY <1>4 DEF Locks, LockFree, Goto, rootVars, procVars
<1>5. ASSUME NEW c \in Clients, Decides(c) PROVE LockHeld'
  BY <1>5 DEF Decides, Goto, diskVars, rootVars, procVars
<1>6. ASSUME NEW c \in Clients, Pins(c) PROVE LockHeld'
  BY <1>6 DEF Pins, Goto, diskVars, rootVars, procVars
<1>7. ASSUME NEW c \in Clients, Signals(c) PROVE LockHeld'
  BY <1>7 DEF Signals, Reached, Target, Goto, diskVars, rootVars
<1>8. ASSUME NEW c \in Clients, Forget(c) PROVE LockHeld'
  BY <1>8 DEF Forget, Exit, Goto, rootVars, procVars, NoRecords
<1>9. ASSUME NEW c \in Clients, NEW b \in Births, NEW p \in Pids, Forks(c, b, p) PROVE LockHeld'
  BY <1>9 DEF Forks, Goto, diskVars, rootVars
<1>10. ASSUME NEW c \in Clients, Acknowledge(c) PROVE LockHeld'
  BY <1>10 DEF Acknowledge, Goto, diskVars, rootVars
<1>11. ASSUME NEW c \in Clients, Observe(c) PROVE LockHeld'
  BY <1>11 DEF Observe, Goto, diskVars, rootVars, procVars
<1>12. ASSUME NEW c \in Clients, Persist(c) PROVE LockHeld'
  BY <1>12 DEF Persist, NewRecords, Goto, rootVars, procVars
<1>13. ASSUME NEW c \in Clients, Commit(c) PROVE LockHeld'
  BY <1>13 DEF Commit, Exit, Goto, rootVars, NoRecords
<1>14. ASSUME NEW c \in Clients, Finds(c) PROVE LockHeld'
  BY <1>14 DEF Finds, Goto, diskVars, rootVars, procVars
<1>15. ASSUME NEW c \in Clients, Approves(c) PROVE LockHeld'
  BY <1>15 DEF Approves, Goto, diskVars, rootVars, procVars
<1>16. ASSUME NEW b \in Births, Enters(b) PROVE LockHeld'
  BY <1>16 DEF Enters, diskVars, rootVars, clientVars
<1>17. ASSUME NEW b \in Births, Hold(b) PROVE LockHeld'
  BY <1>17 DEF Hold, Hears, diskVars, rootVars, clientVars
<1>18. ASSUME NEW b \in Births, Dies(b) PROVE LockHeld'
  BY <1>18 DEF Dies, Ends, diskVars, rootVars, clientVars
<1>19. ASSUME NEW b \in Births, Reap(b) PROVE LockHeld'
  BY <1>19 DEF Reap, diskVars, rootVars, clientVars
<1>20. ASSUME NEW p \in Pids, OtherRuns(p) PROVE LockHeld'
  BY <1>20 DEF OtherRuns, diskVars, rootVars, clientVars
<1>21. ASSUME NEW p \in Paths, RemoveRoot(p) PROVE LockHeld'
  BY <1>21 DEF RemoveRoot, diskVars, procVars, clientVars
<1>22. ASSUME NEW p \in Paths, ForeignClaim(p) PROVE LockHeld'
  BY <1>22 DEF ForeignClaim, diskVars, procVars, clientVars
<1>23. CASE UNCHANGED vars
  BY <1>23 DEF vars, diskVars, rootVars, procVars, clientVars
<1> HIDE Values DEF TypeOK, Shape, LockHeld, Labels, LockedSteps, StartSteps, ExecSteps,
        StopSteps, Stages, Live, Record
<1> QED
  BY <1>s, <1>1, <1>2, <1>3, <1>4, <1>5, <1>6, <1>7, <1>8, <1>9, <1>10, <1>11, <1>12,
     <1>13, <1>14, <1>15, <1>16, <1>17, <1>18, <1>19, <1>20, <1>21, <1>22, <1>23, Zenon
     DEF StepCase

\* A holder is recorded after it has entered its namespaces.
LEMMA EnteredNext ==
  ASSUME TypeOK, Shape, LockHeld, Entered, Starting, [Next]_vars
  PROVE  Entered'
<1>s. StepCase
  BY StepCases
<1> USE Values DEF TypeOK, Shape, LockHeld, Entered, Starting, Labels, LockedSteps,
        StartSteps, ExecSteps, StopSteps, Stages, Live, Record
<1>1. ASSUME NEW c \in Clients, NEW o \in Ops, NEW i \in Ids, Begins(c, o, i) PROVE Entered'
  BY <1>1 DEF Begins, Goto, diskVars, rootVars, procVars
<1>2. ASSUME NEW c \in Clients, Leaves(c) PROVE Entered'
  BY <1>2 DEF Leaves, Exit, Goto, rootVars, procVars, NoRecords
<1>3. ASSUME NEW c \in Clients, OwnRoot(c) PROVE Entered'
  BY <1>3 DEF OwnRoot, RootChoices, PathAfter, Goto, procVars
<1>4. ASSUME NEW c \in Clients, Locks(c) PROVE Entered'
  BY <1>4 DEF Locks, LockFree, Goto, rootVars, procVars
<1>5. ASSUME NEW c \in Clients, Decides(c) PROVE Entered'
  BY <1>5 DEF Decides, Goto, diskVars, rootVars, procVars
<1>6. ASSUME NEW c \in Clients, Pins(c) PROVE Entered'
  BY <1>6 DEF Pins, Goto, diskVars, rootVars, procVars
<1>7. ASSUME NEW c \in Clients, Signals(c) PROVE Entered'
  BY <1>7 DEF Signals, Reached, Target, Goto, diskVars, rootVars
<1>8. ASSUME NEW c \in Clients, Forget(c) PROVE Entered'
  <2>1. /\ holders' = [holders EXCEPT ![id[c]] = None]
        /\ id[c] \in Ids
        /\ map' = [map EXCEPT ![c] = NoRecords]
        /\ UNCHANGED procVars
        /\ pc[c] = "forget"
    BY <1>8 DEF Forget, Exit
  <2> QED
    BY <2>1 DEF procVars, NoRecords
<1>9. ASSUME NEW c \in Clients, NEW b \in Births, NEW p \in Pids, Forks(c, b, p) PROVE Entered'
  BY <1>9 DEF Forks, Goto, diskVars, rootVars
<1>10. ASSUME NEW c \in Clients, Acknowledge(c) PROVE Entered'
  BY <1>10 DEF Acknowledge, Goto, diskVars, rootVars
<1>11. ASSUME NEW c \in Clients, Observe(c) PROVE Entered'
  BY <1>11 DEF Observe, Goto, diskVars, rootVars, procVars
<1>12. ASSUME NEW c \in Clients, Persist(c) PROVE Entered'
  BY <1>12 DEF Persist, NewRecords, Goto, rootVars, procVars
<1>13. ASSUME NEW c \in Clients, Commit(c) PROVE Entered'
  BY <1>13 DEF Commit, Exit, Goto, rootVars, NoRecords
<1>14. ASSUME NEW c \in Clients, Finds(c) PROVE Entered'
  BY <1>14 DEF Finds, Goto, diskVars, rootVars, procVars
<1>15. ASSUME NEW c \in Clients, Approves(c) PROVE Entered'
  BY <1>15 DEF Approves, Goto, diskVars, rootVars, procVars
<1>16. ASSUME NEW b \in Births, Enters(b) PROVE Entered'
  BY <1>16 DEF Enters, diskVars, rootVars, clientVars
<1>17. ASSUME NEW b \in Births, Hold(b) PROVE Entered'
  BY <1>17 DEF Hold, Hears, diskVars, rootVars, clientVars
<1>18. ASSUME NEW b \in Births, Dies(b) PROVE Entered'
  BY <1>18 DEF Dies, Ends, diskVars, rootVars, clientVars
<1>19. ASSUME NEW b \in Births, Reap(b) PROVE Entered'
  BY <1>19 DEF Reap, diskVars, rootVars, clientVars
<1>20. ASSUME NEW p \in Pids, OtherRuns(p) PROVE Entered'
  BY <1>20 DEF OtherRuns, diskVars, rootVars, clientVars
<1>21. ASSUME NEW p \in Paths, RemoveRoot(p) PROVE Entered'
  BY <1>21 DEF RemoveRoot, diskVars, procVars, clientVars
<1>22. ASSUME NEW p \in Paths, ForeignClaim(p) PROVE Entered'
  BY <1>22 DEF ForeignClaim, diskVars, procVars, clientVars
<1>23. CASE UNCHANGED vars
  BY <1>23 DEF vars, diskVars, rootVars, procVars, clientVars
<1> HIDE Values DEF TypeOK, Shape, LockHeld, Entered, Starting, Labels, LockedSteps,
        StartSteps, ExecSteps, StopSteps, Stages, Live, Record
<1> QED
  BY <1>s, <1>1, <1>2, <1>3, <1>4, <1>5, <1>6, <1>7, <1>8, <1>9, <1>10, <1>11, <1>12,
     <1>13, <1>14, <1>15, <1>16, <1>17, <1>18, <1>19, <1>20, <1>21, <1>22, <1>23, Zenon
     DEF StepCase

\* A client takes its holder through the handshake alone.
LEMMA StartingNext ==
  ASSUME TypeOK, Shape, PidsAgree, LockHeld, Entered, Starting, [Next]_vars
  PROVE  Starting'
<1>s. StepCase
  BY StepCases
<1> USE Values DEF TypeOK, Shape, PidsAgree, LockHeld, Entered, Starting, Labels,
        LockedSteps, StartSteps, ExecSteps, StopSteps, Stages, Live, Record
<1>1. ASSUME NEW c \in Clients, NEW o \in Ops, NEW i \in Ids, Begins(c, o, i) PROVE Starting'
  BY <1>1 DEF Begins, Goto, diskVars, rootVars, procVars
<1>2. ASSUME NEW c \in Clients, Leaves(c) PROVE Starting'
  BY <1>2 DEF Leaves, Exit, Goto, rootVars, procVars, NoRecords
<1>3. ASSUME NEW c \in Clients, OwnRoot(c) PROVE Starting'
  BY <1>3 DEF OwnRoot, RootChoices, PathAfter, Goto, procVars
<1>4. ASSUME NEW c \in Clients, Locks(c) PROVE Starting'
  BY <1>4 DEF Locks, LockFree, Goto, rootVars, procVars
<1>5. ASSUME NEW c \in Clients, Decides(c) PROVE Starting'
  BY <1>5 DEF Decides, Goto, diskVars, rootVars, procVars
<1>6. ASSUME NEW c \in Clients, Pins(c) PROVE Starting'
  BY <1>6 DEF Pins, Goto, diskVars, rootVars, procVars
<1>7. ASSUME NEW c \in Clients, Signals(c) PROVE Starting'
  BY <1>7 DEF Signals, Reached, Target, Goto, diskVars, rootVars
<1>8. ASSUME NEW c \in Clients, Forget(c) PROVE Starting'
  BY <1>8 DEF Forget, Exit, Goto, rootVars, procVars, NoRecords
<1>9. ASSUME NEW c \in Clients, NEW b \in Births, NEW p \in Pids, Forks(c, b, p) PROVE Starting'
  BY <1>9 DEF Forks, Goto, diskVars, rootVars
<1>10. ASSUME NEW c \in Clients, Acknowledge(c) PROVE Starting'
  BY <1>10 DEF Acknowledge, Goto, diskVars, rootVars
<1>11. ASSUME NEW c \in Clients, Observe(c) PROVE Starting'
  BY <1>11 DEF Observe, Goto, diskVars, rootVars, procVars
<1>12. ASSUME NEW c \in Clients, Persist(c) PROVE Starting'
  BY <1>12 DEF Persist, NewRecords, Goto, rootVars, procVars
<1>13. ASSUME NEW c \in Clients, Commit(c) PROVE Starting'
  BY <1>13 DEF Commit, Exit, Goto, rootVars, NoRecords
<1>14. ASSUME NEW c \in Clients, Finds(c) PROVE Starting'
  BY <1>14 DEF Finds, Goto, diskVars, rootVars, procVars
<1>15. ASSUME NEW c \in Clients, Approves(c) PROVE Starting'
  BY <1>15 DEF Approves, Goto, diskVars, rootVars, procVars
<1>16. ASSUME NEW b \in Births, Enters(b) PROVE Starting'
  BY <1>16 DEF Enters, diskVars, rootVars, clientVars
<1>17. ASSUME NEW b \in Births, Hold(b) PROVE Starting'
  BY <1>17 DEF Hold, Hears, diskVars, rootVars, clientVars
<1>18. ASSUME NEW b \in Births, Dies(b) PROVE Starting'
  BY <1>18 DEF Dies, Ends, diskVars, rootVars, clientVars
<1>19. ASSUME NEW b \in Births, Reap(b) PROVE Starting'
  BY <1>19 DEF Reap, diskVars, rootVars, clientVars
<1>20. ASSUME NEW p \in Pids, OtherRuns(p) PROVE Starting'
  BY <1>20 DEF OtherRuns, diskVars, rootVars, clientVars
<1>21. ASSUME NEW p \in Paths, RemoveRoot(p) PROVE Starting'
  BY <1>21 DEF RemoveRoot, diskVars, procVars, clientVars
<1>22. ASSUME NEW p \in Paths, ForeignClaim(p) PROVE Starting'
  BY <1>22 DEF ForeignClaim, diskVars, procVars, clientVars
<1>23. CASE UNCHANGED vars
  BY <1>23 DEF vars, diskVars, rootVars, procVars, clientVars
<1> HIDE Values DEF TypeOK, Shape, PidsAgree, LockHeld, Entered, Starting, Labels,
        LockedSteps, StartSteps, ExecSteps, StopSteps, Stages, Live, Record
<1> QED
  BY <1>s, <1>1, <1>2, <1>3, <1>4, <1>5, <1>6, <1>7, <1>8, <1>9, <1>10, <1>11, <1>12,
     <1>13, <1>14, <1>15, <1>16, <1>17, <1>18, <1>19, <1>20, <1>21, <1>22, <1>23, Zenon
     DEF StepCase

\* A holder is told that it is recorded when it is.
LEMMA CommittedNext ==
  ASSUME TypeOK, Shape, PidsAgree, LockHeld, Entered, Starting, Committed, Replaceable,
         [Next]_vars
  PROVE  Committed'
<1>s. StepCase
  BY StepCases
<1> USE Values DEF TypeOK, Shape, PidsAgree, LockHeld, Entered, Starting, Committed,
        Replaceable, Labels, LockedSteps, StartSteps, ExecSteps, StopSteps, Stages, Live,
        Record
<1>1. ASSUME NEW c \in Clients, NEW o \in Ops, NEW i \in Ids, Begins(c, o, i) PROVE Committed'
  BY <1>1 DEF Begins, Goto, diskVars, rootVars, procVars
<1>2. ASSUME NEW c \in Clients, Leaves(c) PROVE Committed'
  BY <1>2 DEF Leaves, Exit, Goto, rootVars, procVars, NoRecords
<1>3. ASSUME NEW c \in Clients, OwnRoot(c) PROVE Committed'
  BY <1>3 DEF OwnRoot, RootChoices, PathAfter, Goto, procVars
<1>4. ASSUME NEW c \in Clients, Locks(c) PROVE Committed'
  BY <1>4 DEF Locks, LockFree, Goto, rootVars, procVars
<1>5. ASSUME NEW c \in Clients, Decides(c) PROVE Committed'
  BY <1>5 DEF Decides, Goto, diskVars, rootVars, procVars
<1>6. ASSUME NEW c \in Clients, Pins(c) PROVE Committed'
  BY <1>6 DEF Pins, Goto, diskVars, rootVars, procVars
<1>7. ASSUME NEW c \in Clients, Signals(c) PROVE Committed'
  BY <1>7 DEF Signals, Reached, Target, Goto, diskVars, rootVars
<1>8. ASSUME NEW c \in Clients, Forget(c) PROVE Committed'
  <2>1. /\ holders' = [holders EXCEPT ![id[c]] = None]
        /\ id[c] \in Ids
        /\ map' = [map EXCEPT ![c] = NoRecords]
        /\ UNCHANGED procVars
        /\ pc[c] = "forget"
    BY <1>8 DEF Forget, Exit
  <2> QED
    BY <2>1 DEF procVars, NoRecords
<1>9. ASSUME NEW c \in Clients, NEW b \in Births, NEW p \in Pids, Forks(c, b, p) PROVE Committed'
  BY <1>9 DEF Forks, Goto, diskVars, rootVars
<1>10. ASSUME NEW c \in Clients, Acknowledge(c) PROVE Committed'
  BY <1>10 DEF Acknowledge, Goto, diskVars, rootVars
<1>11. ASSUME NEW c \in Clients, Observe(c) PROVE Committed'
  BY <1>11 DEF Observe, Goto, diskVars, rootVars, procVars
<1>12. ASSUME NEW c \in Clients, Persist(c) PROVE Committed'
  BY <1>12 DEF Persist, NewRecords, Goto, rootVars, procVars
<1>13. ASSUME NEW c \in Clients, Commit(c) PROVE Committed'
  BY <1>13 DEF Commit, Exit, Goto, rootVars, NoRecords
<1>14. ASSUME NEW c \in Clients, Finds(c) PROVE Committed'
  BY <1>14 DEF Finds, Goto, diskVars, rootVars, procVars
<1>15. ASSUME NEW c \in Clients, Approves(c) PROVE Committed'
  BY <1>15 DEF Approves, Goto, diskVars, rootVars, procVars
<1>16. ASSUME NEW b \in Births, Enters(b) PROVE Committed'
  BY <1>16 DEF Enters, diskVars, rootVars, clientVars
<1>17. ASSUME NEW b \in Births, Hold(b) PROVE Committed'
  BY <1>17 DEF Hold, Hears, diskVars, rootVars, clientVars
<1>18. ASSUME NEW b \in Births, Dies(b) PROVE Committed'
  BY <1>18 DEF Dies, Ends, diskVars, rootVars, clientVars
<1>19. ASSUME NEW b \in Births, Reap(b) PROVE Committed'
  BY <1>19 DEF Reap, diskVars, rootVars, clientVars
<1>20. ASSUME NEW p \in Pids, OtherRuns(p) PROVE Committed'
  BY <1>20 DEF OtherRuns, diskVars, rootVars, clientVars
<1>21. ASSUME NEW p \in Paths, RemoveRoot(p) PROVE Committed'
  BY <1>21 DEF RemoveRoot, diskVars, procVars, clientVars
<1>22. ASSUME NEW p \in Paths, ForeignClaim(p) PROVE Committed'
  BY <1>22 DEF ForeignClaim, diskVars, procVars, clientVars
<1>23. CASE UNCHANGED vars
  BY <1>23 DEF vars, diskVars, rootVars, procVars, clientVars
<1> HIDE Values DEF TypeOK, Shape, PidsAgree, LockHeld, Entered, Starting, Committed,
        Replaceable, Labels, LockedSteps, StartSteps, ExecSteps, StopSteps, Stages, Live,
        Record
<1> QED
  BY <1>s, <1>1, <1>2, <1>3, <1>4, <1>5, <1>6, <1>7, <1>8, <1>9, <1>10, <1>11, <1>12,
     <1>13, <1>14, <1>15, <1>16, <1>17, <1>18, <1>19, <1>20, <1>21, <1>22, <1>23, Zenon
     DEF StepCase

\* A client has killed the recorded holder, or seen that it is gone, before it
\* writes another record.
LEMMA ReplaceableNext ==
  ASSUME TypeOK, Shape, PidsAgree, LockHeld, Entered, Replaceable, PinNamed, [Next]_vars
  PROVE  Replaceable'
<1>s. StepCase
  BY StepCases
<1> USE Values DEF TypeOK, Shape, PidsAgree, LockHeld, Entered, Replaceable, PinNamed,
        Labels, LockedSteps, StartSteps, ExecSteps, StopSteps, Stages, Live, Record
<1>1. ASSUME NEW c \in Clients, NEW o \in Ops, NEW i \in Ids, Begins(c, o, i) PROVE Replaceable'
  BY <1>1 DEF Begins, Goto, diskVars, rootVars, procVars
<1>2. ASSUME NEW c \in Clients, Leaves(c) PROVE Replaceable'
  BY <1>2 DEF Leaves, Exit, Goto, rootVars, procVars, NoRecords
<1>3. ASSUME NEW c \in Clients, OwnRoot(c) PROVE Replaceable'
  BY <1>3 DEF OwnRoot, RootChoices, PathAfter, Goto, procVars
<1>4. ASSUME NEW c \in Clients, Locks(c) PROVE Replaceable'
  BY <1>4 DEF Locks, LockFree, Goto, rootVars, procVars
<1>5. ASSUME NEW c \in Clients, Decides(c) PROVE Replaceable'
  BY <1>5 DEF Decides, Goto, diskVars, rootVars, procVars, Verified, Runs
<1>6. ASSUME NEW c \in Clients, Pins(c) PROVE Replaceable'
  BY <1>6 DEF Pins, Goto, diskVars, rootVars, procVars
<1>7. ASSUME NEW c \in Clients, Signals(c) PROVE Replaceable'
  BY <1>7 DEF Signals, Reached, Target, Goto, diskVars, rootVars
<1>8. ASSUME NEW c \in Clients, Forget(c) PROVE Replaceable'
  BY <1>8 DEF Forget, Exit, Goto, rootVars, procVars, NoRecords
<1>9. ASSUME NEW c \in Clients, NEW b \in Births, NEW p \in Pids, Forks(c, b, p) PROVE Replaceable'
  BY <1>9 DEF Forks, Goto, diskVars, rootVars
<1>10. ASSUME NEW c \in Clients, Acknowledge(c) PROVE Replaceable'
  BY <1>10 DEF Acknowledge, Goto, diskVars, rootVars
<1>11. ASSUME NEW c \in Clients, Observe(c) PROVE Replaceable'
  BY <1>11 DEF Observe, Goto, diskVars, rootVars, procVars
<1>12. ASSUME NEW c \in Clients, Persist(c) PROVE Replaceable'
  BY <1>12 DEF Persist, NewRecords, Goto, rootVars, procVars
<1>13. ASSUME NEW c \in Clients, Commit(c) PROVE Replaceable'
  BY <1>13 DEF Commit, Exit, Goto, rootVars, NoRecords
<1>14. ASSUME NEW c \in Clients, Finds(c) PROVE Replaceable'
  BY <1>14 DEF Finds, Goto, diskVars, rootVars, procVars
<1>15. ASSUME NEW c \in Clients, Approves(c) PROVE Replaceable'
  BY <1>15 DEF Approves, Goto, diskVars, rootVars, procVars
<1>16. ASSUME NEW b \in Births, Enters(b) PROVE Replaceable'
  BY <1>16 DEF Enters, diskVars, rootVars, clientVars
<1>17. ASSUME NEW b \in Births, Hold(b) PROVE Replaceable'
  BY <1>17 DEF Hold, Hears, diskVars, rootVars, clientVars
<1>18. ASSUME NEW b \in Births, Dies(b) PROVE Replaceable'
  BY <1>18 DEF Dies, Ends, diskVars, rootVars, clientVars
<1>19. ASSUME NEW b \in Births, Reap(b) PROVE Replaceable'
  BY <1>19 DEF Reap, diskVars, rootVars, clientVars
<1>20. ASSUME NEW p \in Pids, OtherRuns(p) PROVE Replaceable'
  BY <1>20 DEF OtherRuns, diskVars, rootVars, clientVars
<1>21. ASSUME NEW p \in Paths, RemoveRoot(p) PROVE Replaceable'
  BY <1>21 DEF RemoveRoot, diskVars, procVars, clientVars
<1>22. ASSUME NEW p \in Paths, ForeignClaim(p) PROVE Replaceable'
  BY <1>22 DEF ForeignClaim, diskVars, procVars, clientVars
<1>23. CASE UNCHANGED vars
  BY <1>23 DEF vars, diskVars, rootVars, procVars, clientVars
<1> HIDE Values DEF TypeOK, Shape, PidsAgree, LockHeld, Entered, Replaceable, PinNamed,
        Labels, LockedSteps, StartSteps, ExecSteps, StopSteps, Stages, Live, Record
<1> QED
  BY <1>s, <1>1, <1>2, <1>3, <1>4, <1>5, <1>6, <1>7, <1>8, <1>9, <1>10, <1>11, <1>12,
     <1>13, <1>14, <1>15, <1>16, <1>17, <1>18, <1>19, <1>20, <1>21, <1>22, <1>23, Zenon
     DEF StepCase

\* The pidfd is opened before the holder is verified again.
LEMMA PinnedNext ==
  ASSUME TypeOK, Shape, PidsAgree, Entered, PinNamed, [Next]_vars
  PROVE  PinNamed'
<1>s. StepCase
  BY StepCases
<1> USE Values, PidFdAssumption DEF TypeOK, Shape, PidsAgree, Entered, PinNamed, Labels,
        LockedSteps, StartSteps, ExecSteps, StopSteps, Stages, Live, Record
<1>1. ASSUME NEW c \in Clients, NEW o \in Ops, NEW i \in Ids, Begins(c, o, i) PROVE PinNamed'
  BY <1>1 DEF Begins, Goto, diskVars, rootVars, procVars
<1>2. ASSUME NEW c \in Clients, Leaves(c) PROVE PinNamed'
  BY <1>2 DEF Leaves, Exit, Goto, rootVars, procVars, NoRecords
<1>3. ASSUME NEW c \in Clients, OwnRoot(c) PROVE PinNamed'
  BY <1>3 DEF OwnRoot, RootChoices, PathAfter, Goto, procVars
<1>4. ASSUME NEW c \in Clients, Locks(c) PROVE PinNamed'
  BY <1>4 DEF Locks, LockFree, Goto, rootVars, procVars
<1>5. ASSUME NEW c \in Clients, Decides(c) PROVE PinNamed'
  BY <1>5 DEF Decides, Goto, diskVars, rootVars, procVars, Verified, Runs
<1>6. ASSUME NEW c \in Clients, Pins(c) PROVE PinNamed'
  BY <1>6 DEF Pins, Goto, diskVars, rootVars, procVars
<1>7. ASSUME NEW c \in Clients, Signals(c) PROVE PinNamed'
  BY <1>7 DEF Signals, Reached, Target, Goto, diskVars, rootVars
<1>8. ASSUME NEW c \in Clients, Forget(c) PROVE PinNamed'
  BY <1>8 DEF Forget, Exit, Goto, rootVars, procVars, NoRecords
<1>9. ASSUME NEW c \in Clients, NEW b \in Births, NEW p \in Pids, Forks(c, b, p) PROVE PinNamed'
  BY <1>9 DEF Forks, Goto, diskVars, rootVars
<1>10. ASSUME NEW c \in Clients, Acknowledge(c) PROVE PinNamed'
  BY <1>10 DEF Acknowledge, Goto, diskVars, rootVars
<1>11. ASSUME NEW c \in Clients, Observe(c) PROVE PinNamed'
  BY <1>11 DEF Observe, Goto, diskVars, rootVars, procVars
<1>12. ASSUME NEW c \in Clients, Persist(c) PROVE PinNamed'
  BY <1>12 DEF Persist, NewRecords, Goto, rootVars, procVars
<1>13. ASSUME NEW c \in Clients, Commit(c) PROVE PinNamed'
  BY <1>13 DEF Commit, Exit, Goto, rootVars, NoRecords
<1>14. ASSUME NEW c \in Clients, Finds(c) PROVE PinNamed'
  BY <1>14 DEF Finds, Goto, diskVars, rootVars, procVars
<1>15. ASSUME NEW c \in Clients, Approves(c) PROVE PinNamed'
  BY <1>15 DEF Approves, Goto, diskVars, rootVars, procVars
<1>16. ASSUME NEW b \in Births, Enters(b) PROVE PinNamed'
  BY <1>16 DEF Enters, diskVars, rootVars, clientVars
<1>17. ASSUME NEW b \in Births, Hold(b) PROVE PinNamed'
  BY <1>17 DEF Hold, Hears, diskVars, rootVars, clientVars
<1>18. ASSUME NEW b \in Births, Dies(b) PROVE PinNamed'
  BY <1>18 DEF Dies, Ends, diskVars, rootVars, clientVars
<1>19. ASSUME NEW b \in Births, Reap(b) PROVE PinNamed'
  BY <1>19 DEF Reap, diskVars, rootVars, clientVars
<1>20. ASSUME NEW p \in Pids, OtherRuns(p) PROVE PinNamed'
  BY <1>20 DEF OtherRuns, diskVars, rootVars, clientVars
<1>21. ASSUME NEW p \in Paths, RemoveRoot(p) PROVE PinNamed'
  BY <1>21 DEF RemoveRoot, diskVars, procVars, clientVars
<1>22. ASSUME NEW p \in Paths, ForeignClaim(p) PROVE PinNamed'
  BY <1>22 DEF ForeignClaim, diskVars, procVars, clientVars
<1>23. CASE UNCHANGED vars
  BY <1>23 DEF vars, diskVars, rootVars, procVars, clientVars
<1> HIDE Values, PidFdAssumption DEF TypeOK, Shape, PidsAgree, Entered, PinNamed, Labels,
        LockedSteps, StartSteps, ExecSteps, StopSteps, Stages, Live, Record
<1> QED
  BY <1>s, <1>1, <1>2, <1>3, <1>4, <1>5, <1>6, <1>7, <1>8, <1>9, <1>10, <1>11, <1>12,
     <1>13, <1>14, <1>15, <1>16, <1>17, <1>18, <1>19, <1>20, <1>21, <1>22, <1>23, Zenon
     DEF StepCase

\* A root that setup works on is neither removed nor claimed.
LEMMA RootKeptNext ==
  ASSUME TypeOK, Shape, RootKept, [Next]_vars
  PROVE  RootKept'
<1>s. StepCase
  BY StepCases
<1> USE Values, InodeAssumption DEF TypeOK, Shape, RootKept, Labels, LockedSteps,
        StartSteps, ExecSteps, StopSteps, Stages, Live, Record
<1>1. ASSUME NEW c \in Clients, NEW o \in Ops, NEW i \in Ids, Begins(c, o, i) PROVE RootKept'
  BY <1>1 DEF Begins, Goto, diskVars, rootVars, procVars
<1>2. ASSUME NEW c \in Clients, Leaves(c) PROVE RootKept'
  BY <1>2 DEF Leaves, Exit, Goto, rootVars, procVars, NoRecords
<1>3. ASSUME NEW c \in Clients, OwnRoot(c) PROVE RootKept'
  <2>1. PICK p \in RootChoices(c) : OwnRoot(c)!3!(p)
    BY <1>3 DEF OwnRoot
  <2>2. p \in Paths /\ inode[p] \notin foreign
    BY <1>3, <2>1 DEF OwnRoot, RootChoices
  <2>3. inode'[p] \notin {0} \cup foreign
    BY <2>1, <2>2
  <2>4. \A q \in Paths : inode[q] # 0 => inode'[q] = inode[q]
    BY <2>1, <2>2
  <2>5. path' = [path EXCEPT ![c] = p] /\ foreign' = foreign /\ op' = op
    BY <1>3, <2>1 DEF OwnRoot, PathAfter
  <2>6. \A d \in Clients : d # c => pc'[d] = pc[d]
    BY <1>3 DEF OwnRoot, Goto
  <2> QED
    BY <2>2, <2>3, <2>4, <2>5, <2>6
<1>4. ASSUME NEW c \in Clients, Locks(c) PROVE RootKept'
  <2>1. pc[c] \notin {"idle", "own"}
    BY <1>4 DEF Locks
  <2>2. \A d \in Clients : d # c => pc'[d] = pc[d]
    BY <1>4 DEF Locks, Goto
  <2>3. UNCHANGED <<op, path, inode, foreign>>
    BY <1>4 DEF Locks, rootVars
  <2> QED
    BY <2>1, <2>2, <2>3
<1>5. ASSUME NEW c \in Clients, Decides(c) PROVE RootKept'
  <2>1. pc[c] \notin {"idle", "own"}
    BY <1>5 DEF Decides
  <2>2. \A d \in Clients : d # c => pc'[d] = pc[d]
    BY <1>5 DEF Decides, Goto
  <2>3. UNCHANGED <<op, path, inode, foreign>>
    BY <1>5 DEF Decides, rootVars
  <2> QED
    BY <2>1, <2>2, <2>3
<1>6. ASSUME NEW c \in Clients, Pins(c) PROVE RootKept'
  BY <1>6 DEF Pins, Goto, diskVars, rootVars, procVars
<1>7. ASSUME NEW c \in Clients, Signals(c) PROVE RootKept'
  <2>1. pc[c] \notin {"idle", "own"}
    BY <1>7 DEF Signals
  <2>2. \A d \in Clients : d # c => pc'[d] = pc[d]
    BY <1>7 DEF Signals, Goto
  <2>3. UNCHANGED <<op, path, inode, foreign>>
    BY <1>7 DEF Signals, rootVars
  <2> QED
    BY <2>1, <2>2, <2>3
<1>8. ASSUME NEW c \in Clients, Forget(c) PROVE RootKept'
  BY <1>8 DEF Forget, Exit, Goto, rootVars, procVars, NoRecords
<1>9. ASSUME NEW c \in Clients, NEW b \in Births, NEW p \in Pids, Forks(c, b, p) PROVE RootKept'
  BY <1>9 DEF Forks, Goto, diskVars, rootVars
<1>10. ASSUME NEW c \in Clients, Acknowledge(c) PROVE RootKept'
  BY <1>10 DEF Acknowledge, Goto, diskVars, rootVars
<1>11. ASSUME NEW c \in Clients, Observe(c) PROVE RootKept'
  BY <1>11 DEF Observe, Goto, diskVars, rootVars, procVars
<1>12. ASSUME NEW c \in Clients, Persist(c) PROVE RootKept'
  BY <1>12 DEF Persist, NewRecords, Goto, rootVars, procVars
<1>13. ASSUME NEW c \in Clients, Commit(c) PROVE RootKept'
  BY <1>13 DEF Commit, Exit, Goto, rootVars, NoRecords
<1>14. ASSUME NEW c \in Clients, Finds(c) PROVE RootKept'
  BY <1>14 DEF Finds, Goto, diskVars, rootVars, procVars
<1>15. ASSUME NEW c \in Clients, Approves(c) PROVE RootKept'
  BY <1>15 DEF Approves, Goto, diskVars, rootVars, procVars
<1>16. ASSUME NEW b \in Births, Enters(b) PROVE RootKept'
  BY <1>16 DEF Enters, diskVars, rootVars, clientVars
<1>17. ASSUME NEW b \in Births, Hold(b) PROVE RootKept'
  BY <1>17 DEF Hold, Hears, diskVars, rootVars, clientVars
<1>18. ASSUME NEW b \in Births, Dies(b) PROVE RootKept'
  BY <1>18 DEF Dies, Ends, diskVars, rootVars, clientVars
<1>19. ASSUME NEW b \in Births, Reap(b) PROVE RootKept'
  BY <1>19 DEF Reap, diskVars, rootVars, clientVars
<1>20. ASSUME NEW p \in Pids, OtherRuns(p) PROVE RootKept'
  BY <1>20 DEF OtherRuns, diskVars, rootVars, clientVars
<1>21. ASSUME NEW p \in Paths, RemoveRoot(p) PROVE RootKept'
  BY <1>21 DEF RemoveRoot, diskVars, procVars, clientVars
<1>22. ASSUME NEW p \in Paths, ForeignClaim(p) PROVE RootKept'
  BY <1>22 DEF ForeignClaim, diskVars, procVars, clientVars
<1>23. CASE UNCHANGED vars
  BY <1>23 DEF vars, diskVars, rootVars, procVars, clientVars
<1> HIDE Values, InodeAssumption DEF TypeOK, Shape, RootKept, Labels, LockedSteps,
        StartSteps, ExecSteps, StopSteps, Stages, Live, Record
<1> QED
  BY <1>s, <1>1, <1>2, <1>3, <1>4, <1>5, <1>6, <1>7, <1>8, <1>9, <1>10, <1>11, <1>12,
     <1>13, <1>14, <1>15, <1>16, <1>17, <1>18, <1>19, <1>20, <1>21, <1>22, <1>23, Zenon
     DEF StepCase

\* A holder mounts its root while its client works on it.
LEMMA TempsAreOwnNext ==
  ASSUME TypeOK, Shape, PidsAgree, LockHeld, Entered, Starting, RootKept, TempsAreOwn,
         [Next]_vars
  PROVE  TempsAreOwn'
<1>s. StepCase
  BY StepCases
<1> USE Values DEF TypeOK, Shape, PidsAgree, LockHeld, Entered, Starting, RootKept,
        TempsAreOwn, Labels, LockedSteps, StartSteps, ExecSteps, StopSteps, Stages, Live,
        Record
<1>1. ASSUME NEW c \in Clients, NEW o \in Ops, NEW i \in Ids, Begins(c, o, i) PROVE TempsAreOwn'
  BY <1>1 DEF Begins, Goto, diskVars, rootVars, procVars
<1>2. ASSUME NEW c \in Clients, Leaves(c) PROVE TempsAreOwn'
  BY <1>2 DEF Leaves, Exit, Goto, rootVars, procVars, NoRecords
<1>3. ASSUME NEW c \in Clients, OwnRoot(c) PROVE TempsAreOwn'
  BY <1>3 DEF OwnRoot, RootChoices, PathAfter, Goto, procVars
<1>4. ASSUME NEW c \in Clients, Locks(c) PROVE TempsAreOwn'
  BY <1>4 DEF Locks, LockFree, Goto, rootVars, procVars
<1>5. ASSUME NEW c \in Clients, Decides(c) PROVE TempsAreOwn'
  BY <1>5 DEF Decides, Goto, diskVars, rootVars, procVars
<1>6. ASSUME NEW c \in Clients, Pins(c) PROVE TempsAreOwn'
  BY <1>6 DEF Pins, Goto, diskVars, rootVars, procVars
<1>7. ASSUME NEW c \in Clients, Signals(c) PROVE TempsAreOwn'
  BY <1>7 DEF Signals, Reached, Target, Goto, diskVars, rootVars
<1>8. ASSUME NEW c \in Clients, Forget(c) PROVE TempsAreOwn'
  BY <1>8 DEF Forget, Exit, Goto, rootVars, procVars, NoRecords
<1>9. ASSUME NEW c \in Clients, NEW b \in Births, NEW p \in Pids, Forks(c, b, p) PROVE TempsAreOwn'
  BY <1>9 DEF Forks, Goto, diskVars, rootVars
<1>10. ASSUME NEW c \in Clients, Acknowledge(c) PROVE TempsAreOwn'
  BY <1>10 DEF Acknowledge, Goto, diskVars, rootVars
<1>11. ASSUME NEW c \in Clients, Observe(c) PROVE TempsAreOwn'
  BY <1>11 DEF Observe, Goto, diskVars, rootVars, procVars
<1>12. ASSUME NEW c \in Clients, Persist(c) PROVE TempsAreOwn'
  BY <1>12 DEF Persist, NewRecords, Goto, rootVars, procVars
<1>13. ASSUME NEW c \in Clients, Commit(c) PROVE TempsAreOwn'
  BY <1>13 DEF Commit, Exit, Goto, rootVars, NoRecords
<1>14. ASSUME NEW c \in Clients, Finds(c) PROVE TempsAreOwn'
  BY <1>14 DEF Finds, Goto, diskVars, rootVars, procVars
<1>15. ASSUME NEW c \in Clients, Approves(c) PROVE TempsAreOwn'
  BY <1>15 DEF Approves, Goto, diskVars, rootVars, procVars
<1>16. ASSUME NEW b \in Births, Enters(b) PROVE TempsAreOwn'
  <2>1. /\ b \in Births /\ stage[b] = "born"
        /\ temp' = [temp EXCEPT ![b] = inode[src[b]]]
        /\ stage' = [stage EXCEPT ![b] = "waiting"]
        /\ UNCHANGED <<holders, foreign, src, sent, pc, path, map, started>>
    BY <1>16 DEF Enters, diskVars, rootVars, clientVars
  <2>2. \A c \in Clients : pc[c] \in StartSteps /\ started[c] = b => temp'[b] \notin foreign
    <3> SUFFICES ASSUME NEW c \in Clients, pc[c] \in StartSteps, started[c] = b
                 PROVE  temp'[b] \notin foreign
      OBVIOUS
    <3>1. src[b] = path[c] /\ op[c] = "setup" /\ pc[c] \notin {"idle", "own"}
      BY <2>1
    <3>2. inode[path[c]] \notin foreign
      BY <3>1
    <3> QED
      BY <2>1, <3>1, <3>2
  <2>3. \A c \in Clients : pc[c] \in StartSteps => temp'[started[c]] \notin foreign
    BY <2>1, <2>2
  <2>4. \A i \in Ids : holders[i] # b
    BY <2>1
  <2>5. \A c \in Clients : \A i \in Ids : map[c][i] # b
    <3> SUFFICES ASSUME NEW c \in Clients, NEW i \in Ids, map[c][i] = b PROVE FALSE
      OBVIOUS
    <3>1. stage[map[c][i]] # "born"
      BY Values DEF Entered
    <3> QED
      BY <2>1, <3>1
  <2>6. sent[b] # 2
    BY <2>1
  <2>7. \A a \in Births : a # b => temp'[a] = temp[a]
    BY <2>1
  <2>8. \A c \in Clients : pc[c] \in StartSteps /\ stage'[started[c]] = "born"
            => src[started[c]] = path[c]
    BY <2>1
  <2> QED
    BY <2>1, <2>3, <2>4, <2>5, <2>6, <2>7, <2>8
<1>17. ASSUME NEW b \in Births, Hold(b) PROVE TempsAreOwn'
  BY <1>17 DEF Hold, Hears, diskVars, rootVars, clientVars
<1>18. ASSUME NEW b \in Births, Dies(b) PROVE TempsAreOwn'
  BY <1>18 DEF Dies, Ends, diskVars, rootVars, clientVars
<1>19. ASSUME NEW b \in Births, Reap(b) PROVE TempsAreOwn'
  BY <1>19 DEF Reap, diskVars, rootVars, clientVars
<1>20. ASSUME NEW p \in Pids, OtherRuns(p) PROVE TempsAreOwn'
  BY <1>20 DEF OtherRuns, diskVars, rootVars, clientVars
<1>21. ASSUME NEW p \in Paths, RemoveRoot(p) PROVE TempsAreOwn'
  BY <1>21 DEF RemoveRoot, diskVars, procVars, clientVars
<1>22. ASSUME NEW p \in Paths, ForeignClaim(p) PROVE TempsAreOwn'
  BY <1>22 DEF ForeignClaim, diskVars, procVars, clientVars
<1>23. CASE UNCHANGED vars
  BY <1>23 DEF vars, diskVars, rootVars, procVars, clientVars
<1> HIDE Values DEF TypeOK, Shape, PidsAgree, LockHeld, Entered, Starting, RootKept,
        TempsAreOwn, Labels, LockedSteps, StartSteps, ExecSteps, StopSteps, Stages, Live,
        Record
<1> QED
  BY <1>s, <1>1, <1>2, <1>3, <1>4, <1>5, <1>6, <1>7, <1>8, <1>9, <1>10, <1>11, <1>12,
     <1>13, <1>14, <1>15, <1>16, <1>17, <1>18, <1>19, <1>20, <1>21, <1>22, <1>23, Zenon
     DEF StepCase

\* A new directory is a new inode.
LEMMA PastIsPastNext ==
  ASSUME TypeOK, Shape, PastIsPast, [Next]_vars
  PROVE  PastIsPast'
<1>s. StepCase
  BY StepCases
<1> USE Values, InodeAssumption DEF TypeOK, Shape, PastIsPast, Labels, LockedSteps,
        StartSteps, ExecSteps, StopSteps, Stages, Live, Record
<1>1. ASSUME NEW c \in Clients, NEW o \in Ops, NEW i \in Ids, Begins(c, o, i) PROVE PastIsPast'
  BY <1>1 DEF Begins, Goto, diskVars, rootVars, procVars, Gone
<1>2. ASSUME NEW c \in Clients, Leaves(c) PROVE PastIsPast'
  BY <1>2 DEF Leaves, Exit, Goto, rootVars, procVars, NoRecords
<1>3. ASSUME NEW c \in Clients, OwnRoot(c) PROVE PastIsPast'
  BY <1>3 DEF OwnRoot, RootChoices, PathAfter, Goto, procVars
<1>4. ASSUME NEW c \in Clients, Locks(c) PROVE PastIsPast'
  BY <1>4 DEF Locks, LockFree, Goto, rootVars, procVars
<1>5. ASSUME NEW c \in Clients, Decides(c) PROVE PastIsPast'
  BY <1>5 DEF Decides, Goto, diskVars, rootVars, procVars
<1>6. ASSUME NEW c \in Clients, Pins(c) PROVE PastIsPast'
  BY <1>6 DEF Pins, Goto, diskVars, rootVars, procVars
<1>7. ASSUME NEW c \in Clients, Signals(c) PROVE PastIsPast'
  BY <1>7 DEF Signals, Reached, Target, Goto, diskVars, rootVars
<1>8. ASSUME NEW c \in Clients, Forget(c) PROVE PastIsPast'
  BY <1>8 DEF Forget, Exit, Goto, rootVars, procVars, NoRecords
<1>9. ASSUME NEW c \in Clients, NEW b \in Births, NEW p \in Pids, Forks(c, b, p) PROVE PastIsPast'
  BY <1>9 DEF Forks, Goto, diskVars, rootVars
<1>10. ASSUME NEW c \in Clients, Acknowledge(c) PROVE PastIsPast'
  BY <1>10 DEF Acknowledge, Goto, diskVars, rootVars
<1>11. ASSUME NEW c \in Clients, Observe(c) PROVE PastIsPast'
  BY <1>11 DEF Observe, Goto, diskVars, rootVars, procVars
<1>12. ASSUME NEW c \in Clients, Persist(c) PROVE PastIsPast'
  BY <1>12 DEF Persist, NewRecords, Goto, rootVars, procVars
<1>13. ASSUME NEW c \in Clients, Commit(c) PROVE PastIsPast'
  BY <1>13 DEF Commit, Exit, Goto, rootVars, NoRecords
<1>14. ASSUME NEW c \in Clients, Finds(c) PROVE PastIsPast'
  BY <1>14 DEF Finds, Goto, diskVars, rootVars, procVars
<1>15. ASSUME NEW c \in Clients, Approves(c) PROVE PastIsPast'
  BY <1>15 DEF Approves, Goto, diskVars, rootVars, procVars
<1>16. ASSUME NEW b \in Births, Enters(b) PROVE PastIsPast'
  BY <1>16 DEF Enters, diskVars, rootVars, clientVars
<1>17. ASSUME NEW b \in Births, Hold(b) PROVE PastIsPast'
  BY <1>17 DEF Hold, Hears, diskVars, rootVars, clientVars
<1>18. ASSUME NEW b \in Births, Dies(b) PROVE PastIsPast'
  BY <1>18 DEF Dies, Ends, diskVars, rootVars, clientVars
<1>19. ASSUME NEW b \in Births, Reap(b) PROVE PastIsPast'
  BY <1>19 DEF Reap, diskVars, rootVars, clientVars
<1>20. ASSUME NEW p \in Pids, OtherRuns(p) PROVE PastIsPast'
  BY <1>20 DEF OtherRuns, diskVars, rootVars, clientVars
<1>21. ASSUME NEW p \in Paths, RemoveRoot(p) PROVE PastIsPast'
  BY <1>21 DEF RemoveRoot, diskVars, procVars, clientVars
<1>22. ASSUME NEW p \in Paths, ForeignClaim(p) PROVE PastIsPast'
  BY <1>22 DEF ForeignClaim, diskVars, procVars, clientVars
<1>23. CASE UNCHANGED vars
  BY <1>23 DEF vars, diskVars, rootVars, procVars, clientVars
<1> HIDE Values, InodeAssumption DEF TypeOK, Shape, PastIsPast, Labels, LockedSteps,
        StartSteps, ExecSteps, StopSteps, Stages, Live, Record
<1> QED
  BY <1>s, <1>1, <1>2, <1>3, <1>4, <1>5, <1>6, <1>7, <1>8, <1>9, <1>10, <1>11, <1>12,
     <1>13, <1>14, <1>15, <1>16, <1>17, <1>18, <1>19, <1>20, <1>21, <1>22, <1>23, Zenon
     DEF StepCase

\* exec looks at the /tmp first and verifies the holder afterwards.
LEMMA TempCheckedNext ==
  ASSUME TypeOK, Shape, PidsAgree, Entered, PastIsPast, TempChecked, [Next]_vars
  PROVE  TempChecked'
<1>s. StepCase
  BY StepCases
<1> USE Values DEF TypeOK, Shape, PidsAgree, Entered, PastIsPast, TempChecked, Labels,
        LockedSteps, StartSteps, ExecSteps, StopSteps, Stages, Live, Record
<1>1. ASSUME NEW c \in Clients, NEW o \in Ops, NEW i \in Ids, Begins(c, o, i) PROVE TempChecked'
  BY <1>1 DEF Begins, Goto, diskVars, rootVars, procVars
<1>2. ASSUME NEW c \in Clients, Leaves(c) PROVE TempChecked'
  BY <1>2 DEF Leaves, Exit, Goto, rootVars, procVars, NoRecords
<1>3. ASSUME NEW c \in Clients, OwnRoot(c) PROVE TempChecked'
  BY <1>3 DEF OwnRoot, RootChoices, PathAfter, Goto, procVars
<1>4. ASSUME NEW c \in Clients, Locks(c) PROVE TempChecked'
  BY <1>4 DEF Locks, LockFree, Goto, rootVars, procVars
<1>5. ASSUME NEW c \in Clients, Decides(c) PROVE TempChecked'
  BY <1>5 DEF Decides, Goto, diskVars, rootVars, procVars
<1>6. ASSUME NEW c \in Clients, Pins(c) PROVE TempChecked'
  BY <1>6 DEF Pins, Goto, diskVars, rootVars, procVars
<1>7. ASSUME NEW c \in Clients, Signals(c) PROVE TempChecked'
  BY <1>7 DEF Signals, Reached, Target, Goto, diskVars, rootVars
<1>8. ASSUME NEW c \in Clients, Forget(c) PROVE TempChecked'
  BY <1>8 DEF Forget, Exit, Goto, rootVars, procVars, NoRecords
<1>9. ASSUME NEW c \in Clients, NEW b \in Births, NEW p \in Pids, Forks(c, b, p) PROVE TempChecked'
  BY <1>9 DEF Forks, Goto, diskVars, rootVars
<1>10. ASSUME NEW c \in Clients, Acknowledge(c) PROVE TempChecked'
  BY <1>10 DEF Acknowledge, Goto, diskVars, rootVars
<1>11. ASSUME NEW c \in Clients, Observe(c) PROVE TempChecked'
  BY <1>11 DEF Observe, Goto, diskVars, rootVars, procVars
<1>12. ASSUME NEW c \in Clients, Persist(c) PROVE TempChecked'
  BY <1>12 DEF Persist, NewRecords, Goto, rootVars, procVars
<1>13. ASSUME NEW c \in Clients, Commit(c) PROVE TempChecked'
  BY <1>13 DEF Commit, Exit, Goto, rootVars, NoRecords
<1>14. ASSUME NEW c \in Clients, Finds(c) PROVE TempChecked'
  BY <1>14 DEF Finds, Goto, diskVars, rootVars, procVars
<1>15. ASSUME NEW c \in Clients, Approves(c) PROVE TempChecked'
  <2>1. UNCHANGED <<at, pid, stage, temp, inode, path, map, id, before>>
    BY <1>15 DEF Approves, diskVars, rootVars, procVars
  <2>2. \A d \in Clients : d # c => pc'[d] = pc[d]
    BY <1>15 DEF Approves, Goto
  <2>3. CASE pc[c] = "temp"
    <3>1. TempFits(c) /\ pc'[c] = "join" /\ path[c] \in Paths /\ Record(c) \in Births
      BY <1>15, <2>3 DEF Approves, Goto
    <3>2. ASSUME stage[Record(c)] \in Live PROVE temp[Record(c)] \notin {0} \cup before[c]
      <4>1. at[pid[Record(c)]] = Record(c)
        BY <3>1, <3>2
      <4> QED
        BY <3>1, <4>1 DEF TempFits
    <3> QED
      BY <2>1, <2>2, <3>1, <3>2
  <2>4. CASE pc[c] = "join"
    BY <1>15, <2>1, <2>2, <2>4 DEF Approves, Goto, Verified, Runs
  <2> QED
    BY <1>15, <2>3, <2>4 DEF Approves
<1>16. ASSUME NEW b \in Births, Enters(b) PROVE TempChecked'
  BY <1>16 DEF Enters, diskVars, rootVars, clientVars
<1>17. ASSUME NEW b \in Births, Hold(b) PROVE TempChecked'
  BY <1>17 DEF Hold, Hears, diskVars, rootVars, clientVars
<1>18. ASSUME NEW b \in Births, Dies(b) PROVE TempChecked'
  BY <1>18 DEF Dies, Ends, diskVars, rootVars, clientVars
<1>19. ASSUME NEW b \in Births, Reap(b) PROVE TempChecked'
  BY <1>19 DEF Reap, diskVars, rootVars, clientVars
<1>20. ASSUME NEW p \in Pids, OtherRuns(p) PROVE TempChecked'
  BY <1>20 DEF OtherRuns, diskVars, rootVars, clientVars
<1>21. ASSUME NEW p \in Paths, RemoveRoot(p) PROVE TempChecked'
  BY <1>21 DEF RemoveRoot, diskVars, procVars, clientVars
<1>22. ASSUME NEW p \in Paths, ForeignClaim(p) PROVE TempChecked'
  BY <1>22 DEF ForeignClaim, diskVars, procVars, clientVars
<1>23. CASE UNCHANGED vars
  BY <1>23 DEF vars, diskVars, rootVars, procVars, clientVars
<1> HIDE Values DEF TypeOK, Shape, PidsAgree, Entered, PastIsPast, TempChecked, Labels,
        LockedSteps, StartSteps, ExecSteps, StopSteps, Stages, Live, Record
<1> QED
  BY <1>s, <1>1, <1>2, <1>3, <1>4, <1>5, <1>6, <1>7, <1>8, <1>9, <1>10, <1>11, <1>12,
     <1>13, <1>14, <1>15, <1>16, <1>17, <1>18, <1>19, <1>20, <1>21, <1>22, <1>23, Zenon
     DEF StepCase

-----------------------------------------------------------------------------
(* The invariant and what follows from it                                  *)

\* Inv holds at the start: nobody works, and every holder that is there is
\* an old one that is recorded.
LEMMA InvInit == Init => Inv
<1> SUFFICES ASSUME Init PROVE Inv
  OBVIOUS
<1> USE Values DEF Init
<1>1. TypeOK
  <2>1. /\ holders \in [Ids -> Births \cup {None}]
        /\ owner \in [Births -> Ids \cup {None}]
        /\ pid \in [Births -> Pids \cup {None}]
        /\ at \in [Pids -> Births \cup {Other, None}]
        /\ recorded \in [Ids -> Paths]
    OBVIOUS
  <2>2. /\ stage \in [Births -> Stages]
        /\ sent \in [Births -> 0..2]
        /\ pc \in [Clients -> Labels]
    BY DEF Stages, Live, Labels
  <2>3. /\ lock \in Clients \cup {None}
        /\ lastInode \in 0..MaxInode
        /\ inode \in [Paths -> 0..lastInode]
        /\ foreign \subseteq 1..lastInode
        /\ src \in [Births -> Paths \cup {None}]
        /\ temp \in [Births -> 0..lastInode]
    BY InodeAssumption
  <2>4. /\ killed \subseteq Births
        /\ op \in [Clients -> Ops \cup {None}]
        /\ id \in [Clients -> Ids \cup {None}]
        /\ path \in [Clients -> Paths \cup {None}]
        /\ map \in [Clients -> [Ids -> Births \cup {None}]]
        /\ pin \in [Clients -> Births \cup {Other, None}]
        /\ started \in [Clients -> Births \cup {None}]
        /\ before \in [Clients -> SUBSET (1..MaxInode)]
    BY DEF NoRecords
  <2>5. hit \in BOOLEAN
    BY Zenon
  <2> QED
    BY <2>1, <2>2, <2>3, <2>4, <2>5 DEF TypeOK
<1>2. Shape
  BY DEF Shape, StartSteps, LockedSteps, ExecSteps, StopSteps
<1>3. PidsAgree
  <2>1. \A b \in Births : stage[b] # "unborn" => owner[b] # None /\ stage[b] = "holding"
    OBVIOUS
  <2>2. \A b \in Births : stage[b] # "unborn" => pid[b] \in Pids /\ owner[b] \in Ids
    BY <2>1
  <2>3. \A p \in Pids, b \in Births : at[p] = b <=> pid[b] = p
    OBVIOUS
  <2>4. \A b \in Births : stage[b] # "unborn" => at[pid[b]] = b
    BY <2>2, <2>3
  <2>5. \A b \in Births : pid[b] \in Pids => stage[b] = "holding"
    OBVIOUS
  <2>6. \A p \in Pids : at[p] \in Births => stage[at[p]] = "holding" /\ pid[at[p]] = p
    BY <2>3, <2>5
  <2>7. \A b \in Births : /\ stage[b] # "born"
                          /\ stage[b] = "unborn" => sent[b] = 0 /\ temp[b] = 0
    OBVIOUS
  <2> QED
    BY <2>2, <2>4, <2>6, <2>7 DEF PidsAgree, Live
<1>4. LockHeld /\ Starting /\ Replaceable /\ PinNamed /\ RootKept /\ TempChecked
  BY DEF LockHeld, Starting, Replaceable, PinNamed, RootKept, TempChecked, LockedSteps, StartSteps
<1>5. Entered
  <2>1. \A i \in Ids : holders[i] # None => holders[i] \in Births /\ owner[holders[i]] = i
    OBVIOUS
  <2>2. \A b \in Births : owner[b] # None => stage[b] = "holding"
    OBVIOUS
  <2>3. \A c \in Clients, i \in Ids : map[c][i] = None
    BY DEF NoRecords
  <2> QED
    BY <2>1, <2>2, <2>3 DEF Entered
<1>6. Committed
  <2>1. \A b \in Births : stage[b] \in Live => owner[b] \in Ids /\ sent[b] = 2
    BY DEF Live
  <2>2. \A b \in Births : owner[b] \in Ids => holders[owner[b]] = b
    OBVIOUS
  <2> QED
    BY <2>1, <2>2 DEF Committed, Live
<1>7. TempsAreOwn
  BY DEF TempsAreOwn, StartSteps
<1>8. PastIsPast
  BY DEF PastIsPast
<1> QED
  BY <1>1, <1>2, <1>3, <1>4, <1>5, <1>6, <1>7, <1>8 DEF Inv

\* Inv is an invariant of the specification.
THEOREM Invariance == Spec => []Inv
<1>1. Inv /\ [Next]_vars => Inv'
  BY TypeOKNext, ShapeNext, PidsAgreeNext, LockHeldNext, EnteredNext, StartingNext,
     CommittedNext, ReplaceableNext, PinnedNext, RootKeptNext, TempsAreOwnNext,
     PastIsPastNext, TempCheckedNext, Zenon DEF Inv
<1> QED
  BY <1>1, InvInit, PTL DEF Spec

\* Every variable has its type in every reachable state, for any number of
\* clients, holders and directories.
THEOREM TypeCorrect == Spec => []TypeOK
  BY Invariance, PTL DEF Inv

\* Every holder that keeps namespaces is the one recorded for its workspace:
\* the commit of start_holder comes after the record, and a record is replaced
\* only when its holder is killed or gone.
THEOREM HoldersAreFound == Spec => []HoldersAreRecorded
<1>1. Inv => HoldersAreRecorded
  BY DEF Inv, Committed, HoldersAreRecorded, Live
<1> QED
  BY <1>1, Invariance, PTL

\* With pidfds, stop_holder kills nothing but the recorded holder, however
\* pids are reused: it opens the pidfd before it verifies the holder again.
THEOREM KillsAreRight == ASSUME PidFd = TRUE PROVE Spec => KillsOnlyTheRecorded
<1> DEFINE Right == /\ hit' = hit
                    /\ \A b \in killed' \ killed :
                         \E c \in Clients : pc[c] = "signal" /\ holders[id[c]] = b
<1>1. Inv /\ [Next]_vars => [Right]_vars
  <2> SUFFICES ASSUME Inv, [Next]_vars PROVE Right
    OBVIOUS
  <2>1. StepCase
    BY StepCases DEF Inv
  <2>2. (\E c \in Clients : Signals(c)) \/ (UNCHANGED hit /\ killed' \subseteq killed)
    BY <2>1 DEF StepCase, Begins, Leaves, OwnRoot, Locks, Decides, Pins, Forget, Forks,
       Acknowledge, Observe, Persist, Commit, Finds, Approves, Enters, Hold, Dies, Ends,
       Reap, OtherRuns, RemoveRoot, ForeignClaim, procVars, vars
  <2>3. ASSUME NEW c \in Clients, Signals(c) PROVE Right
    <3>1. pin[c] = holders[id[c]] /\ pin[c] \in Births /\ pc[c] = "signal"
      BY <2>3 DEF Signals, Inv, Shape, LockHeld, PinNamed, Record, LockedSteps, StopSteps
    <3>2. Target(c) = pin[c] /\ Target(c) # Other
      BY <3>1, Values DEF Target
    <3>3. hit' = hit
      <4>1. hit \in BOOLEAN
        BY DEF Inv, TypeOK
      <4> QED
        BY <2>3, <3>2, <4>1, Zenon DEF Signals
    <3>4. killed' \subseteq killed \cup {holders[id[c]]}
      BY <2>3, <3>1, <3>2 DEF Signals
    <3> QED
      BY <3>1, <3>3, <3>4
  <2> QED
    BY <2>2, <2>3
<1> QED
  BY <1>1, Invariance, PTL DEF Spec, KillsOnlyTheRecorded

\* No holder keeps another registry's temp root: setup confirms the root under
\* the lock before it starts the holder that mounts it.
THEOREM NoForeignHeld == Spec => []NoForeignTemp
<1>1. Inv => NoForeignTemp
  BY DEF Inv, Committed, TempsAreOwn, NoForeignTemp
<1> QED
  BY <1>1, Invariance, PTL

\* The command of exec runs on a temp root of its own: linux_exec compares the
\* directory before it verifies and joins the holder.
THEOREM ExecIsPrivate == Spec => []ExecInOwnTemp
<1>1. Inv => ExecInOwnTemp
  <2> SUFFICES ASSUME Inv, NEW c \in Clients, pc[c] = "run"
               PROVE  temp[Record(c)] \notin {0} \cup foreign \cup before[c]
    BY DEF ExecInOwnTemp
  <2>1. id[c] \in Ids /\ Record(c) \in Births
    BY DEF Inv, Shape, ExecSteps
  <2>2. temp[Record(c)] \notin foreign
    BY <2>1, Values DEF Inv, TempsAreOwn, Record
  <2> QED
    BY <2>2 DEF Inv, TempChecked
<1> QED
  BY <1>1, Invariance, PTL

\* The temp root is private, to the holder that keeps it and to the command
\* that exec runs on it.
THEOREM TempsArePrivate == Spec => []TempIsPrivate
<1>1. NoForeignTemp /\ ExecInOwnTemp => TempIsPrivate
  BY DEF TempIsPrivate
<1> QED
  BY <1>1, NoForeignHeld, ExecIsPrivate, PTL

-----------------------------------------------------------------------------
(* HolderStart                                                             *)

Messages == {"pid", "ok", "error", "noegress", "monitor"}

\* StartTypeOK is Flags, Places and the bounds on the channels.
Flags ==
    /\ subreaper \in BOOLEAN /\ wants \in BOOLEAN /\ egress \in BOOLEAN
    /\ connected \in BOOLEAN /\ lifeOpen \in BOOLEAN /\ orphaned \in BOOLEAN
Places ==
    /\ caller \in {"pid", "pin", "status", "monitor", "observe", "persist", "commit", "done",
                   "stale", "reap", "failed", "stop", "stopMonitor", "staleMonitor",
                   "staleReap", "stopped", "dead"}
    /\ holder \in {"pid", "pinned", "fork", "enter", "start", "await", "bind", "finish", "fail",
                   "status", "monitor", "recorded", "hold", "exited", "killed", "reaped"}
    /\ after \in {"none", "fail", "status", "exited"}
    /\ monitor \in {"none", "setup", "wait", "fork", "watch", "exited", "reaped"}
    /\ pasta \in {"none", "starting", "up", "exited", "reaped"}
Channels ==
    report \in Seq(Messages) /\ ack \in Seq({"p", "c"}) /\ life \in Seq({"start"})

\* What was sent, given where the senders stand.
Bounded ==
    /\ Len(report) <= 3 /\ Len(ack) <= 2 /\ Len(life) <= 1
    /\ holder = "pid" => Len(report) <= 0
    /\ holder \in {"pinned", "fork", "enter", "start", "await", "bind", "fail", "status"} =>
        Len(report) <= 1
    /\ holder = "finish" /\ after # "exited" => Len(report) <= 1
    /\ holder = "monitor" => Len(report) <= 2
    /\ caller \in {"pid", "pin"} => Len(ack) <= 0
    /\ caller \in {"status", "monitor", "observe", "persist", "commit"} => Len(ack) <= 1
    /\ holder \in {"pid", "pinned", "fork", "enter", "start"} => Len(life) <= 0

\* Before the fork there is no monitor; Offline, none can start pasta any more.
Early == {"pid", "pinned", "fork"}
Offline == ~wants \/ (MonitorGone /\ holder \notin Early)

\* A holder that runs has a life pipe to its monitor, or has waited for it.
MonitorHeld ==
    /\ PastaRuns => monitor = "watch" \/ orphaned
    /\ orphaned => monitor \in {"exited", "reaped"}
    /\ ~wants =>
        /\ monitor = "none" /\ ~lifeOpen /\ ~connected /\ ~egress /\ caller # "monitor"
        /\ holder \notin {"fork", "start", "await", "bind", "finish"}
    /\ holder \in Early => monitor = "none" /\ ~lifeOpen
    /\ ~HolderGone /\ ~lifeOpen /\ holder # "finish" => monitor \in {"none", "reaped"}
    /\ holder = "finish" => ~lifeOpen /\ after \in {"fail", "status", "exited"}
    /\ holder = "fail" \/ (holder = "status" /\ ~connected) => ~lifeOpen

\* A report that there is no egress comes after the monitor has gone.
Reports ==
    /\ caller = "pid" =>
        /\ holder \in {"pid", "pinned"} \/ HolderGone
        /\ report \in {<<>>, <<"pid">>} /\ (holder = "pid" => report = <<>>)
    /\ caller = "pin" => report = <<>> /\ (holder = "pinned" \/ HolderGone)
    /\ caller = "status" =>
        /\ holder # "pid" /\ (holder = "monitor" => report # <<>>)
        /\ report # <<>> =>
            /\ holder \notin Early /\ Head(report) \in {"ok", "error", "noegress"}
            /\ Head(report) = "noegress" => Offline
    /\ caller = "monitor" => holder \notin Early

\* From the status on, a start without egress stays offline; a stop has seen
\* the holder end, then reaped the monitor, or the other way round.
Recording == {"observe", "persist", "commit", "done"}
Stopping == {"stale", "stop", "stopMonitor", "staleMonitor", "staleReap", "stopped"}
Stopped ==
    /\ caller \in Recording \cup Stopping => holder \notin Early /\ (~egress => Offline)
    /\ caller \in Stopping => HolderGone
    /\ caller \in {"stopMonitor", "stopped"} /\ subreaper => holder = "reaped"
    /\ caller \in {"staleReap", "stopped"} /\ subreaper /\ egress => monitor = "reaped"

StartInv ==
    /\ Places /\ Channels /\ Bounded
    /\ NoUnrecordedMonitor /\ MonitorHeld /\ Reports /\ Stopped

LEMMA FlagsKept == Flags /\ [StartNext]_startVars => Flags'
<1> SUFFICES ASSUME Flags, [StartNext]_startVars PROVE Flags'
  OBVIOUS
<1> USE DEF Flags, mine, kept, held, theirs, Net
<1>1. CASE NextPid
  BY <1>1, Zenon DEF NextPid
<1>2. CASE PinHolder
  BY <1>2, Zenon DEF PinHolder
<1>3. CASE NextStatus
  BY <1>3, Zenon DEF NextStatus
<1>4. CASE NextMonitor
  BY <1>4, Zenon DEF NextMonitor
<1>5. CASE ObserveHolder
  BY <1>5, Zenon DEF ObserveHolder, Observed
<1>6. CASE PersistHolder
  BY <1>6, Zenon DEF PersistHolder
<1>7. CASE CommitHolder
  BY <1>7, Zenon DEF CommitHolder
<1>8. CASE ReapFailed
  BY <1>8, Zenon DEF ReapFailed, ReapHolder
<1>9. CASE StopReap
  BY <1>9, Zenon DEF StopReap, ReapHolder
<1>10. CASE ReapMonitor
  BY <1>10, Zenon DEF ReapMonitor
<1>11. CASE Stop
  BY <1>11, Zenon DEF Stop
<1>12. CASE SendPid
  BY <1>12, Zenon DEF SendPid
<1>13. CASE Pinned
  BY <1>13, Zenon DEF Pinned
<1>14. CASE ForkPasta
  BY <1>14, Zenon DEF ForkPasta
<1>15. CASE EnterNamespaces
  BY <1>15, Zenon DEF EnterNamespaces, FailStarted, Finish
<1>16. CASE StartPasta
  BY <1>16, Zenon DEF StartPasta
<1>17. CASE AwaitPasta
  BY <1>17, Zenon DEF AwaitPasta, StopsWaiting, Finish
<1>18. CASE BindResolv
  BY <1>18, Zenon DEF BindResolv, FailStarted, Finish
<1>19. CASE FinishMonitor
  BY <1>19, Zenon DEF FinishMonitor
<1>20. CASE SendFailure
  BY <1>20, Zenon DEF SendFailure
<1>21. CASE SendStatus
  BY <1>21, Zenon DEF SendStatus
<1>22. CASE SendMonitor
  BY <1>22, Zenon DEF SendMonitor
<1>23. CASE Recorded
  BY <1>23, Zenon DEF Recorded, Finish
<1>24. CASE HoldOn
  BY <1>24, Zenon DEF HoldOn
<1>25. CASE MonitorSetup
  BY <1>25, Zenon DEF MonitorSetup
<1>26. CASE WaitByte
  BY <1>26, Zenon DEF WaitByte
<1>27. CASE RunPasta
  BY <1>27, Zenon DEF RunPasta
<1>28. CASE Watch
  BY <1>28, Zenon DEF Watch
<1>29. CASE Configure
  BY <1>29, Zenon DEF Configure
<1>30. CASE PastaExits
  BY <1>30, Zenon DEF PastaExits
<1>31. CASE KillCaller
  BY <1>31, Zenon DEF KillCaller
<1>32. CASE KillHolder
  BY <1>32, Zenon DEF KillHolder
<1>33. CASE InitReaps
  BY <1>33, Zenon DEF InitReaps
<1>34. CASE UNCHANGED startVars
  BY <1>34, Zenon DEF startVars
<1>35. CASE KillMonitor
  BY <1>35 DEF KillMonitor
<1> QED
  BY <1>1, <1>2, <1>3, <1>4, <1>5, <1>6, <1>7, <1>8, <1>9, <1>10, <1>11, <1>12, <1>13, <1>14,
      <1>15, <1>16, <1>17, <1>18, <1>19, <1>20, <1>21, <1>22, <1>23, <1>24, <1>25, <1>26, <1>27,
      <1>28, <1>29, <1>30, <1>31, <1>32, <1>33, <1>34, <1>35 DEF StartNext, CallerStep, HolderRuns,
      MonitorStep, Environment

LEMMA StartKept == StartInv /\ [StartNext]_startVars => StartInv'
<1> SUFFICES ASSUME StartInv, [StartNext]_startVars PROVE StartInv'
  OBVIOUS
<1> USE DEF StartInv, Places, Channels, Messages, Bounded, NoUnrecordedMonitor, MonitorHeld,
            Reports, Early, Offline, MonitorGone, HolderGone, Ended, PastaRuns, Stopped,
            Recording, Stopping, Net, mine, kept, held, theirs
<1>1. CASE NextPid
  BY <1>1, SMTT(60) DEF NextPid, Caller, ReportEnds
<1>2. CASE PinHolder
  BY <1>2, SMTT(60) DEF PinHolder, Caller, AckHeard
<1>3. CASE NextStatus
  BY <1>3, SMTT(60) DEF NextStatus, Caller, ReportEnds, AfterStatus
<1>4. CASE NextMonitor
  BY <1>4, SMTT(60) DEF NextMonitor, Caller, ReportEnds
<1>5. CASE ObserveHolder
  <2>1. egress' => egress /\ ~MonitorGone
    <3> HIDE DEF StartInv, MonitorGone
    <3> QED BY <1>5, Zenon DEF ObserveHolder, Observed
  <2>2. ~egress' => ~egress \/ MonitorGone \/ caller' = "reap"
    <3> HIDE DEF StartInv, MonitorGone, HolderGone
    <3> QED BY <1>5, Zenon DEF ObserveHolder, Observed, Caller
  <2>3. /\ caller = "observe" /\ caller' \in {"persist", "reap"}
        /\ UNCHANGED <<kept, held, report, ack>>
    <3> HIDE DEF StartInv, HolderGone, kept, held
    <3> QED BY <1>5 DEF ObserveHolder, Caller
  <2> QED BY <2>1, <2>2, <2>3, SMTT(60)
<1>6. CASE PersistHolder
  BY <1>6, SMTT(60) DEF PersistHolder, Caller
<1>7. CASE CommitHolder
  BY <1>7, SMTT(60) DEF CommitHolder, Caller, AckHeard
<1>8. CASE ReapFailed
  BY <1>8, SMTT(60) DEF ReapFailed, ReapHolder, Reaped, Caller
<1>9. CASE StopReap
  BY <1>9, SMTT(60) DEF StopReap, ReapHolder, Reaped, Caller
<1>10. CASE ReapMonitor
  BY <1>10, SMTT(60) DEF ReapMonitor, Caller
<1>11. CASE Stop
  BY <1>11, SMTT(60) DEF Stop, Caller
<1>12. CASE SendPid
  <2>1. Places' /\ Channels' /\ Bounded'
    BY <1>12, SMTT(60) DEF SendPid, Send, Holder, CallerAlive
  <2>2. NoUnrecordedMonitor' /\ MonitorHeld' /\ Stopped'
    BY <1>12, SMTT(60) DEF SendPid, Send, Holder, CallerAlive
  <2>3. Reports'
    <3>1. report = <<>>
      BY <1>12 DEF SendPid
    <3>2. holder = "pid" /\ holder' \in {"pinned", "killed"} /\ UNCHANGED <<mine, Net>>
      BY <1>12 DEF SendPid, Send, Holder
    <3>3. caller = "pid" => report' \in {<<>>, <<"pid">>}
      <4> HIDE DEF StartInv
      <4>1. Append(<<>>, "pid") = <<"pid">>
        OBVIOUS
      <4>2. report' \in {report, Append(report, "pid")}
        BY <1>12, Zenon DEF SendPid, Send
      <4> QED BY <3>1, <4>1, <4>2, Zenon
    <3> QED BY <3>2, <3>3, SMTT(60)
  <2> QED BY <2>1, <2>2, <2>3
<1>13. CASE Pinned
  BY <1>13, SMTT(60) DEF Pinned, Holder, AckOpen
<1>14. CASE ForkPasta
  BY <1>14, SMTT(60) DEF ForkPasta, Holder
<1>15. CASE EnterNamespaces
  BY <1>15, SMTT(60) DEF EnterNamespaces, Holder, FailStarted, Finish, Silent
<1>16. CASE StartPasta
  BY <1>16, SMTT(60) DEF StartPasta, Holder, Silent
<1>17. CASE AwaitPasta
  BY <1>17, SMTT(60) DEF AwaitPasta, Holder, StopsWaiting, Finish, Silent
<1>18. CASE BindResolv
  BY <1>18, SMTT(60) DEF BindResolv, Holder, FailStarted, Finish, Silent
<1>19. CASE FinishMonitor
  BY <1>19, SMTT(60) DEF FinishMonitor, Holder, Silent
<1>20. CASE SendFailure
  BY <1>20, SMTT(60) DEF SendFailure, Send, Holder, CallerAlive
<1>21. CASE SendStatus
  BY <1>21, SMTT(60) DEF SendStatus, Send, Holder, CallerAlive
<1>22. CASE SendMonitor
  BY <1>22, SMTT(60) DEF SendMonitor, Send, Holder, CallerAlive
<1>23. CASE Recorded
  BY <1>23, SMTT(60) DEF Recorded, Holder, AckOpen, Finish
<1>24. CASE HoldOn
  BY <1>24, SMTT(60) DEF HoldOn, Silent
<1>25. CASE MonitorSetup
  BY <1>25, SMTT(60) DEF MonitorSetup, Exits
<1>26. CASE WaitByte
  BY <1>26, SMTT(60) DEF WaitByte, Exits, LifeEnds
<1>27. CASE RunPasta
  BY <1>27, SMTT(60) DEF RunPasta, Exits
<1>28. CASE Watch
  BY <1>28, SMTT(60) DEF Watch, Exits, LifeEnds
<1>29. CASE Configure
  BY <1>29, SMTT(60) DEF Configure
<1>30. CASE PastaExits
  BY <1>30, SMTT(60) DEF PastaExits
<1>31. CASE KillCaller
  BY <1>31, SMTT(60) DEF KillCaller, CallerAlive
<1>32. CASE KillHolder
  BY <1>32, SMTT(60) DEF KillHolder
<1>33. CASE InitReaps
  BY <1>33, SMTT(60) DEF InitReaps, CallerAlive
<1>34. CASE UNCHANGED startVars
  BY <1>34, SMTT(60) DEF startVars
<1>35. CASE KillMonitor
  <2>1. (monitor = "watch" => orphaned') /\ (monitor # "watch" => ~orphaned')
    <3> HIDE DEF StartInv
    <3> QED BY <1>35, Zenon DEF KillMonitor
  <2>2. /\ monitor \in {"setup", "wait", "fork", "watch"} /\ monitor' = "exited"
        /\ UNCHANGED <<subreaper, wants, caller, egress, holder, after, connected,
                       pasta, report, ack, life, lifeOpen>>
    <3> HIDE DEF StartInv
    <3> QED BY <1>35 DEF KillMonitor
  <2>3. Places' /\ Channels' /\ Bounded' /\ NoUnrecordedMonitor'
    BY <2>2, SMTT(60)
  <2>4. MonitorHeld'
    BY <2>1, <2>2, SMTT(60)
  <2>5. Reports' /\ Stopped'
    BY <2>2, SMTT(60)
  <2> QED BY <2>3, <2>4, <2>5
<1> QED
  BY <1>1, <1>2, <1>3, <1>4, <1>5, <1>6, <1>7, <1>8, <1>9, <1>10, <1>11, <1>12, <1>13, <1>14,
      <1>15, <1>16, <1>17, <1>18, <1>19, <1>20, <1>21, <1>22, <1>23, <1>24, <1>25, <1>26, <1>27,
      <1>28, <1>29, <1>30, <1>31, <1>32, <1>33, <1>34, <1>35 DEF StartNext, CallerStep, HolderRuns,
      MonitorStep, Environment

LEMMA StartBegins == StartInit => StartInv /\ Flags
<1> SUFFICES ASSUME StartInit PROVE StartInv /\ Flags
  OBVIOUS
<1>1. Flags
  BY Zenon DEF StartInit, Flags
<1>2. StartInv
  BY SMTT(60) DEF StartInit, StartInv, Places, Channels, Messages, Bounded, NoUnrecordedMonitor,
      MonitorHeld, Reports, Early, Offline, MonitorGone, HolderGone, Ended, PastaRuns, Stopped,
      Recording, Stopping
<1> QED
  BY <1>1, <1>2

LEMMA StartTyped == StartInv /\ Flags => StartTypeOK
<1> SUFFICES ASSUME StartInv, Flags PROVE StartTypeOK
  OBVIOUS
<1>1. Len(report) <= 3 /\ Len(ack) <= 2 /\ Len(life) <= 1
  BY DEF StartInv, Bounded
<1>2. Places
  BY DEF StartInv
<1> QED
  BY <1>1, <1>2, Zenon DEF StartTypeOK, Flags, Places

\* StartTypeOK holds of every start, and no channel ever has more bytes than the
\* protocol of start_holder and holder_process writes.
THEOREM StartTypeCorrect == StartSpec => []StartTypeOK
<1>1. StartInit => StartInv /\ Flags
  BY StartBegins
<1>2. StartInv /\ Flags /\ [StartNext]_startVars => (StartInv /\ Flags)'
  BY StartKept, FlagsKept
<1>3. StartInv /\ Flags => StartTypeOK
  BY StartTyped
<1> QED
  BY <1>1, <1>2, <1>3, PTL DEF StartSpec

LEMMA RecordsAllProcesses == StartInv => ProcessesAreRecorded
<1> SUFFICES ASSUME StartInv PROVE ProcessesAreRecorded
  OBVIOUS
<1> USE DEF StartInv, Stopped, MonitorHeld, Offline, HolderGone, Ended, PastaRuns, MonitorGone,
            Recording, Stopping
<1>1. NoUnrecordedMonitor
  OBVIOUS
<1>2. LoopbackHasNoPasta
  BY DEF LoopbackHasNoPasta
<1>3. StopIsComplete
  BY SMTT(60) DEF StopIsComplete
<1> QED
  BY <1>1, <1>2, <1>3 DEF ProcessesAreRecorded

\* However setup and teardown, the holder, its monitor and pasta interleave and
\* whichever of them is killed: a holder that ends leaves no monitor behind, a
\* workspace recorded as loopback only runs no pasta, and a subreaper's teardown
\* returns with nothing left (start_holder, stop_holder, pasta_monitor); a pasta
\* that still runs lost its monitor to a kill.
THEOREM ProcessesAreAllRecorded == StartSpec => []ProcessesAreRecorded
<1>1. StartInit => StartInv
  BY StartBegins
<1>2. StartInv /\ [StartNext]_startVars => StartInv'
  BY StartKept
<1>3. StartInv => ProcessesAreRecorded
  BY RecordsAllProcesses
<1> QED
  BY <1>1, <1>2, <1>3, PTL DEF StartSpec
=============================================================================
