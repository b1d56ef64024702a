------------------------- MODULE VmLifecycleProofs -------------------------
(***************************************************************************)
(* Proofs about VmLifecycle, for any number of names, owners and clients   *)
(* and for calls that land late, and about GuestExec, for any number of    *)
(* launches and of processes that the command leaves behind.               *)
(***************************************************************************)
EXTENDS VmLifecycle, GuestExec, TLAPS

-----------------------------------------------------------------------------
(* The inductive invariant                                                 *)

\* Steps at which the client's handle is the owner it works on.
OwnedSteps == {"enter", "check", "c_register"} \cup ShowSteps \cup HeldSteps

\* What a client remembers fits the step it is at.
ClientShape ==
    \A c \in Clients :
        /\ pc[c] # "idle" => target[c] \in Names
        /\ pc[c] \in OwnedSteps => handle[c] \in Owners
        /\ pc[c] \in {"enter", "check"} =>
              op[c] \in {"setup", "teardown", "delete", "exec", "import"}
        /\ pc[c] \in SetupSteps => op[c] = "setup"
        /\ pc[c] \in TeardownSteps => op[c] = "teardown"
        /\ pc[c] \in DeleteSteps => op[c] = "delete"
        /\ pc[c] \in GuestSteps => op[c] \in {"exec", "import"}

TypeInv == TypeOK /\ ClientShape

\* An operation past operation_lock holds the lock of its VM, and an
\* exclusive holder is alone.
LocksHeld ==
    /\ \A c \in Clients : pc[c] \in {"check"} \cup HeldSteps =>
          IF op[c] = "exec" THEN c \in shared[handle[c]] ELSE exclusive[handle[c]] = c
    /\ \A o \in Owners : exclusive[o] # None => shared[o] = {}

\* Different names hold different owners.
RegistryIsInjective ==
    \A n, m \in Names : registry[n] = registry[m] /\ n # m => registry[n] = None

\* An owner that is registered or worked on was drawn by some create.
OwnersAreDrawn ==
    /\ \A n \in Names : registry[n] # None => registry[n] \in used
    /\ \A c \in Clients : pc[c] \in OwnedSteps => handle[c] \in used

\* Nothing is on disk for an owner before it is drawn.
UndrawnIsBlank == \A o \in Owners \ used : journal[o] = Legacy

\* Who is about to rewrite the registry has the lock and a current copy.
EditorsAreCurrent ==
    \A c \in Clients :
        /\ pc[c] \in {"c_journal", "c_register", "d_register"} =>
              regLock = c /\ records[c] = registry
        /\ pc[c] \in {"c_journal", "c_register"} => registry[target[c]] = None

\* The owner a create has drawn is known to nobody else until it registers.
FreshIsPrivate ==
    \A c \in Clients : pc[c] = "c_register" =>
        /\ \A n \in Names : registry[n] # handle[c]
        /\ journal[handle[c]].phase = "created"
        /\ \A d \in Clients : d # c /\ pc[d] \in OwnedSteps => handle[d] # handle[c]

\* setup and teardown never run under a pending deletion; delete does.
DeletionMarked ==
    \A c \in Clients :
        /\ pc[c] \in SetupSteps \cup TeardownSteps => journal[handle[c]].phase # "deleting"
        /\ pc[c] \in {"d_remove", "d_verify", "d_lock", "d_register"} =>
              journal[handle[c]].phase = "deleting"

\* The phase "created" means that no provider create was ever sent.
CreatedMeansUntouched ==
    /\ attempted \subseteq used
    /\ \A o \in attempted : journal[o].phase # "created"
    /\ \A l \in late : l.verb = "create" => l.owner \in attempted
    /\ \A c \in Clients : pc[c] = "s_create" => handle[c] \in attempted

\* A show that knows of a create has read a journal that tells of it.
ShowRemembers ==
    \A c \in Clients : pc[c] = "w_inspect" /\ known[c] => copy[c].phase # "created"

Inv ==
    /\ TypeInv
    /\ LocksHeld
    /\ RegistryIsInjective
    /\ OwnersAreDrawn
    /\ UndrawnIsBlank
    /\ EditorsAreCurrent
    /\ FreshIsPrivate
    /\ RegisteredWhileHeld
    /\ CopyIsCurrent
    /\ ReadyWhileExecuting
    /\ DeletionMarked
    /\ CreatedMeansUntouched
    /\ ShowRemembers
    /\ FreshVmHasJournal

-----------------------------------------------------------------------------
(* Types                                                                   *)

\* The two journal values the code builds from scratch are well formed.
LEMMA JournalValues == Legacy \in Journals /\ FirstJournal \in Journals
BY GenerationAssumption DEF Legacy, FirstJournal, Journals, Phases

\* Saving another phase keeps a journal well formed.
LEMMA PhaseUpdate ==
    ASSUME NEW j \in Journals, NEW p \in Phases
    PROVE  [j EXCEPT !.phase = p] \in Journals
BY DEF Journals

\* The invariant holds in every initial state directory.
LEMMA TypeInit == Init => TypeInv
BY NoneAssumption, JournalValues, SMTT(30)
DEF Init, TypeInv, TypeOK, ClientShape, Registries,
    InstanceStates, Labels, OwnedSteps, HeldSteps, CreateSteps, SetupSteps,
    TeardownSteps, DeleteSteps, GuestSteps, ShowSteps

\* No step of a client, the provider or the guest breaks a type.
LEMMA TypeNext ==
    ASSUME TypeInv, [Next]_vars
    PROVE  TypeInv'
<1> USE NoneAssumption, OpsAssumption, JournalValues
    DEF TypeInv, TypeOK, ClientShape, Registries, InstanceStates, Calls, Jobs,
        Labels, OwnedSteps, HeldSteps, CreateSteps, SetupSteps, TeardownSteps,
        DeleteSteps, GuestSteps, ShowSteps, AllOps,
        diskVars, lockVars, providerVars, clientVars, historyVars
<1>1. ASSUME NEW c \in Clients, Begin(c) PROVE TypeInv'
  BY <1>1 DEF Begin, Goto
<1>2. ASSUME NEW c \in Clients, OperationLock(c) PROVE TypeInv'
  <2> HIDE DEF TypeInv, TypeOK, ClientShape
  <2>1. /\ shared \in [Owners -> SUBSET Clients]
        /\ exclusive \in [Owners -> Clients \cup {None}]
    BY DEF TypeInv, TypeOK
  <2>2. shared' \in [Owners -> SUBSET Clients]
    <3>1. CASE UNCHANGED shared
      BY <2>1, <3>1
    <3>2. CASE shared' = [shared EXCEPT ![handle[c]] = @ \cup {c}]
      BY <2>1, <3>2
    <3> QED BY <1>2, <3>1, <3>2 DEF OperationLock
  <2>2a. exclusive' \in [Owners -> Clients \cup {None}]
    <3>1. CASE UNCHANGED exclusive
      BY <2>1, <3>1
    <3>2. CASE exclusive' = [exclusive EXCEPT ![handle[c]] = c]
      BY <2>1, <3>2
    <3> QED BY <1>2, <3>1, <3>2 DEF OperationLock
  <2> USE DEF TypeInv, TypeOK, ClientShape
  <2>3. pc' \in [Clients -> Labels]
    BY <1>2 DEF OperationLock, Goto
  <2>4. TypeOK'
    BY <1>2, <2>2, <2>2a, <2>3 DEF OperationLock
  <2>5. ClientShape'
    BY <1>2 DEF OperationLock, Goto
  <2> QED BY <2>4, <2>5
<1>3. ASSUME NEW c \in Clients, Check(c) PROVE TypeInv'
  BY <1>3 DEF Check, CheckRegistered, PhaseAdmits, Goto
<1>4. ASSUME NEW c \in Clients, CreateLock(c) PROVE TypeInv'
  <2>1. CASE Release(c)
    BY <1>4, <2>1 DEF CreateLock, Release, RegLockWithout
  <2>2. CASE regLock' = c /\ records' = [records EXCEPT ![c] = registry]
             /\ Goto(c, "c_journal")
             /\ UNCHANGED <<exclusive, shared, admission, op, target, handle,
                            consent, copy, saw, known>>
    BY <1>4, <2>2 DEF CreateLock, Goto
  <2> QED BY <1>4, <2>1, <2>2 DEF CreateLock
<1>5. ASSUME NEW c \in Clients, CreateJournal(c) PROVE TypeInv'
  BY <1>5 DEF CreateJournal, FirstJournal, Goto
<1>6. ASSUME NEW c \in Clients, CreateRegister(c) PROVE TypeInv'
  BY <1>6 DEF CreateRegister, Release, RegLockWithout
<1>7. ASSUME NEW c \in Clients, SetupAdmit(c) PROVE TypeInv'
  BY <1>7 DEF SetupAdmit, AdmissionFree, Goto
<1>8. ASSUME NEW c \in Clients, SetupInspect(c) PROVE TypeInv'
  BY <1>8 DEF SetupInspect, Goto
<1>9. ASSUME NEW c \in Clients, SetupList(c) PROVE TypeInv'
  <2>1. Provisioning(c) \in Journals
    BY PhaseUpdate DEF Provisioning, Phases
  <2>2. journal' \in [Owners -> Journals] /\ copy' \in [Clients -> Journals]
    <3>1. CASE Save(c, Provisioning(c))
      BY <2>1, <3>1 DEF Save
    <3>2. CASE UNCHANGED <<copy, journal>>
      BY <3>2
    <3> QED BY <1>9, <3>1, <3>2 DEF SetupList
  <2>3. pc' \in [Clients -> Labels]
    BY <1>9 DEF SetupList, Goto
  <2>4. attempted' \subseteq Owners
    BY <1>9 DEF SetupList
  <2>5. TypeOK'
    BY <1>9, <2>2, <2>3, <2>4 DEF SetupList
  <2>6. ClientShape'
    BY <1>9 DEF SetupList, Goto
  <2> QED BY <2>5, <2>6
<1>10. ASSUME NEW c \in Clients, SetupCreate(c) PROVE TypeInv'
  BY <1>10 DEF SetupCreate, Goto
<1>11. ASSUME NEW c \in Clients, SetupGeneration(c) PROVE TypeInv'
  <2>1. [phase |-> "starting", generation |-> copy[c].generation + 1] \in Journals
    BY <1>11, GenerationAssumption DEF SetupGeneration, GenerationLeft, Save, Goto,
        Journals, Phases
  <2>2. TypeOK'
    BY <1>11, <2>1 DEF SetupGeneration, GenerationLeft, Save, Goto
  <2>3. ClientShape'
    BY <1>11 DEF SetupGeneration, GenerationLeft, Save, Goto
  <2> QED BY <2>2, <2>3
<1>12. ASSUME NEW c \in Clients, SetupStart(c) PROVE TypeInv'
  BY <1>12 DEF SetupStart, Goto
<1>13. ASSUME NEW c \in Clients, SetupProbe(c) PROVE TypeInv'
  <2>1. [copy[c] EXCEPT !.phase = "ready"] \in Journals
    BY PhaseUpdate DEF Phases
  <2>2. TypeOK'
    BY <1>13, <2>1 DEF SetupProbe, Release, RegLockWithout
  <2>3. ClientShape'
    BY <1>13 DEF SetupProbe, Release, RegLockWithout
  <2> QED BY <2>2, <2>3
<1>14. ASSUME NEW c \in Clients, TeardownInspect(c) PROVE TypeInv'
  <2>1. Stopping(c) \in Journals
    BY PhaseUpdate DEF Stopping, Phases
  <2>2. journal' \in [Owners -> Journals] /\ copy' \in [Clients -> Journals]
    <3>1. CASE Save(c, Stopping(c))
      BY <2>1, <3>1 DEF Save
    <3>2. CASE UNCHANGED <<copy, journal>>
      BY <3>2
    <3> QED BY <1>14, <3>1, <3>2 DEF TeardownInspect
  <2>3. pc' \in [Clients -> Labels]
    <3>1. pc \in [Clients -> Labels] /\ {"t_stop", "t_save"} \subseteq Labels
      OBVIOUS
    <3> HIDE DEF TypeInv, TypeOK, ClientShape, Labels
    <3>2. \E l \in {"t_stop", "t_save"} : pc' = [pc EXCEPT ![c] = l]
      BY <1>14 DEF TeardownInspect, Goto
    <3> QED BY <3>1, <3>2
  <2>4. TypeOK'
    BY <1>14, <2>2, <2>3 DEF TeardownInspect
  <2>5. ClientShape'
    BY <1>14 DEF TeardownInspect, Goto
  <2> QED BY <2>4, <2>5
<1>15. ASSUME NEW c \in Clients, TeardownStop(c) PROVE TypeInv'
  BY <1>15 DEF TeardownStop, Halt, Undone, Goto
<1>16. ASSUME NEW c \in Clients, TeardownVerify(c) PROVE TypeInv'
  BY <1>16 DEF TeardownVerify, Goto
<1>17. ASSUME NEW c \in Clients, TeardownSave(c) PROVE TypeInv'
  <2>1. [copy[c] EXCEPT !.phase = StoppedPhase(c)] \in Journals
    BY PhaseUpdate DEF Phases, StoppedPhase
  <2>2. TypeOK'
    BY <1>17, <2>1 DEF TeardownSave, StoppedPhase, Release, RegLockWithout
  <2>3. ClientShape'
    BY <1>17 DEF TeardownSave, StoppedPhase, Release, RegLockWithout
  <2> QED BY <2>2, <2>3
<1>18. ASSUME NEW c \in Clients, DeleteInspect(c) PROVE TypeInv'
  BY <1>18 DEF DeleteInspect, Goto
<1>19. ASSUME NEW c \in Clients, DeleteMark(c) PROVE TypeInv'
  <2>1. [journal[handle[c]] EXCEPT !.phase = "deleting"] \in Journals
    BY <1>19, PhaseUpdate DEF Phases, DeleteMark
  <2>2. TypeOK'
    BY <1>19, <2>1 DEF DeleteMark, AfterMark, Save, Goto
  <2>3. ClientShape'
    BY <1>19 DEF DeleteMark, AfterMark, Save, Goto
  <2> QED BY <2>2, <2>3
<1>20. ASSUME NEW c \in Clients, DeleteRemove(c) PROVE TypeInv'
  BY <1>20 DEF DeleteRemove, Undone, Goto
<1>21. ASSUME NEW c \in Clients, DeleteVerify(c) PROVE TypeInv'
  BY <1>21 DEF DeleteVerify, Goto
<1>22. ASSUME NEW c \in Clients, DeleteLock(c) PROVE TypeInv'
  BY <1>22 DEF DeleteLock, RegistryFree, Goto
<1>23. ASSUME NEW c \in Clients, DeleteRegister(c) PROVE TypeInv'
  BY <1>23 DEF DeleteRegister, Release, RegLockWithout
<1>24. ASSUME NEW c \in Clients, GuestInspect(c) PROVE TypeInv'
  BY <1>24 DEF GuestInspect, Goto
<1>24a. ASSUME NEW c \in Clients, ShowRead(c) PROVE TypeInv'
  BY <1>24a DEF ShowRead, Goto
<1>25. ASSUME NEW c \in Clients, GuestLaunch(c) PROVE TypeInv'
  BY <1>25 DEF GuestLaunch, Goto
<1>26. ASSUME NEW c \in Clients, GuestDone(c) \/ ShowInspect(c) PROVE TypeInv'
  <2>1. CASE GuestDone(c)
    BY <2>1 DEF GuestDone, Release, RegLockWithout
  <2>2. CASE ShowInspect(c)
    BY <2>2 DEF ShowInspect, Release, RegLockWithout
  <2> QED BY <1>26, <2>1, <2>2
<1>27. ASSUME NEW c \in Clients, Fail(c) PROVE TypeInv'
  <2>1. TypeOK'
    BY <1>27 DEF Fail, MayFail, Waiting, Drop, CallOf, Release, RegLockWithout
  <2>2. ClientShape'
    BY <1>27 DEF Fail, MayFail, Waiting, Drop, CallOf, Release, RegLockWithout
  <2> QED BY <2>1, <2>2
<1>28. ASSUME NEW c \in Clients, Kill(c) PROVE TypeInv'
  <2>1. TypeOK'
    BY <1>28 DEF Kill, Waiting, Drop, CallOf, Release, RegLockWithout
  <2>2. ClientShape'
    BY <1>28 DEF Kill, Waiting, Drop, CallOf, Release, RegLockWithout
  <2> QED BY <2>1, <2>2
<1>29. ASSUME NEW l \in late, LateLand(l) PROVE TypeInv'
  <2>1. l.owner \in Owners
    OBVIOUS
  <2>2. instance' \in [Owners -> InstanceStates]
    <3>1. \/ instance' = instance
          \/ \E s \in InstanceStates : instance' = [instance EXCEPT ![l.owner] = s]
      BY <1>29, <2>1 DEF LateLand, Halt
    <3> QED BY <2>1, <3>1
  <2>3. jobs' \in [Owners -> SUBSET Jobs]
    BY <1>29, <2>1, ZenonT(40) DEF LateLand, Halt, Undone
  <2>4. landed' \subseteq Calls
    BY <1>29 DEF LateLand, Halt, Undone
  <2>5. TypeOK'
    BY <1>29, <2>2, <2>3, <2>4 DEF LateLand
  <2>6. ClientShape'
    BY <1>29 DEF LateLand
  <2> QED BY <2>5, <2>6
<1>30. ASSUME NEW o \in Owners, VmStops(o) PROVE TypeInv'
  BY <1>30 DEF VmStops, Halt, Undone
<1>31. ASSUME NEW o \in Owners, VmLost(o) PROVE TypeInv'
  BY <1>31 DEF VmLost, Undone
<1>32. ASSUME NEW o \in Owners, NEW j \in jobs[o], JobEnds(o, j) PROVE TypeInv'
  BY <1>32 DEF JobEnds
<1>33. CASE UNCHANGED vars
  BY <1>33 DEF vars
<1> QED
  BY <1>1, <1>2, <1>3, <1>4, <1>5, <1>6, <1>7, <1>8, <1>9,
     <1>10, <1>11, <1>12, <1>13, <1>14, <1>15, <1>16, <1>17, <1>18,
     <1>19, <1>20, <1>21, <1>22, <1>23, <1>24, <1>24a, <1>25, <1>26, <1>27,
     <1>28, <1>29, <1>30, <1>31, <1>32, <1>33, ZenonT(40) DEF Next, Step

-----------------------------------------------------------------------------
(* The rest of the invariant, one part at a time                           *)

\* Saving another phase changes nothing else.
LEMMA PhaseFields ==
    \A j \in Journals, p \in Phases :
        /\ [j EXCEPT !.phase = p].phase = p
        /\ [j EXCEPT !.phase = p].generation = j.generation
BY DEF Journals

\* Locks are held from operation_lock to the end of the operation.
LEMMA LocksNext ==
    ASSUME Inv, [Next]_vars
    PROVE  LocksHeld'
<1> USE NoneAssumption
    DEF Inv, TypeInv, TypeOK, ClientShape, LocksHeld,
        Labels, OwnedSteps, HeldSteps, CreateSteps, SetupSteps, TeardownSteps,
        DeleteSteps, GuestSteps, ShowSteps,
        diskVars, lockVars, providerVars, clientVars, historyVars
<1>1. ASSUME NEW c \in Clients, Begin(c) PROVE LocksHeld'
  BY <1>1 DEF Begin, Goto
<1>2. ASSUME NEW c \in Clients,
             OperationLock(c) \/ Check(c)
      PROVE  LocksHeld'
  <2>1. CASE OperationLock(c)
    BY <2>1 DEF OperationLock, Lockable, TakesShared, Goto
  <2>2. CASE Check(c)
    BY <2>2 DEF Check, CheckRegistered, PhaseAdmits, Goto
  <2> QED BY <1>2, <2>1, <2>2
<1>3. ASSUME NEW c \in Clients,
             CreateLock(c) \/ CreateJournal(c) \/ CreateRegister(c)
      PROVE  LocksHeld'
  <2>1. CASE CreateLock(c)
    BY <2>1 DEF CreateLock, RegistryFree, Release, RegLockWithout, Goto
  <2>2. CASE CreateJournal(c)
    BY <2>2 DEF CreateJournal, FirstJournal, Goto
  <2>3. CASE CreateRegister(c)
    BY <2>3 DEF CreateRegister, Release, RegLockWithout
  <2> QED BY <1>3, <2>1, <2>2, <2>3
<1>4. ASSUME NEW c \in Clients,
             \/ SetupAdmit(c) \/ SetupInspect(c) \/ SetupList(c) \/ SetupCreate(c)
             \/ SetupGeneration(c) \/ SetupStart(c) \/ SetupProbe(c)
      PROVE  LocksHeld'
  <2>1. CASE SetupAdmit(c)
    BY <2>1 DEF SetupAdmit, AdmissionFree, Goto
  <2>2. CASE SetupInspect(c)
    BY <2>2 DEF SetupInspect, Goto
  <2>3. CASE SetupList(c)
    BY <2>3 DEF SetupList, Provisioning, Save, Goto
  <2>4. CASE SetupCreate(c)
    BY <2>4 DEF SetupCreate, Goto
  <2>5. CASE SetupGeneration(c)
    BY <2>5 DEF SetupGeneration, GenerationLeft, Save, Goto
  <2>6. CASE SetupStart(c)
    BY <2>6 DEF SetupStart, Goto
  <2>7. CASE SetupProbe(c)
    BY <2>7 DEF SetupProbe, Release, RegLockWithout
  <2> QED BY <1>4, <2>1, <2>2, <2>3, <2>4, <2>5, <2>6, <2>7
<1>5. ASSUME NEW c \in Clients,
             \/ TeardownInspect(c) \/ TeardownStop(c) \/ TeardownVerify(c)
             \/ TeardownSave(c)
      PROVE  LocksHeld'
  BY <1>5 DEF TeardownInspect, Stopping, Save, Goto, TeardownStop, Halt, Undone,
     TeardownVerify, TeardownSave, StoppedPhase, Release, RegLockWithout
<1>6. ASSUME NEW c \in Clients,
             \/ DeleteInspect(c) \/ DeleteMark(c) \/ DeleteRemove(c)
             \/ DeleteVerify(c) \/ DeleteLock(c) \/ DeleteRegister(c)
      PROVE  LocksHeld'
  BY <1>6 DEF DeleteInspect, Goto, DeleteMark, AfterMark, Save, DeleteRemove,
     DeleteVerify, DeleteLock, RegistryFree, DeleteRegister, Release,
     RegLockWithout
<1>7. ASSUME NEW c \in Clients,
             GuestInspect(c) \/ GuestLaunch(c) \/ ShowRead(c)
      PROVE  LocksHeld'
  BY <1>7 DEF GuestInspect, Goto, GuestLaunch, ShowRead
<1>8. ASSUME NEW c \in Clients, GuestDone(c) \/ ShowInspect(c) PROVE LocksHeld'
  BY <1>8 DEF GuestDone, ShowInspect, Release, RegLockWithout
<1>9. ASSUME NEW c \in Clients, Fail(c) PROVE LocksHeld'
  BY <1>9 DEF Fail, MayFail, Waiting, Drop, CallOf, Release, RegLockWithout
<1>10. ASSUME NEW c \in Clients, Kill(c) PROVE LocksHeld'
  BY <1>10 DEF Kill, Waiting, Drop, CallOf, Release, RegLockWithout
<1>11. ASSUME \/ \E l \in late : LateLand(l)
              \/ \E o \in Owners : VmStops(o) \/ VmLost(o)
              \/ \E o \in Owners : \E j \in jobs[o] : JobEnds(o, j)
      PROVE  LocksHeld'
  BY <1>11 DEF LateLand, VmStops, VmLost, JobEnds, Halt, Undone
<1>12. CASE UNCHANGED vars
  BY <1>12 DEF vars
<1> QED
  BY <1>1, <1>2, <1>3, <1>4, <1>5, <1>6, <1>7, <1>8, <1>9, <1>10, <1>11, <1>12 DEF Next,
      Step

\* Editing the registry keeps names apart.
LEMMA InjectiveNext ==
    ASSUME Inv, [Next]_vars
    PROVE  RegistryIsInjective'
<1> USE NoneAssumption
    DEF Inv, TypeInv, TypeOK, ClientShape, RegistryIsInjective, EditorsAreCurrent,
        FreshIsPrivate, Registries,
        Labels, OwnedSteps, HeldSteps, CreateSteps, SetupSteps, TeardownSteps,
        DeleteSteps, GuestSteps, ShowSteps,
        diskVars, lockVars, providerVars, clientVars, historyVars
<1>1. ASSUME NEW c \in Clients, Begin(c) PROVE RegistryIsInjective'
  BY <1>1 DEF Begin, Goto
<1>2. ASSUME NEW c \in Clients,
             OperationLock(c) \/ Check(c)
      PROVE  RegistryIsInjective'
  BY <1>2 DEF OperationLock, Lockable, TakesShared, Goto, Check, CheckRegistered,
     PhaseAdmits
<1>3. ASSUME NEW c \in Clients,
             CreateLock(c) \/ CreateJournal(c) \/ CreateRegister(c)
      PROVE  RegistryIsInjective'
  <2>1. CASE CreateLock(c)
    BY <2>1 DEF CreateLock, Release, Goto
  <2>2. CASE CreateJournal(c)
    BY <2>2 DEF CreateJournal, Goto
  <2>3. CASE CreateRegister(c)
    BY <2>3 DEF CreateRegister, Release
  <2> QED BY <1>3, <2>1, <2>2, <2>3
<1>4. ASSUME NEW c \in Clients,
             \/ SetupAdmit(c) \/ SetupInspect(c) \/ SetupList(c) \/ SetupCreate(c)
             \/ SetupGeneration(c) \/ SetupStart(c) \/ SetupProbe(c)
      PROVE  RegistryIsInjective'
  BY <1>4 DEF SetupAdmit, AdmissionFree, Goto, SetupInspect, SetupList, Save,
     Provisioning, SetupCreate, SetupGeneration, GenerationLeft, SetupStart,
     SetupProbe, Release, RegLockWithout
<1>5. ASSUME NEW c \in Clients,
             \/ TeardownInspect(c) \/ TeardownStop(c) \/ TeardownVerify(c)
             \/ TeardownSave(c)
      PROVE  RegistryIsInjective'
  BY <1>5 DEF TeardownInspect, Stopping, Save, Goto, TeardownStop, Halt, Undone,
     TeardownVerify, TeardownSave, StoppedPhase, Release, RegLockWithout
<1>6. ASSUME NEW c \in Clients,
             \/ DeleteInspect(c) \/ DeleteMark(c) \/ DeleteRemove(c)
             \/ DeleteVerify(c) \/ DeleteLock(c)
      PROVE  RegistryIsInjective'
  BY <1>6 DEF DeleteInspect, Goto, DeleteMark, AfterMark, Save, DeleteRemove,
     DeleteVerify, DeleteLock, RegistryFree
<1>7. ASSUME NEW c \in Clients, DeleteRegister(c) PROVE RegistryIsInjective'
  BY <1>7 DEF DeleteRegister, Release, RegLockWithout
<1>8. ASSUME NEW c \in Clients,
             GuestInspect(c) \/ GuestLaunch(c) \/ ShowRead(c)
      PROVE  RegistryIsInjective'
  BY <1>8 DEF GuestInspect, Goto, GuestLaunch, ShowRead
<1>9. ASSUME NEW c \in Clients, GuestDone(c) \/ ShowInspect(c) PROVE RegistryIsInjective'
  BY <1>9 DEF GuestDone, ShowInspect, Release, RegLockWithout
<1>10. ASSUME NEW c \in Clients, Fail(c) PROVE RegistryIsInjective'
  BY <1>10 DEF Fail, MayFail, Waiting, Drop, CallOf, Release, RegLockWithout
<1>11. ASSUME NEW c \in Clients, Kill(c) PROVE RegistryIsInjective'
  BY <1>11 DEF Kill, Waiting, Drop, CallOf, Release, RegLockWithout
<1>12. ASSUME \/ \E l \in late : LateLand(l)
              \/ \E o \in Owners : VmStops(o) \/ VmLost(o)
              \/ \E o \in Owners : \E j \in jobs[o] : JobEnds(o, j)
      PROVE  RegistryIsInjective'
  BY <1>12 DEF LateLand, VmStops, VmLost, JobEnds, Halt, Undone
<1>13. CASE UNCHANGED vars
  BY <1>13 DEF vars
<1> QED
  BY <1>1, <1>2, <1>3, <1>4, <1>5, <1>6, <1>7, <1>8, <1>9, <1>10, <1>11, <1>12,
     <1>13 DEF Next, Step

\* Owners come from create.
LEMMA DrawnNext ==
    ASSUME Inv, [Next]_vars
    PROVE  OwnersAreDrawn'
<1> USE NoneAssumption
    DEF Inv, TypeInv, TypeOK, ClientShape, OwnersAreDrawn, EditorsAreCurrent, Registries,
        Labels, OwnedSteps, HeldSteps, CreateSteps, SetupSteps, TeardownSteps,
        DeleteSteps, GuestSteps, ShowSteps,
        diskVars, lockVars, providerVars, clientVars, historyVars
<1>1. ASSUME NEW c \in Clients, Begin(c) PROVE OwnersAreDrawn'
  BY <1>1 DEF Begin, Goto
<1>2. ASSUME NEW c \in Clients,
             OperationLock(c) \/ Check(c)
      PROVE  OwnersAreDrawn'
  BY <1>2 DEF OperationLock, Lockable, TakesShared, Goto, Check, CheckRegistered,
     PhaseAdmits
<1>3. ASSUME NEW c \in Clients, CreateLock(c) PROVE OwnersAreDrawn'
  <2>1. CASE Release(c) /\ UNCHANGED <<diskVars, historyVars>>
    BY <2>1 DEF Release, RegLockWithout
  <2>2. CASE Goto(c, "c_journal") /\ UNCHANGED <<op, target, handle, diskVars, historyVars>>
    BY <1>3, <2>2 DEF CreateLock, Goto
  <2> QED BY <1>3, <2>1, <2>2 DEF CreateLock
<1>4. ASSUME NEW c \in Clients, CreateJournal(c) PROVE OwnersAreDrawn'
  BY <1>4 DEF CreateJournal, FirstJournal, Goto
<1>5. ASSUME NEW c \in Clients, CreateRegister(c) PROVE OwnersAreDrawn'
  BY <1>5 DEF CreateRegister, Release, RegLockWithout
<1>6. ASSUME NEW c \in Clients,
             \/ SetupAdmit(c) \/ SetupInspect(c) \/ SetupList(c) \/ SetupCreate(c)
             \/ SetupGeneration(c) \/ SetupStart(c) \/ SetupProbe(c)
      PROVE  OwnersAreDrawn'
  BY <1>6 DEF SetupAdmit, AdmissionFree, Goto, SetupInspect, SetupList, Save,
     Provisioning, SetupCreate, SetupGeneration, GenerationLeft, SetupStart,
     SetupProbe, Release, RegLockWithout
<1>7. ASSUME NEW c \in Clients,
             \/ TeardownInspect(c) \/ TeardownStop(c) \/ TeardownVerify(c)
             \/ TeardownSave(c)
      PROVE  OwnersAreDrawn'
  BY <1>7 DEF TeardownInspect, Stopping, Save, Goto, TeardownStop, Halt, Undone,
     TeardownVerify, TeardownSave, StoppedPhase, Release, RegLockWithout
<1>8. ASSUME NEW c \in Clients,
             \/ DeleteInspect(c) \/ DeleteMark(c) \/ DeleteRemove(c)
             \/ DeleteVerify(c) \/ DeleteLock(c)
      PROVE  OwnersAreDrawn'
  BY <1>8 DEF DeleteInspect, Goto, DeleteMark, AfterMark, Save, DeleteRemove,
     DeleteVerify, DeleteLock, RegistryFree
<1>9. ASSUME NEW c \in Clients, DeleteRegister(c) PROVE OwnersAreDrawn'
  BY <1>9 DEF DeleteRegister, Release, RegLockWithout
<1>10. ASSUME NEW c \in Clients,
             GuestInspect(c) \/ GuestLaunch(c) \/ ShowRead(c)
      PROVE  OwnersAreDrawn'
  BY <1>10 DEF GuestInspect, Goto, GuestLaunch, ShowRead
<1>11. ASSUME NEW c \in Clients, GuestDone(c) \/ ShowInspect(c) PROVE OwnersAreDrawn'
  <2>1. CASE GuestDone(c)
    BY <2>1 DEF GuestDone, Release, RegLockWithout
  <2>2. CASE ShowInspect(c)
    BY <2>2 DEF ShowInspect, Release, RegLockWithout
  <2> QED BY <1>11, <2>1, <2>2
<1>12. ASSUME NEW c \in Clients, Fail(c) PROVE OwnersAreDrawn'
  BY <1>12 DEF Fail, MayFail, Waiting, Drop, CallOf, Release, RegLockWithout
<1>13. ASSUME NEW c \in Clients, Kill(c) PROVE OwnersAreDrawn'
  BY <1>13 DEF Kill, Waiting, Drop, CallOf, Release, RegLockWithout
<1>14. ASSUME \/ \E l \in late : LateLand(l)
              \/ \E o \in Owners : VmStops(o) \/ VmLost(o)
              \/ \E o \in Owners : \E j \in jobs[o] : JobEnds(o, j)
      PROVE  OwnersAreDrawn'
  BY <1>14 DEF LateLand, VmStops, VmLost, JobEnds, Halt, Undone
<1>15. CASE UNCHANGED vars
  BY <1>15 DEF vars
<1> QED
  BY <1>1, <1>2, <1>3, <1>4, <1>5, <1>6, <1>7, <1>8, <1>9, <1>10, <1>11, <1>12,
     <1>13, <1>14, <1>15 DEF Next, Step

\* Journals are written only for owners that were drawn.
LEMMA BlankNext ==
    ASSUME Inv, [Next]_vars
    PROVE  UndrawnIsBlank'
<1> USE NoneAssumption
    DEF Inv, TypeInv, TypeOK, ClientShape, UndrawnIsBlank, OwnersAreDrawn,
        Labels, OwnedSteps, HeldSteps, CreateSteps, SetupSteps, TeardownSteps,
        DeleteSteps, GuestSteps, ShowSteps,
        diskVars, lockVars, providerVars, clientVars, historyVars
<1>1. ASSUME NEW c \in Clients, Begin(c) PROVE UndrawnIsBlank'
  BY <1>1 DEF Begin, Goto
<1>2. ASSUME NEW c \in Clients,
             OperationLock(c) \/ Check(c)
      PROVE  UndrawnIsBlank'
  BY <1>2 DEF OperationLock, Lockable, TakesShared, Goto, Check, CheckRegistered,
     PhaseAdmits
<1>3. ASSUME NEW c \in Clients,
             CreateLock(c) \/ CreateJournal(c) \/ CreateRegister(c)
      PROVE  UndrawnIsBlank'
  BY <1>3 DEF CreateLock, RegistryFree, Release, RegLockWithout, Goto,
     CreateJournal, FirstJournal, CreateRegister
<1>4. ASSUME NEW c \in Clients,
             \/ SetupAdmit(c) \/ SetupInspect(c) \/ SetupList(c) \/ SetupCreate(c)
             \/ SetupGeneration(c) \/ SetupStart(c) \/ SetupProbe(c)
      PROVE  UndrawnIsBlank'
  BY <1>4 DEF SetupAdmit, AdmissionFree, Goto, SetupInspect, SetupList, Save,
     Provisioning, SetupCreate, SetupGeneration, GenerationLeft, SetupStart,
     SetupProbe, Release, RegLockWithout
<1>5. ASSUME NEW c \in Clients,
             \/ TeardownInspect(c) \/ TeardownStop(c) \/ TeardownVerify(c)
             \/ TeardownSave(c)
      PROVE  UndrawnIsBlank'
  BY <1>5 DEF TeardownInspect, Stopping, Save, Goto, TeardownStop, Halt, Undone,
     TeardownVerify, TeardownSave, StoppedPhase, Release, RegLockWithout
<1>6. ASSUME NEW c \in Clients,
             \/ DeleteInspect(c) \/ DeleteMark(c) \/ DeleteRemove(c)
             \/ DeleteVerify(c) \/ DeleteLock(c) \/ DeleteRegister(c)
      PROVE  UndrawnIsBlank'
  BY <1>6 DEF DeleteInspect, Goto, DeleteMark, AfterMark, Save, DeleteRemove,
     DeleteVerify, DeleteLock, RegistryFree, DeleteRegister, Release,
     RegLockWithout
<1>7. ASSUME NEW c \in Clients,
             GuestInspect(c) \/ GuestLaunch(c) \/ ShowRead(c)
      PROVE  UndrawnIsBlank'
  BY <1>7 DEF GuestInspect, Goto, GuestLaunch, ShowRead
<1>8. ASSUME NEW c \in Clients, GuestDone(c) \/ ShowInspect(c) PROVE UndrawnIsBlank'
  BY <1>8 DEF GuestDone, ShowInspect, Release, RegLockWithout
<1>9. ASSUME NEW c \in Clients, Fail(c) PROVE UndrawnIsBlank'
  BY <1>9 DEF Fail, MayFail, Waiting, Drop, CallOf, Release, RegLockWithout
<1>10. ASSUME NEW c \in Clients, Kill(c) PROVE UndrawnIsBlank'
  BY <1>10 DEF Kill, Waiting, Drop, CallOf, Release, RegLockWithout
<1>11. ASSUME \/ \E l \in late : LateLand(l)
              \/ \E o \in Owners : VmStops(o) \/ VmLost(o)
              \/ \E o \in Owners : \E j \in jobs[o] : JobEnds(o, j)
      PROVE  UndrawnIsBlank'
  BY <1>11 DEF LateLand, VmStops, VmLost, JobEnds, Halt, Undone
<1>12. CASE UNCHANGED vars
  BY <1>12 DEF vars
<1> QED
  BY <1>1, <1>2, <1>3, <1>4, <1>5, <1>6, <1>7, <1>8, <1>9, <1>10, <1>11, <1>12 DEF Next,
      Step

\* The registry lock keeps copies of the registry current.
LEMMA EditorsNext ==
    ASSUME Inv, [Next]_vars
    PROVE  EditorsAreCurrent'
<1> USE NoneAssumption
    DEF Inv, TypeInv, TypeOK, ClientShape, EditorsAreCurrent, Registries,
        Labels, OwnedSteps, HeldSteps, CreateSteps, SetupSteps, TeardownSteps,
        DeleteSteps, GuestSteps, ShowSteps,
        diskVars, lockVars, providerVars, clientVars, historyVars
<1>1. ASSUME NEW c \in Clients, Begin(c) PROVE EditorsAreCurrent'
  BY <1>1 DEF Begin, Goto
<1>2. ASSUME NEW c \in Clients, OperationLock(c) PROVE EditorsAreCurrent'
  BY <1>2 DEF OperationLock, Lockable, TakesShared, Goto
<1>3. ASSUME NEW c \in Clients, Check(c) PROVE EditorsAreCurrent'
  BY <1>3 DEF Check, CheckRegistered, PhaseAdmits, Goto
<1>4. ASSUME NEW c \in Clients,
             CreateLock(c) \/ CreateJournal(c) \/ CreateRegister(c)
      PROVE  EditorsAreCurrent'
  <2>1. CASE CreateLock(c)
    <3>1. regLock = None /\ pc[c] = "c_lock" /\ UNCHANGED registry
      BY <2>1 DEF CreateLock, RegistryFree
    <3>2. CASE Release(c)
      BY <3>1, <3>2 DEF Release, RegLockWithout
    <3>3. CASE /\ registry[target[c]] = None /\ regLock' = c /\ UNCHANGED target
               /\ records' = [records EXCEPT ![c] = registry] /\ Goto(c, "c_journal")
      BY <3>1, <3>3 DEF Goto
    <3> QED BY <2>1, <3>2, <3>3 DEF CreateLock
  <2>2. CASE CreateJournal(c)
    BY <2>2 DEF CreateJournal, FirstJournal, Goto
  <2>3. CASE CreateRegister(c)
    BY <2>3 DEF CreateRegister, Release, RegLockWithout
  <2> QED BY <1>4, <2>1, <2>2, <2>3
<1>5. ASSUME NEW c \in Clients,
             \/ SetupAdmit(c) \/ SetupInspect(c) \/ SetupList(c) \/ SetupCreate(c)
             \/ SetupGeneration(c) \/ SetupStart(c) \/ SetupProbe(c)
      PROVE  EditorsAreCurrent'
  <2>1. CASE SetupAdmit(c)
    BY <2>1 DEF SetupAdmit, AdmissionFree, Goto
  <2>2. CASE SetupInspect(c)
    BY <2>2 DEF SetupInspect, Goto
  <2>3. CASE SetupList(c)
    BY <2>3 DEF SetupList, Provisioning, Save, Goto
  <2>4. CASE SetupCreate(c)
    BY <2>4 DEF SetupCreate, Goto
  <2>5. CASE SetupGeneration(c)
    BY <2>5 DEF SetupGeneration, GenerationLeft, Save, Goto
  <2>6. CASE SetupStart(c)
    BY <2>6 DEF SetupStart, Goto
  <2>7. CASE SetupProbe(c)
    BY <2>7 DEF SetupProbe, Release, RegLockWithout
  <2> QED BY <1>5, <2>1, <2>2, <2>3, <2>4, <2>5, <2>6, <2>7
<1>6. ASSUME NEW c \in Clients,
             \/ TeardownInspect(c) \/ TeardownStop(c) \/ TeardownVerify(c)
             \/ TeardownSave(c)
      PROVE  EditorsAreCurrent'
  BY <1>6 DEF TeardownInspect, Stopping, Save, Goto, TeardownStop, Halt, Undone,
     TeardownVerify, TeardownSave, StoppedPhase, Release, RegLockWithout
<1>7. ASSUME NEW c \in Clients,
             \/ DeleteInspect(c) \/ DeleteMark(c) \/ DeleteRemove(c)
             \/ DeleteVerify(c) \/ DeleteLock(c) \/ DeleteRegister(c)
      PROVE  EditorsAreCurrent'
  BY <1>7 DEF DeleteInspect, Goto, DeleteMark, AfterMark, Save, DeleteRemove,
     DeleteVerify, DeleteLock, RegistryFree, DeleteRegister, Release,
     RegLockWithout
<1>8. ASSUME NEW c \in Clients,
             \/ GuestInspect(c) \/ GuestLaunch(c) \/ GuestDone(c)
             \/ ShowRead(c) \/ ShowInspect(c)
      PROVE  EditorsAreCurrent'
  <2>1. CASE GuestInspect(c)
    BY <2>1 DEF GuestInspect, Goto
  <2>2. CASE GuestLaunch(c)
    BY <2>2 DEF GuestLaunch, Goto
  <2>3. CASE GuestDone(c)
    BY <2>3 DEF GuestDone, Release, RegLockWithout
  <2>4. CASE ShowRead(c)
    BY <2>4 DEF ShowRead, Goto
  <2>5. CASE ShowInspect(c)
    BY <2>5 DEF ShowInspect, Release, RegLockWithout
  <2> QED BY <1>8, <2>1, <2>2, <2>3, <2>4, <2>5
<1>9. ASSUME NEW c \in Clients,
             Fail(c) \/ Kill(c)
      PROVE  EditorsAreCurrent'
  <2>1. CASE Fail(c)
    BY <2>1 DEF Fail, Drop, Release, RegLockWithout
  <2>2. CASE Kill(c)
    BY <2>2 DEF Kill, Drop, Release, RegLockWithout
  <2> QED BY <1>9, <2>1, <2>2
<1>10. ASSUME \/ \E l \in late : LateLand(l)
              \/ \E o \in Owners : VmStops(o) \/ VmLost(o)
              \/ \E o \in Owners : \E j \in jobs[o] : JobEnds(o, j)
      PROVE  EditorsAreCurrent'
  BY <1>10 DEF LateLand, VmStops, VmLost, JobEnds, Halt, Undone
<1>11. CASE UNCHANGED vars
  BY <1>11 DEF vars
<1> QED
  BY <1>1, <1>2, <1>3, <1>4, <1>5, <1>6, <1>7, <1>8, <1>9, <1>10, <1>11 DEF Next, Step

\* Nobody learns an owner before it is registered.
LEMMA FreshNext ==
    ASSUME Inv, [Next]_vars
    PROVE  FreshIsPrivate'
<1> USE NoneAssumption
    DEF Inv, TypeInv, TypeOK, ClientShape, FreshIsPrivate, OwnersAreDrawn,
        EditorsAreCurrent, Registries,
        Labels, OwnedSteps, HeldSteps, CreateSteps, SetupSteps, TeardownSteps,
        DeleteSteps, GuestSteps, ShowSteps,
        diskVars, lockVars, providerVars, clientVars, historyVars
<1>1. ASSUME NEW c \in Clients, Begin(c) PROVE FreshIsPrivate'
  BY <1>1 DEF Begin, Goto
<1>2. ASSUME NEW c \in Clients,
             OperationLock(c) \/ Check(c)
      PROVE  FreshIsPrivate'
  <2>1. CASE OperationLock(c)
    BY <2>1 DEF OperationLock, Lockable, TakesShared, Goto
  <2>2. CASE Check(c)
    BY <2>2 DEF Check, CheckRegistered, PhaseAdmits, Goto
  <2> QED BY <1>2, <2>1, <2>2
<1>3. ASSUME NEW c \in Clients,
             CreateLock(c) \/ CreateJournal(c) \/ CreateRegister(c)
      PROVE  FreshIsPrivate'
  <2>1. CASE CreateLock(c)
    BY <2>1 DEF CreateLock, RegistryFree, Release, RegLockWithout, Goto
  <2>2. CASE CreateJournal(c)
    BY <2>2 DEF CreateJournal, FirstJournal, Goto
  <2>3. CASE CreateRegister(c)
    BY <2>3 DEF CreateRegister, Release, RegLockWithout
  <2> QED BY <1>3, <2>1, <2>2, <2>3
<1>4. ASSUME NEW c \in Clients,
             \/ SetupAdmit(c) \/ SetupInspect(c) \/ SetupList(c) \/ SetupCreate(c)
             \/ SetupGeneration(c) \/ SetupStart(c) \/ SetupProbe(c)
      PROVE  FreshIsPrivate'
  <2>1. CASE SetupAdmit(c)
    BY <2>1 DEF SetupAdmit, Goto
  <2>1a. CASE SetupInspect(c)
    <3>1. \E l \in {"s_probe", "s_list"} : pc' = [pc EXCEPT ![c] = l]
      BY <2>1a DEF SetupInspect, Goto
    <3>2. pc[c] = "s_inspect" /\ UNCHANGED <<registry, journal, handle>>
      BY <2>1a DEF SetupInspect
    <3> QED BY <3>1, <3>2
  <2>2. CASE SetupList(c)
    <3>1. pc[c] = "s_list" /\ UNCHANGED <<registry, handle>>
      BY <2>2 DEF SetupList
    <3>2. \E l \in {"s_create", "s_generation"} : pc' = [pc EXCEPT ![c] = l]
      BY <2>2 DEF SetupList, Goto
    <3>3. \A o \in Owners : o # handle[c] => journal'[o] = journal[o]
      BY <2>2 DEF SetupList, Save
    <3> QED BY <3>1, <3>2, <3>3
  <2>3. CASE SetupCreate(c) \/ SetupStart(c)
    BY <2>3 DEF SetupCreate, SetupStart, Goto
  <2>4. CASE SetupGeneration(c)
    <3>1. pc[c] = "s_generation" /\ UNCHANGED <<registry, handle>>
      BY <2>4 DEF SetupGeneration
    <3>2. pc' = [pc EXCEPT ![c] = "s_start"]
      BY <2>4 DEF SetupGeneration, Goto
    <3>3. \A o \in Owners : o # handle[c] => journal'[o] = journal[o]
      BY <2>4 DEF SetupGeneration, Save
    <3> QED BY <3>1, <3>2, <3>3
  <2>5. CASE SetupProbe(c)
    BY <2>5 DEF SetupProbe, Release, RegLockWithout
  <2> QED BY <1>4, <2>1, <2>1a, <2>2, <2>3, <2>4, <2>5
<1>5. ASSUME NEW c \in Clients, TeardownInspect(c) PROVE FreshIsPrivate'
  BY <1>5, SMTT(30) DEF TeardownInspect, Stopping, Save, Goto
<1>6. ASSUME NEW c \in Clients,
             TeardownStop(c) \/ TeardownVerify(c) \/ TeardownSave(c)
      PROVE  FreshIsPrivate'
  <2>1. CASE TeardownStop(c)
    BY <2>1 DEF TeardownStop, Goto
  <2>2. CASE TeardownVerify(c)
    BY <2>2 DEF TeardownVerify, Goto
  <2>3. CASE TeardownSave(c)
    BY <2>3 DEF TeardownSave, StoppedPhase, Release, RegLockWithout
  <2> QED BY <1>6, <2>1, <2>2, <2>3
<1>7. ASSUME NEW c \in Clients,
             \/ DeleteInspect(c) \/ DeleteMark(c) \/ DeleteRemove(c)
             \/ DeleteVerify(c) \/ DeleteLock(c)
      PROVE  FreshIsPrivate'
  BY <1>7 DEF DeleteInspect, Goto, DeleteMark, AfterMark, Save, DeleteRemove,
     DeleteVerify, DeleteLock, RegistryFree
<1>8. ASSUME NEW c \in Clients, DeleteRegister(c) PROVE FreshIsPrivate'
  BY <1>8 DEF DeleteRegister, Release, RegLockWithout
<1>9. ASSUME NEW c \in Clients,
             GuestInspect(c) \/ GuestLaunch(c) \/ ShowRead(c)
      PROVE  FreshIsPrivate'
  <2>1. CASE GuestInspect(c)
    BY <2>1 DEF GuestInspect, Goto
  <2>2. CASE GuestLaunch(c)
    BY <2>2 DEF GuestLaunch, Goto
  <2>3. CASE ShowRead(c)
    BY <2>3 DEF ShowRead, Goto
  <2> QED BY <1>9, <2>1, <2>2, <2>3
<1>10. ASSUME NEW c \in Clients, GuestDone(c) \/ ShowInspect(c) PROVE FreshIsPrivate'
  <2>1. CASE GuestDone(c)
    BY <2>1 DEF GuestDone, Release, RegLockWithout
  <2>2. CASE ShowInspect(c)
    BY <2>2 DEF ShowInspect, Release, RegLockWithout
  <2> QED BY <1>10, <2>1, <2>2
<1>11. ASSUME NEW c \in Clients, Fail(c) PROVE FreshIsPrivate'
  BY <1>11 DEF Fail, MayFail, Waiting, Drop, CallOf, Release, RegLockWithout
<1>12. ASSUME NEW c \in Clients, Kill(c) PROVE FreshIsPrivate'
  BY <1>12 DEF Kill, Waiting, Drop, CallOf, Release, RegLockWithout
<1>13. ASSUME \/ \E l \in late : LateLand(l)
              \/ \E o \in Owners : VmStops(o) \/ VmLost(o)
              \/ \E o \in Owners : \E j \in jobs[o] : JobEnds(o, j)
      PROVE  FreshIsPrivate'
  BY <1>13 DEF LateLand, VmStops, VmLost, JobEnds, Halt, Undone
<1>14. CASE UNCHANGED vars
  BY <1>14 DEF vars
<1> QED
  BY <1>1, <1>2, <1>3, <1>4, <1>5, <1>6, <1>7, <1>8, <1>9, <1>10, <1>11, <1>12,
     <1>13, <1>14 DEF Next, Step

\* An operation keeps its workspace registered.
LEMMA RegisteredNext ==
    ASSUME Inv, [Next]_vars
    PROVE  RegisteredWhileHeld'
<1> USE NoneAssumption
    DEF Inv, TypeInv, TypeOK, ClientShape, RegisteredWhileHeld, RegistryIsInjective,
        LocksHeld,
        EditorsAreCurrent, Registries,
        Labels, OwnedSteps, HeldSteps, CreateSteps, SetupSteps, TeardownSteps,
        DeleteSteps, GuestSteps, ShowSteps,
        diskVars, lockVars, providerVars, clientVars, historyVars
<1>1. ASSUME NEW c \in Clients, Begin(c) PROVE RegisteredWhileHeld'
  BY <1>1 DEF Begin, Goto
<1>2. ASSUME NEW c \in Clients,
             OperationLock(c) \/ Check(c)
      PROVE  RegisteredWhileHeld'
  BY <1>2 DEF OperationLock, Lockable, TakesShared, Goto, Check, CheckRegistered,
     PhaseAdmits
<1>3. ASSUME NEW c \in Clients, CreateLock(c) PROVE RegisteredWhileHeld'
  <2>1. CASE Release(c) /\ UNCHANGED <<diskVars, historyVars>>
    BY <2>1 DEF Release, RegLockWithout
  <2>2. CASE Goto(c, "c_journal") /\ UNCHANGED <<op, target, handle, diskVars, historyVars>>
    BY <1>3, <2>2 DEF CreateLock, Goto
  <2> QED BY <1>3, <2>1, <2>2 DEF CreateLock
<1>4. ASSUME NEW c \in Clients, CreateJournal(c) PROVE RegisteredWhileHeld'
  BY <1>4 DEF CreateJournal, FirstJournal, Goto
<1>5. ASSUME NEW c \in Clients, CreateRegister(c) PROVE RegisteredWhileHeld'
  BY <1>5 DEF CreateRegister, Release, RegLockWithout
<1>6. ASSUME NEW c \in Clients,
             \/ SetupAdmit(c) \/ SetupInspect(c) \/ SetupList(c) \/ SetupCreate(c)
             \/ SetupGeneration(c) \/ SetupStart(c) \/ SetupProbe(c)
      PROVE  RegisteredWhileHeld'
  BY <1>6 DEF SetupAdmit, AdmissionFree, Goto, SetupInspect, SetupList, Save,
     Provisioning, SetupCreate, SetupGeneration, GenerationLeft, SetupStart,
     SetupProbe, Release, RegLockWithout
<1>7. ASSUME NEW c \in Clients,
             \/ TeardownInspect(c) \/ TeardownStop(c) \/ TeardownVerify(c)
             \/ TeardownSave(c)
      PROVE  RegisteredWhileHeld'
  BY <1>7 DEF TeardownInspect, Stopping, Save, Goto, TeardownStop, Halt, Undone,
     TeardownVerify, TeardownSave, StoppedPhase, Release, RegLockWithout
<1>8. ASSUME NEW c \in Clients,
             \/ DeleteInspect(c) \/ DeleteMark(c) \/ DeleteRemove(c)
             \/ DeleteVerify(c) \/ DeleteLock(c)
      PROVE  RegisteredWhileHeld'
  BY <1>8 DEF DeleteInspect, Goto, DeleteMark, AfterMark, Save, DeleteRemove,
     DeleteVerify, DeleteLock, RegistryFree
<1>9. ASSUME NEW c \in Clients, DeleteRegister(c) PROVE RegisteredWhileHeld'
  <2>1. pc' = [pc EXCEPT ![c] = "idle"]
    BY <1>9 DEF DeleteRegister, Release
  <2>2. \A d \in Clients : d # c =>
            pc'[d] = pc[d] /\ target'[d] = target[d] /\ handle'[d] = handle[d]
    BY <1>9 DEF DeleteRegister, Release
  <2>3. registry' = [registry EXCEPT ![target[c]] = None]
    BY <1>9 DEF DeleteRegister, EditorsAreCurrent
  <2>4. \A d \in Clients : d # c /\ pc[d] \in HeldSteps => target[d] # target[c]
    <3> SUFFICES ASSUME NEW d \in Clients, d # c, pc[d] \in HeldSteps, target[d] = target[c]
                 PROVE  FALSE
      OBVIOUS
    <3>1. pc[c] = "d_register" /\ handle[c] \in Owners /\ handle[d] = handle[c]
      BY <1>9 DEF DeleteRegister
    <3>2. exclusive[handle[c]] = c
      BY <3>1
    <3>3. IF op[d] = "exec" THEN d \in shared[handle[c]] ELSE exclusive[handle[c]] = d
      BY <3>1
    <3> HIDE DEF TypeInv, TypeOK, ClientShape, RegisteredWhileHeld, RegistryIsInjective,
                 LocksHeld, EditorsAreCurrent
    <3>4. LocksHeld
      BY DEF Inv
    <3> HIDE DEF Inv
    <3>5. \A o \in Owners : exclusive[o] # None => shared[o] = {}
      BY <3>4, Zenon DEF LocksHeld
    <3>6. shared[handle[c]] = {}
      BY <3>1, <3>2, <3>5
    <3> QED BY <3>2, <3>3, <3>6
  <2> SUFFICES ASSUME NEW d \in Clients, pc'[d] \in HeldSteps'
               PROVE  registry'[target'[d]] = handle'[d]
    BY DEF RegisteredWhileHeld
  <2>5. d # c /\ pc[d] \in HeldSteps
    BY <2>1, <2>2
  <2>6. target[d] # target[c] /\ target[d] \in Names /\ registry[target[d]] = handle[d]
    BY <2>4, <2>5
  <2> QED BY <2>2, <2>3, <2>5, <2>6
<1>10. ASSUME NEW c \in Clients,
             GuestInspect(c) \/ GuestLaunch(c) \/ ShowRead(c)
      PROVE  RegisteredWhileHeld'
  BY <1>10 DEF GuestInspect, Goto, GuestLaunch, ShowRead
<1>11. ASSUME NEW c \in Clients, GuestDone(c) \/ ShowInspect(c) PROVE RegisteredWhileHeld'
  <2>1. CASE GuestDone(c)
    BY <2>1 DEF GuestDone, Release, RegLockWithout
  <2>2. CASE ShowInspect(c)
    BY <2>2 DEF ShowInspect, Release, RegLockWithout
  <2> QED BY <1>11, <2>1, <2>2
<1>12. ASSUME NEW c \in Clients, Fail(c) PROVE RegisteredWhileHeld'
  BY <1>12 DEF Fail, MayFail, Waiting, Drop, CallOf, Release, RegLockWithout
<1>13. ASSUME NEW c \in Clients, Kill(c) PROVE RegisteredWhileHeld'
  BY <1>13 DEF Kill, Waiting, Drop, CallOf, Release, RegLockWithout
<1>14. ASSUME \/ \E l \in late : LateLand(l)
              \/ \E o \in Owners : VmStops(o) \/ VmLost(o)
              \/ \E o \in Owners : \E j \in jobs[o] : JobEnds(o, j)
      PROVE  RegisteredWhileHeld'
  BY <1>14 DEF LateLand, VmStops, VmLost, JobEnds, Halt, Undone
<1>15. CASE UNCHANGED vars
  BY <1>15 DEF vars
<1> QED
  BY <1>1, <1>2, <1>3, <1>4, <1>5, <1>6, <1>7, <1>8, <1>9, <1>10, <1>11, <1>12,
     <1>13, <1>14, <1>15 DEF Next, Step

\* The operation lock keeps copies of the journal current.
LEMMA CopyNext ==
    ASSUME Inv, [Next]_vars
    PROVE  CopyIsCurrent'
<1> USE NoneAssumption
    DEF Inv, TypeInv, TypeOK, ClientShape, CopyIsCurrent, LocksHeld, FreshIsPrivate,
        OwnersAreDrawn,
        Labels, OwnedSteps, HeldSteps, CreateSteps, SetupSteps, TeardownSteps,
        DeleteSteps, GuestSteps, ShowSteps,
        diskVars, lockVars, providerVars, clientVars, historyVars
<1>1. ASSUME NEW c \in Clients, Begin(c) PROVE CopyIsCurrent'
  BY <1>1 DEF Begin, Goto
<1>2. ASSUME NEW c \in Clients,
             OperationLock(c) \/ Check(c)
      PROVE  CopyIsCurrent'
  BY <1>2 DEF OperationLock, Lockable, TakesShared, Goto, Check, CheckRegistered,
     PhaseAdmits
<1>3. ASSUME NEW c \in Clients,
             CreateLock(c) \/ CreateJournal(c) \/ CreateRegister(c)
      PROVE  CopyIsCurrent'
  BY <1>3 DEF CreateLock, RegistryFree, Release, RegLockWithout, Goto,
     CreateJournal, FirstJournal, CreateRegister
<1>4. ASSUME NEW c \in Clients,
             \/ SetupAdmit(c) \/ SetupInspect(c) \/ SetupCreate(c)
             \/ SetupStart(c)
      PROVE  CopyIsCurrent'
  BY <1>4 DEF SetupAdmit, AdmissionFree, Goto, SetupInspect, SetupCreate,
     SetupStart
<1>5. ASSUME NEW c \in Clients, SetupList(c) PROVE CopyIsCurrent'
  BY <1>5 DEF SetupList, Save, Provisioning, Goto
<1>6. ASSUME NEW c \in Clients, SetupGeneration(c) PROVE CopyIsCurrent'
  BY <1>6 DEF SetupGeneration, GenerationLeft, Save, Goto
<1>7. ASSUME NEW c \in Clients, SetupProbe(c) PROVE CopyIsCurrent'
  BY <1>7 DEF SetupProbe, Release, RegLockWithout
<1>8. ASSUME NEW c \in Clients,
             TeardownStop(c) \/ TeardownVerify(c)
      PROVE  CopyIsCurrent'
  BY <1>8 DEF TeardownStop, Halt, Undone, Goto, TeardownVerify
<1>9. ASSUME NEW c \in Clients, TeardownInspect(c) PROVE CopyIsCurrent'
  BY <1>9 DEF TeardownInspect, Stopping, Save, Goto
<1>10. ASSUME NEW c \in Clients, TeardownSave(c) PROVE CopyIsCurrent'
  BY <1>10 DEF TeardownSave, StoppedPhase, Release, RegLockWithout
<1>11. ASSUME NEW c \in Clients,
             \/ DeleteInspect(c) \/ DeleteRemove(c) \/ DeleteVerify(c)
             \/ DeleteLock(c)
      PROVE  CopyIsCurrent'
  BY <1>11 DEF DeleteInspect, Goto, DeleteRemove, DeleteVerify, DeleteLock,
     RegistryFree
<1>12. ASSUME NEW c \in Clients, DeleteMark(c) PROVE CopyIsCurrent'
  BY <1>12 DEF DeleteMark, AfterMark, Save, Goto
<1>13. ASSUME NEW c \in Clients, DeleteRegister(c) PROVE CopyIsCurrent'
  BY <1>13 DEF DeleteRegister, Release, RegLockWithout
<1>14. ASSUME NEW c \in Clients,
             GuestInspect(c) \/ GuestLaunch(c) \/ ShowRead(c)
      PROVE  CopyIsCurrent'
  BY <1>14 DEF GuestInspect, Goto, GuestLaunch, ShowRead
<1>15. ASSUME NEW c \in Clients, GuestDone(c) \/ ShowInspect(c) PROVE CopyIsCurrent'
  BY <1>15, SMTT(30) DEF GuestDone, ShowInspect, Release, RegLockWithout
<1>16. ASSUME NEW c \in Clients, Fail(c) PROVE CopyIsCurrent'
  BY <1>16 DEF Fail, MayFail, Waiting, Drop, CallOf, Release, RegLockWithout
<1>17. ASSUME NEW c \in Clients, Kill(c) PROVE CopyIsCurrent'
  BY <1>17 DEF Kill, Waiting, Drop, CallOf, Release, RegLockWithout
<1>18. ASSUME \/ \E l \in late : LateLand(l)
              \/ \E o \in Owners : VmStops(o) \/ VmLost(o)
              \/ \E o \in Owners : \E j \in jobs[o] : JobEnds(o, j)
      PROVE  CopyIsCurrent'
  BY <1>18 DEF LateLand, VmStops, VmLost, JobEnds, Halt, Undone
<1>19. CASE UNCHANGED vars
  BY <1>19 DEF vars
<1> QED
  BY <1>1, <1>2, <1>3, <1>4, <1>5, <1>6, <1>7, <1>8, <1>9, <1>10, <1>11, <1>12,
     <1>13, <1>14, <1>15, <1>16, <1>17, <1>18, <1>19 DEF Next, Step

\* A shared lock keeps the VM ready.
LEMMA ReadyNext ==
    ASSUME Inv, [Next]_vars
    PROVE  ReadyWhileExecuting'
<1> USE NoneAssumption
    DEF Inv, TypeInv, TypeOK, ClientShape, ReadyWhileExecuting, LocksHeld,
        FreshIsPrivate, OwnersAreDrawn,
        Labels, OwnedSteps, HeldSteps, CreateSteps, SetupSteps, TeardownSteps,
        DeleteSteps, GuestSteps, ShowSteps,
        diskVars, lockVars, providerVars, clientVars, historyVars
<1>1. ASSUME NEW c \in Clients, Begin(c) PROVE ReadyWhileExecuting'
  BY <1>1 DEF Begin, Goto
<1>2. ASSUME NEW c \in Clients,
             OperationLock(c) \/ Check(c)
      PROVE  ReadyWhileExecuting'
  BY <1>2 DEF OperationLock, Lockable, TakesShared, Goto, Check, CheckRegistered,
     PhaseAdmits
<1>3. ASSUME NEW c \in Clients,
             CreateLock(c) \/ CreateJournal(c) \/ CreateRegister(c)
      PROVE  ReadyWhileExecuting'
  BY <1>3 DEF CreateLock, RegistryFree, Release, RegLockWithout, Goto,
     CreateJournal, FirstJournal, CreateRegister
<1>4. ASSUME NEW c \in Clients,
             \/ SetupAdmit(c) \/ SetupInspect(c) \/ SetupCreate(c)
             \/ SetupStart(c)
      PROVE  ReadyWhileExecuting'
  BY <1>4 DEF SetupAdmit, AdmissionFree, Goto, SetupInspect, SetupCreate,
     SetupStart
<1>5. ASSUME NEW c \in Clients, SetupList(c) PROVE ReadyWhileExecuting'
  BY <1>5 DEF SetupList, Save, Provisioning, Goto
<1>6. ASSUME NEW c \in Clients, SetupGeneration(c) PROVE ReadyWhileExecuting'
  BY <1>6 DEF SetupGeneration, GenerationLeft, Save, Goto
<1>7. ASSUME NEW c \in Clients, SetupProbe(c) PROVE ReadyWhileExecuting'
  BY <1>7 DEF SetupProbe, Release, RegLockWithout
<1>8. ASSUME NEW c \in Clients,
             TeardownStop(c) \/ TeardownVerify(c)
      PROVE  ReadyWhileExecuting'
  BY <1>8 DEF TeardownStop, Halt, Undone, Goto, TeardownVerify
<1>9. ASSUME NEW c \in Clients, TeardownInspect(c) PROVE ReadyWhileExecuting'
  BY <1>9 DEF TeardownInspect, Stopping, Save, Goto
<1>10. ASSUME NEW c \in Clients, TeardownSave(c) PROVE ReadyWhileExecuting'
  BY <1>10 DEF TeardownSave, StoppedPhase, Release, RegLockWithout
<1>11. ASSUME NEW c \in Clients,
             \/ DeleteInspect(c) \/ DeleteRemove(c) \/ DeleteVerify(c)
             \/ DeleteLock(c)
      PROVE  ReadyWhileExecuting'
  BY <1>11 DEF DeleteInspect, Goto, DeleteRemove, DeleteVerify, DeleteLock,
     RegistryFree
<1>12. ASSUME NEW c \in Clients, DeleteMark(c) PROVE ReadyWhileExecuting'
  BY <1>12 DEF DeleteMark, AfterMark, Save, Goto
<1>13. ASSUME NEW c \in Clients, DeleteRegister(c) PROVE ReadyWhileExecuting'
  BY <1>13 DEF DeleteRegister, Release, RegLockWithout
<1>14. ASSUME NEW c \in Clients,
             GuestInspect(c) \/ GuestLaunch(c) \/ ShowRead(c)
      PROVE  ReadyWhileExecuting'
  BY <1>14 DEF GuestInspect, Goto, GuestLaunch, ShowRead
<1>15. ASSUME NEW c \in Clients, GuestDone(c) \/ ShowInspect(c) PROVE ReadyWhileExecuting'
  BY <1>15 DEF GuestDone, ShowInspect, Release, RegLockWithout
<1>16. ASSUME NEW c \in Clients, Fail(c) PROVE ReadyWhileExecuting'
  BY <1>16 DEF Fail, MayFail, Waiting, Drop, CallOf, Release, RegLockWithout
<1>17. ASSUME NEW c \in Clients, Kill(c) PROVE ReadyWhileExecuting'
  BY <1>17 DEF Kill, Waiting, Drop, CallOf, Release, RegLockWithout
<1>18. ASSUME \/ \E l \in late : LateLand(l)
              \/ \E o \in Owners : VmStops(o) \/ VmLost(o)
              \/ \E o \in Owners : \E j \in jobs[o] : JobEnds(o, j)
      PROVE  ReadyWhileExecuting'
  BY <1>18 DEF LateLand, VmStops, VmLost, JobEnds, Halt, Undone
<1>19. CASE UNCHANGED vars
  BY <1>19 DEF vars
<1> QED
  BY <1>1, <1>2, <1>3, <1>4, <1>5, <1>6, <1>7, <1>8, <1>9, <1>10, <1>11, <1>12,
     <1>13, <1>14, <1>15, <1>16, <1>17, <1>18, <1>19 DEF Next, Step

\* Deletion is marked before anything is removed.
LEMMA DeletionNext ==
    ASSUME Inv, [Next]_vars
    PROVE  DeletionMarked'
<1> USE NoneAssumption, PhaseFields
    DEF Inv, TypeInv, TypeOK, ClientShape, DeletionMarked, CopyIsCurrent, LocksHeld,
        FreshIsPrivate,
        OwnersAreDrawn,
        Labels, OwnedSteps, HeldSteps, CreateSteps, SetupSteps, TeardownSteps,
        DeleteSteps, GuestSteps, ShowSteps,
        diskVars, lockVars, providerVars, clientVars, historyVars
<1>1. ASSUME NEW c \in Clients, Begin(c) PROVE DeletionMarked'
  BY <1>1 DEF Begin, Goto
<1>2. ASSUME NEW c \in Clients,
             OperationLock(c) \/ Check(c)
      PROVE  DeletionMarked'
  BY <1>2 DEF OperationLock, Lockable, TakesShared, Goto, Check, CheckRegistered,
     PhaseAdmits
<1>3. ASSUME NEW c \in Clients,
             CreateLock(c) \/ CreateJournal(c) \/ CreateRegister(c)
      PROVE  DeletionMarked'
  BY <1>3 DEF CreateLock, RegistryFree, Release, RegLockWithout, Goto,
     CreateJournal, FirstJournal, CreateRegister
<1>4. ASSUME NEW c \in Clients,
             \/ SetupAdmit(c) \/ SetupInspect(c) \/ SetupCreate(c)
             \/ SetupStart(c)
      PROVE  DeletionMarked'
  BY <1>4 DEF SetupAdmit, AdmissionFree, Goto, SetupInspect, SetupCreate,
     SetupStart
<1>5. ASSUME NEW c \in Clients, SetupList(c) PROVE DeletionMarked'
  <2>1. Provisioning(c).phase = "provisioning"
    BY DEF Provisioning, Journals
  <2>2. CASE /\ Save(c, Provisioning(c)) /\ Goto(c, "s_create")
             /\ attempted' = attempted \cup {handle[c]}
    BY <1>5, <2>1, <2>2 DEF SetupList, Save, Goto
  <2>3. CASE Goto(c, "s_generation") /\ UNCHANGED <<copy, journal, attempted>>
    BY <1>5, <2>3 DEF SetupList, Goto
  <2> QED BY <1>5, <2>2, <2>3 DEF SetupList
<1>6. ASSUME NEW c \in Clients, SetupGeneration(c) PROVE DeletionMarked'
  BY <1>6 DEF SetupGeneration, GenerationLeft, Save, Goto
<1>7. ASSUME NEW c \in Clients, SetupProbe(c) PROVE DeletionMarked'
  BY <1>7 DEF SetupProbe, Release, RegLockWithout
<1>8. ASSUME NEW c \in Clients,
             TeardownStop(c) \/ TeardownVerify(c)
      PROVE  DeletionMarked'
  BY <1>8 DEF TeardownStop, Halt, Undone, Goto, TeardownVerify
<1>9. ASSUME NEW c \in Clients, TeardownInspect(c) PROVE DeletionMarked'
  <2>1. Stopping(c).phase = "stopping"
    BY DEF Stopping, Journals
  <2>2. CASE Save(c, Stopping(c)) /\ Goto(c, "t_stop")
    BY <1>9, <2>1, <2>2 DEF TeardownInspect, Save, Goto
  <2>3. CASE Goto(c, "t_save") /\ UNCHANGED <<copy, journal>>
    BY <1>9, <2>3 DEF TeardownInspect, Goto
  <2> QED BY <1>9, <2>2, <2>3 DEF TeardownInspect
<1>10. ASSUME NEW c \in Clients, TeardownSave(c) PROVE DeletionMarked'
  BY <1>10 DEF TeardownSave, StoppedPhase, Release, RegLockWithout
<1>11. ASSUME NEW c \in Clients,
             \/ DeleteInspect(c) \/ DeleteRemove(c) \/ DeleteVerify(c)
             \/ DeleteLock(c)
      PROVE  DeletionMarked'
  BY <1>11 DEF DeleteInspect, Goto, DeleteRemove, DeleteVerify, DeleteLock,
     RegistryFree
<1>12. ASSUME NEW c \in Clients, DeleteMark(c) PROVE DeletionMarked'
  BY <1>12 DEF DeleteMark, AfterMark, Save, Goto
<1>13. ASSUME NEW c \in Clients, DeleteRegister(c) PROVE DeletionMarked'
  BY <1>13 DEF DeleteRegister, Release, RegLockWithout
<1>14. ASSUME NEW c \in Clients,
             GuestInspect(c) \/ GuestLaunch(c) \/ ShowRead(c)
      PROVE  DeletionMarked'
  BY <1>14 DEF GuestInspect, Goto, GuestLaunch, ShowRead
<1>15. ASSUME NEW c \in Clients, GuestDone(c) \/ ShowInspect(c) PROVE DeletionMarked'
  BY <1>15 DEF GuestDone, ShowInspect, Release, RegLockWithout
<1>16. ASSUME NEW c \in Clients, Fail(c) PROVE DeletionMarked'
  BY <1>16 DEF Fail, MayFail, Waiting, Drop, CallOf, Release, RegLockWithout
<1>17. ASSUME NEW c \in Clients, Kill(c) PROVE DeletionMarked'
  BY <1>17 DEF Kill, Waiting, Drop, CallOf, Release, RegLockWithout
<1>18. ASSUME \/ \E l \in late : LateLand(l)
              \/ \E o \in Owners : VmStops(o) \/ VmLost(o)
              \/ \E o \in Owners : \E j \in jobs[o] : JobEnds(o, j)
      PROVE  DeletionMarked'
  BY <1>18 DEF LateLand, VmStops, VmLost, JobEnds, Halt, Undone
<1>19. CASE UNCHANGED vars
  BY <1>19 DEF vars
<1> QED
  BY <1>1, <1>2, <1>3, <1>4, <1>5, <1>6, <1>7, <1>8, <1>9, <1>10, <1>11, <1>12,
     <1>13, <1>14, <1>15, <1>16, <1>17, <1>18, <1>19 DEF Next, Step

\* The journal says "provisioning" before a create is sent.
LEMMA UntouchedNext ==
    ASSUME Inv, [Next]_vars
    PROVE  CreatedMeansUntouched'
<1> USE NoneAssumption, PhaseFields
    DEF Inv, TypeInv, TypeOK, ClientShape, CreatedMeansUntouched, CopyIsCurrent,
        OwnersAreDrawn,
        Labels, OwnedSteps, HeldSteps, CreateSteps, SetupSteps, TeardownSteps,
        DeleteSteps, GuestSteps, ShowSteps,
        diskVars, lockVars, providerVars, clientVars, historyVars
<1>1. ASSUME NEW c \in Clients, Begin(c) PROVE CreatedMeansUntouched'
  BY <1>1 DEF Begin, Goto
<1>2. ASSUME NEW c \in Clients,
             OperationLock(c) \/ Check(c)
      PROVE  CreatedMeansUntouched'
  BY <1>2 DEF OperationLock, Lockable, TakesShared, Goto, Check, CheckRegistered,
     PhaseAdmits
<1>3. ASSUME NEW c \in Clients,
             CreateLock(c) \/ CreateJournal(c) \/ CreateRegister(c)
      PROVE  CreatedMeansUntouched'
  BY <1>3 DEF CreateLock, RegistryFree, Release, RegLockWithout, Goto,
     CreateJournal, FirstJournal, CreateRegister
<1>4. ASSUME NEW c \in Clients,
             \/ SetupAdmit(c) \/ SetupInspect(c) \/ SetupCreate(c)
             \/ SetupStart(c)
      PROVE  CreatedMeansUntouched'
  BY <1>4 DEF SetupAdmit, AdmissionFree, Goto, SetupInspect, SetupCreate,
     SetupStart
<1>5. ASSUME NEW c \in Clients, SetupList(c) PROVE CreatedMeansUntouched'
  <2>1. Provisioning(c).phase = "provisioning"
    BY DEF Provisioning, Journals
  <2>2. CASE /\ Save(c, Provisioning(c)) /\ Goto(c, "s_create")
             /\ attempted' = attempted \cup {handle[c]}
    BY <1>5, <2>1, <2>2 DEF SetupList, Save, Goto
  <2>3. CASE Goto(c, "s_generation") /\ UNCHANGED <<copy, journal, attempted>>
    BY <1>5, <2>3 DEF SetupList, Goto
  <2> QED BY <1>5, <2>2, <2>3 DEF SetupList
<1>6. ASSUME NEW c \in Clients, SetupGeneration(c) PROVE CreatedMeansUntouched'
  BY <1>6 DEF SetupGeneration, GenerationLeft, Save, Goto
<1>7. ASSUME NEW c \in Clients, SetupProbe(c) PROVE CreatedMeansUntouched'
  BY <1>7 DEF SetupProbe, Release, RegLockWithout
<1>8. ASSUME NEW c \in Clients,
             TeardownStop(c) \/ TeardownVerify(c)
      PROVE  CreatedMeansUntouched'
  BY <1>8 DEF TeardownStop, Halt, Undone, Goto, TeardownVerify
<1>9. ASSUME NEW c \in Clients, TeardownInspect(c) PROVE CreatedMeansUntouched'
  <2>1. Stopping(c).phase = "stopping"
    BY DEF Stopping, Journals
  <2>2. CASE Save(c, Stopping(c)) /\ Goto(c, "t_stop")
    BY <1>9, <2>1, <2>2 DEF TeardownInspect, Save, Goto
  <2>3. CASE Goto(c, "t_save") /\ UNCHANGED <<copy, journal>>
    BY <1>9, <2>3 DEF TeardownInspect, Goto
  <2> QED BY <1>9, <2>2, <2>3 DEF TeardownInspect
<1>10. ASSUME NEW c \in Clients, TeardownSave(c) PROVE CreatedMeansUntouched'
  BY <1>10 DEF TeardownSave, StoppedPhase, Release, RegLockWithout
<1>11. ASSUME NEW c \in Clients,
             \/ DeleteInspect(c) \/ DeleteRemove(c) \/ DeleteVerify(c)
             \/ DeleteLock(c)
      PROVE  CreatedMeansUntouched'
  BY <1>11 DEF DeleteInspect, Goto, DeleteRemove, DeleteVerify, DeleteLock,
     RegistryFree
<1>12. ASSUME NEW c \in Clients, DeleteMark(c) PROVE CreatedMeansUntouched'
  BY <1>12 DEF DeleteMark, AfterMark, Save, Goto
<1>13. ASSUME NEW c \in Clients, DeleteRegister(c) PROVE CreatedMeansUntouched'
  BY <1>13 DEF DeleteRegister, Release, RegLockWithout
<1>14. ASSUME NEW c \in Clients,
             GuestInspect(c) \/ GuestLaunch(c) \/ ShowRead(c)
      PROVE  CreatedMeansUntouched'
  BY <1>14 DEF GuestInspect, Goto, GuestLaunch, ShowRead
<1>15. ASSUME NEW c \in Clients, GuestDone(c) \/ ShowInspect(c) PROVE CreatedMeansUntouched'
  BY <1>15, SMTT(30) DEF GuestDone, ShowInspect, Release, RegLockWithout
<1>16. ASSUME NEW c \in Clients, Fail(c) PROVE CreatedMeansUntouched'
  BY <1>16 DEF Fail, MayFail, Waiting, Drop, CallOf, Release, RegLockWithout
<1>17. ASSUME NEW c \in Clients, Kill(c) PROVE CreatedMeansUntouched'
  BY <1>17 DEF Kill, Waiting, Drop, CallOf, Release, RegLockWithout
<1>18. ASSUME \/ \E l \in late : LateLand(l)
              \/ \E o \in Owners : VmStops(o) \/ VmLost(o)
              \/ \E o \in Owners : \E j \in jobs[o] : JobEnds(o, j)
      PROVE  CreatedMeansUntouched'
  BY <1>18 DEF LateLand, VmStops, VmLost, JobEnds, Halt, Undone
<1>19. CASE UNCHANGED vars
  BY <1>19 DEF vars
<1> QED
  BY <1>1, <1>2, <1>3, <1>4, <1>5, <1>6, <1>7, <1>8, <1>9, <1>10, <1>11, <1>12,
     <1>13, <1>14, <1>15, <1>16, <1>17, <1>18, <1>19 DEF Next, Step

\* A journal is written before the record, and is never erased.
LEMMA JournalNext ==
    ASSUME Inv, [Next]_vars
    PROVE  FreshVmHasJournal'
<1> USE NoneAssumption, PhaseFields
    DEF Inv, TypeInv, TypeOK, ClientShape, FreshVmHasJournal, Registered, EditorsAreCurrent,
        FreshIsPrivate, OwnersAreDrawn, Registries,
        Labels, OwnedSteps, HeldSteps, CreateSteps, SetupSteps, TeardownSteps,
        DeleteSteps, GuestSteps, ShowSteps,
        diskVars, lockVars, providerVars, clientVars, historyVars
<1>1. ASSUME NEW c \in Clients, Begin(c) PROVE FreshVmHasJournal'
  BY <1>1 DEF Begin, Goto
<1>2. ASSUME NEW c \in Clients,
             OperationLock(c) \/ Check(c)
      PROVE  FreshVmHasJournal'
  BY <1>2 DEF OperationLock, Lockable, TakesShared, Goto, Check, CheckRegistered,
     PhaseAdmits
<1>3. ASSUME NEW c \in Clients, CreateLock(c) PROVE FreshVmHasJournal'
  BY <1>3 DEF CreateLock, RegistryFree, Release, RegLockWithout, Goto
<1>4. ASSUME NEW c \in Clients, CreateJournal(c) PROVE FreshVmHasJournal'
  BY <1>4 DEF CreateJournal, FirstJournal, Goto
<1>5. ASSUME NEW c \in Clients, CreateRegister(c) PROVE FreshVmHasJournal'
  BY <1>5 DEF CreateRegister, Release, RegLockWithout
<1>6. ASSUME NEW c \in Clients,
             \/ SetupAdmit(c) \/ SetupInspect(c) \/ SetupCreate(c)
             \/ SetupStart(c)
      PROVE  FreshVmHasJournal'
  BY <1>6 DEF SetupAdmit, AdmissionFree, Goto, SetupInspect, SetupCreate,
     SetupStart
<1>7. ASSUME NEW c \in Clients, SetupList(c) PROVE FreshVmHasJournal'
  <2>1. Provisioning(c).phase = "provisioning"
    BY DEF Provisioning, Journals
  <2>2. CASE /\ Save(c, Provisioning(c)) /\ Goto(c, "s_create")
             /\ attempted' = attempted \cup {handle[c]}
    BY <1>7, <2>1, <2>2 DEF SetupList, Save, Goto
  <2>3. CASE Goto(c, "s_generation") /\ UNCHANGED <<copy, journal, attempted>>
    BY <1>7, <2>3 DEF SetupList, Goto
  <2> QED BY <1>7, <2>2, <2>3 DEF SetupList
<1>8. ASSUME NEW c \in Clients, SetupGeneration(c) PROVE FreshVmHasJournal'
  BY <1>8 DEF SetupGeneration, GenerationLeft, Save, Goto
<1>9. ASSUME NEW c \in Clients, SetupProbe(c) PROVE FreshVmHasJournal'
  BY <1>9 DEF SetupProbe, Release, RegLockWithout
<1>10. ASSUME NEW c \in Clients,
             TeardownStop(c) \/ TeardownVerify(c)
      PROVE  FreshVmHasJournal'
  BY <1>10 DEF TeardownStop, Halt, Undone, Goto, TeardownVerify
<1>11. ASSUME NEW c \in Clients, TeardownInspect(c) PROVE FreshVmHasJournal'
  <2>1. Stopping(c).phase = "stopping"
    BY DEF Stopping, Journals
  <2>2. CASE Save(c, Stopping(c)) /\ Goto(c, "t_stop")
    BY <1>11, <2>1, <2>2 DEF TeardownInspect, Save, Goto
  <2>3. CASE Goto(c, "t_save") /\ UNCHANGED <<copy, journal>>
    BY <1>11, <2>3 DEF TeardownInspect, Goto
  <2> QED BY <1>11, <2>2, <2>3 DEF TeardownInspect
<1>12. ASSUME NEW c \in Clients, TeardownSave(c) PROVE FreshVmHasJournal'
  BY <1>12 DEF TeardownSave, StoppedPhase, Release, RegLockWithout
<1>13. ASSUME NEW c \in Clients,
             \/ DeleteInspect(c) \/ DeleteRemove(c) \/ DeleteVerify(c)
             \/ DeleteLock(c)
      PROVE  FreshVmHasJournal'
  BY <1>13 DEF DeleteInspect, Goto, DeleteRemove, DeleteVerify, DeleteLock,
     RegistryFree
<1>14. ASSUME NEW c \in Clients, DeleteMark(c) PROVE FreshVmHasJournal'
  BY <1>14 DEF DeleteMark, AfterMark, Save, Goto
<1>15. ASSUME NEW c \in Clients, DeleteRegister(c) PROVE FreshVmHasJournal'
  BY <1>15 DEF DeleteRegister, Release, RegLockWithout
<1>16. ASSUME NEW c \in Clients,
             GuestInspect(c) \/ GuestLaunch(c) \/ ShowRead(c)
      PROVE  FreshVmHasJournal'
  BY <1>16 DEF GuestInspect, Goto, GuestLaunch, ShowRead
<1>17. ASSUME NEW c \in Clients, GuestDone(c) \/ ShowInspect(c) PROVE FreshVmHasJournal'
  BY <1>17 DEF GuestDone, ShowInspect, Release, RegLockWithout
<1>18. ASSUME NEW c \in Clients, Fail(c) PROVE FreshVmHasJournal'
  BY <1>18 DEF Fail, MayFail, Waiting, Drop, CallOf, Release, RegLockWithout
<1>19. ASSUME NEW c \in Clients, Kill(c) PROVE FreshVmHasJournal'
  BY <1>19 DEF Kill, Waiting, Drop, CallOf, Release, RegLockWithout
<1>20. ASSUME \/ \E l \in late : LateLand(l)
              \/ \E o \in Owners : VmStops(o) \/ VmLost(o)
              \/ \E o \in Owners : \E j \in jobs[o] : JobEnds(o, j)
      PROVE  FreshVmHasJournal'
  BY <1>20 DEF LateLand, VmStops, VmLost, JobEnds, Halt, Undone
<1>21. CASE UNCHANGED vars
  BY <1>21 DEF vars
<1> QED
  BY <1>1, <1>2, <1>3, <1>4, <1>5, <1>6, <1>7, <1>8, <1>9, <1>10, <1>11, <1>12,
     <1>13, <1>14, <1>15, <1>16, <1>17, <1>18, <1>19, <1>20, <1>21 DEF Next, Step

\* show's copy comes from one read, and only that read says what was known.
LEMMA ShowNext ==
    ASSUME Inv, [Next]_vars
    PROVE  ShowRemembers'
<1> USE DEF ShowRemembers, clientVars
<1>0. /\ pc \in [Clients -> Labels] /\ copy \in [Clients -> Journals]
      /\ known \in [Clients -> BOOLEAN]
  BY DEF Inv, TypeInv, TypeOK
<1>1. ASSUME NEW c \in Clients, Begin(c) \/ Step(c) \/ Fail(c) \/ Kill(c)
      PROVE  ShowRemembers'
  <2> SUFFICES ASSUME NEW d \in Clients, pc'[d] = "w_inspect", known'[d]
               PROVE  copy'[d].phase # "created"
    OBVIOUS
  <2>1. CASE ShowRead(c)
    <3>1. d # c => pc'[d] = pc[d] /\ copy'[d] = copy[d] /\ known'[d] = known[d]
      BY <1>0, <2>1 DEF ShowRead, Goto
    <3>2. d = c => copy'[d] = journal[handle[d]] /\ handle[d] \in attempted
      BY <1>0, <2>1 DEF ShowRead
    <3> QED BY <3>1, <3>2 DEF Inv, CreatedMeansUntouched
  <2>2. CASE ~ShowRead(c)
    <3>1. d # c
      BY <1>0, <1>1, <2>2
      DEF Begin, Step, Fail, Kill, Drop, Release, Goto, Save,
         OperationLock, Check, CreateLock, CreateJournal, CreateRegister, SetupAdmit,
         SetupInspect, SetupList, SetupCreate, SetupGeneration, SetupStart, SetupProbe,
         TeardownInspect, TeardownStop, TeardownVerify, TeardownSave, DeleteInspect,
         DeleteMark, AfterMark, DeleteRemove, DeleteVerify, DeleteLock, DeleteRegister,
         GuestInspect, GuestLaunch, GuestDone, ShowInspect
    <3> DEFINE Kept == /\ pc'[d] = pc[d] /\ copy'[d] = copy[d]
                       /\ known'[d] = known[d]
    <3>2. ASSUME Begin(c) PROVE Kept
      BY <1>0, <3>1, <3>2
      DEF Begin, Goto
    <3>3. ASSUME OperationLock(c) \/ Check(c)
          PROVE  Kept
      BY <1>0, <3>1, <3>3
      DEF OperationLock, Check, Goto
    <3>4. ASSUME CreateLock(c) \/ CreateJournal(c) \/ CreateRegister(c)
          PROVE  Kept
      BY <1>0, <3>1, <3>4
      DEF CreateLock, CreateJournal, CreateRegister, Goto, Release
    <3>5. ASSUME SetupAdmit(c) \/ SetupInspect(c) \/ SetupList(c) \/ SetupCreate(c)
          PROVE  Kept
      BY <1>0, <3>1, <3>5
      DEF SetupAdmit, SetupInspect, SetupList, SetupCreate, Goto, Save
    <3>6. ASSUME SetupGeneration(c) \/ SetupStart(c) \/ SetupProbe(c)
          PROVE  Kept
      BY <1>0, <3>1, <3>6
      DEF SetupGeneration, SetupStart, SetupProbe, Goto, Save, Release
    <3>7. ASSUME TeardownInspect(c) \/ TeardownStop(c) \/ TeardownVerify(c)
          PROVE  Kept
      BY <1>0, <3>1, <3>7
      DEF TeardownInspect, TeardownStop, TeardownVerify, Goto, Save
    <3>8. ASSUME DeleteInspect(c) \/ DeleteMark(c) \/ DeleteRemove(c)
          PROVE  Kept
      BY <1>0, <3>1, <3>8
      DEF DeleteInspect, DeleteMark, DeleteRemove, Goto, Save
    <3>9. ASSUME DeleteVerify(c) \/ DeleteLock(c) \/ GuestInspect(c) \/ GuestLaunch(c)
          PROVE  Kept
      BY <1>0, <3>1, <3>9
      DEF DeleteVerify, DeleteLock, GuestInspect, GuestLaunch, Goto
    <3>10. ASSUME TeardownSave(c) \/ DeleteRegister(c) \/ GuestDone(c) \/ ShowInspect(c)
          PROVE  Kept
      BY <1>0, <3>1, <3>10
      DEF TeardownSave, DeleteRegister, GuestDone, ShowInspect, Release
    <3>11. ASSUME Fail(c) \/ Kill(c) PROVE Kept
      BY <1>0, <3>1, <3>11
      DEF Fail, Kill, Drop, Release
    <3>12. Kept
      BY <1>1, <2>2, <3>2, <3>3, <3>4, <3>5, <3>6, <3>7, <3>8, <3>9, <3>10, <3>11
      DEF Step
    <3> QED BY <3>12, SMTT(30) DEF Inv
  <2> QED BY <2>1, <2>2
<1>2. ASSUME \/ \E l \in late : LateLand(l)
             \/ \E o \in Owners : VmStops(o) \/ VmLost(o)
             \/ \E o \in Owners : \E j \in jobs[o] : JobEnds(o, j)
      PROVE  ShowRemembers'
  BY <1>2 DEF Inv, LateLand, VmStops, VmLost, JobEnds
<1>3. CASE UNCHANGED vars
  BY <1>3 DEF Inv, vars
<1> QED BY <1>1, <1>2, <1>3 DEF Next

-----------------------------------------------------------------------------
(* The theorems                                                            *)

\* The invariant holds initially.
LEMMA InvInit == Init => Inv
<1> SUFFICES ASSUME Init PROVE Inv OBVIOUS
<1>1. TypeInv BY TypeInit
<1>2. \A c \in Clients : pc[c] = "idle" BY DEF Init
<1>3. LocksHeld
  BY <1>2 DEF Init, LocksHeld, HeldSteps, SetupSteps, TeardownSteps, DeleteSteps,
     GuestSteps
<1>4. RegistryIsInjective BY DEF Init, RegistryIsInjective
<1>5. OwnersAreDrawn
  BY <1>2 DEF Init, OwnersAreDrawn, Registered, Registries, OwnedSteps, HeldSteps,
     SetupSteps, TeardownSteps, DeleteSteps, GuestSteps, ShowSteps
<1>6. EditorsAreCurrent /\ FreshIsPrivate
  BY <1>2 DEF EditorsAreCurrent, FreshIsPrivate
<1>7. RegisteredWhileHeld /\ CopyIsCurrent /\ ReadyWhileExecuting /\ DeletionMarked
  BY <1>2 DEF RegisteredWhileHeld, CopyIsCurrent, ReadyWhileExecuting, DeletionMarked,
     HeldSteps, SetupSteps, TeardownSteps, DeleteSteps, GuestSteps
<1>8. CreatedMeansUntouched BY <1>2 DEF Init, CreatedMeansUntouched, Legacy
<1>9. FreshVmHasJournal BY DEF Init, FreshVmHasJournal
<1>10. UndrawnIsBlank BY DEF Init, UndrawnIsBlank
<1>11. ShowRemembers BY <1>2 DEF ShowRemembers
<1> QED
  BY <1>1, <1>3, <1>4, <1>5, <1>6, <1>7, <1>8, <1>9, <1>10, <1>11 DEF Inv

\* Every step keeps the invariant.
LEMMA InvNext == Inv /\ [Next]_vars => Inv'
BY TypeNext, LocksNext, InjectiveNext, DrawnNext, BlankNext, EditorsNext, FreshNext,
   RegisteredNext, CopyNext, ReadyNext, DeletionNext, UntouchedNext, ShowNext,
   JournalNext
DEF Inv

\* So it holds in every reachable state.
LEMMA Invariance == Spec => []Inv
BY InvInit, InvNext, PTL DEF Spec

\* Type correctness of every reachable state.
THEOREM TypeCorrect == Spec => []TypeOK
<1>1. Inv => TypeOK BY DEF Inv, TypeInv
<1> QED BY <1>1, Invariance, PTL

\* An operation past its checks works on the registered VM until it ends.
THEOREM RegistrationIsHeld == Spec => []RegisteredWhileHeld
<1>1. Inv => RegisteredWhileHeld BY DEF Inv
<1> QED BY <1>1, Invariance, PTL

\* The journal value setup and teardown carry is never stale.
THEOREM CopiesAreCurrent == Spec => []CopyIsCurrent
<1>1. Inv => CopyIsCurrent BY DEF Inv
<1> QED BY <1>1, Invariance, PTL

\* exec and import see a ready VM to the end.
THEOREM ReadinessIsHeld == Spec => []ReadyWhileExecuting
<1>1. Inv => ReadyWhileExecuting BY DEF Inv
<1> QED BY <1>1, Invariance, PTL

\* What an operation goes by while it holds the workspace's lock stays true.
THEOREM HandlesAreValid == Spec => []HandlesStayValid
<1>1. RegisteredWhileHeld /\ CopyIsCurrent /\ ReadyWhileExecuting => HandlesStayValid
  BY DEF HandlesStayValid
<1> QED
  BY <1>1, RegistrationIsHeld, CopiesAreCurrent, ReadinessIsHeld, PTL

\* A crash in create leaves no registered VM without a journal.
THEOREM JournalComesFirst == Spec => []FreshVmHasJournal
<1>1. Inv => FreshVmHasJournal BY DEF Inv
<1> QED BY <1>1, Invariance, PTL

\* `workspace show` never presents as a fresh workspace a VM that it read the
\* journal of after a create had been sent, and that has no instance any more.
THEOREM LossIsShown == Spec => []ShowNeverHidesLoss
<1>1. Inv => ShowNeverHidesLoss
  <2> SUFFICES ASSUME Inv, NEW c \in Clients, pc[c] = "w_inspect", known[c],
                      instance[handle[c]] = "absent"
               PROVE  Status(c) \in {"missing", "deleting"}
    BY DEF ShowNeverHidesLoss
  <2>1. copy[c].phase # "created" BY DEF Inv, ShowRemembers
  <2>2. CASE copy[c].phase = "deleting" BY <2>2 DEF Status
  <2>3. CASE copy[c].phase # "deleting" BY <2>1, <2>3 DEF Status
  <2> QED BY <2>2, <2>3
<1> QED BY <1>1, Invariance, PTL

\* Neither history is taken for a more harmless one.
THEOREM LossesAreVisible == Spec => []LossIsVisible
<1>1. FreshVmHasJournal /\ ShowNeverHidesLoss => LossIsVisible
  BY DEF LossIsVisible
<1> QED BY <1>1, JournalComesFirst, LossIsShown, PTL

\* A second provider create is sent only on request.
THEOREM ReplacementNeedsConsent == Spec => NoSilentReplacement
<1> DEFINE Act == \A c \in Clients :
        pc[c] # "s_create" /\ pc'[c] = "s_create" /\ handle[c] \in attempted
            => consent[c]
<1>1. Inv /\ [Next]_vars => [Act]_vars
  <2> SUFFICES ASSUME Inv, Next, NEW c \in Clients, pc[c] # "s_create",
                      pc'[c] = "s_create", handle[c] \in attempted
               PROVE  consent[c]
    OBVIOUS
  <2> USE DEF Inv, TypeInv, TypeOK, clientVars
  <2>1. SetupList(c)
    <3>1. ASSUME NEW d \in Clients, Begin(d) \/ Step(d) \/ Fail(d) \/ Kill(d)
          PROVE  SetupList(c)
      BY <3>1 DEF Begin, Step, Fail, Kill, Drop, Release, Goto, OperationLock, Check,
         CreateLock, CreateJournal, CreateRegister, SetupAdmit, SetupInspect, SetupList,
         SetupCreate, SetupGeneration, SetupStart, SetupProbe, TeardownInspect,
         TeardownStop, TeardownVerify, TeardownSave, DeleteInspect, DeleteMark,
         AfterMark, DeleteRemove, DeleteVerify, DeleteLock, DeleteRegister,
         GuestInspect, GuestLaunch, GuestDone, ShowRead, ShowInspect
    <3>2. ASSUME NEW l \in late, LateLand(l) PROVE FALSE
      BY <3>2 DEF LateLand
    <3>3. ASSUME NEW o \in Owners, VmStops(o) \/ VmLost(o) PROVE FALSE
      BY <3>3 DEF VmStops, VmLost
    <3>4. ASSUME NEW o \in Owners, NEW j \in jobs[o], JobEnds(o, j) PROVE FALSE
      BY <3>4 DEF JobEnds
    <3> QED BY <3>1, <3>2, <3>3, <3>4 DEF Next
  <2>2. copy[c].phase # "created"
    BY <2>1 DEF SetupList, CopyIsCurrent, CreatedMeansUntouched, SetupSteps
  <2> QED BY <2>1, <2>2 DEF SetupList, Goto
<1> QED BY <1>1, Invariance, PTL DEF Spec, NoSilentReplacement

-----------------------------------------------------------------------------
(* The instances the provider holds                                        *)

\* One setup at a time gets past admission, and until it starts its VM nothing
\* but a late start makes another one run.
Admitted ==
    \A c \in Clients :
        /\ pc[c] \in SetupSteps \ {"s_admit"} => admission = c
        /\ pc[c] \in {"s_create", "s_generation", "s_start"} =>
              \A o \in Owners : instance[o] = "running" => Landed("start", o)

\* An instance that delete found gone comes back before its record goes only by
\* a late create.
GoneBeforeDropped ==
    \A c \in Clients :
        pc[c] \in {"d_lock", "d_register"} =>
            instance[handle[c]] = "absent" \/ Landed("create", handle[c])

\* The strengthening of InstancesTracked that the steps keep, given Inv.
Tracked ==
    /\ Admitted
    /\ GoneBeforeDropped
    /\ NoOrphan
    /\ AtMostOneRunning

\* Nothing runs, and every instance is registered, at the start.
LEMMA TrackedInit == Init => Tracked
BY DEF Init, Tracked, Admitted, GoneBeforeDropped, NoOrphan, AtMostOneRunning,
   Registered, SetupSteps

\* Every step keeps it: the locks leave one setup, and one operation on a VM.
LEMMA TrackedNext ==
    ASSUME Inv, Tracked, [Next]_vars
    PROVE  Tracked'
<1> USE NoneAssumption
    DEF Inv, TypeInv, TypeOK, ClientShape, RegisteredWhileHeld, RegistryIsInjective,
        LocksHeld, EditorsAreCurrent, FreshIsPrivate, Registries, InstanceStates,
        Tracked, Admitted, GoneBeforeDropped, NoOrphan, AtMostOneRunning, Registered,
        Landed,
        Labels, OwnedSteps, HeldSteps, CreateSteps, SetupSteps, TeardownSteps,
        DeleteSteps, GuestSteps, ShowSteps,
        diskVars, lockVars, providerVars, clientVars, historyVars
<1>1. ASSUME NEW c \in Clients, Begin(c) PROVE Tracked'
  BY <1>1 DEF Begin, Goto
<1>2. ASSUME NEW c \in Clients,
             OperationLock(c) \/ Check(c)
      PROVE  Tracked'
  <2>1. CASE OperationLock(c)
    BY <2>1 DEF OperationLock, Lockable, TakesShared, Goto
  <2>2. CASE Check(c)
    BY <2>2 DEF Check, CheckRegistered, PhaseAdmits, Goto
  <2> QED BY <1>2, <2>1, <2>2
<1>3. ASSUME NEW c \in Clients,
             CreateLock(c) \/ CreateJournal(c)
      PROVE  Tracked'
  <2>1. Admitted'
    BY <1>3, SMTT(30) DEF CreateLock, RegistryFree, Release, RegLockWithout, Goto,
       CreateJournal, FirstJournal
  <2>2. GoneBeforeDropped'
    BY <1>3, SMTT(30) DEF CreateLock, RegistryFree, Release, RegLockWithout, Goto,
       CreateJournal, FirstJournal
  <2>3. NoOrphan'
    BY <1>3 DEF CreateLock, RegistryFree, Release, RegLockWithout, Goto,
       CreateJournal, FirstJournal
  <2>4. AtMostOneRunning'
    BY <1>3 DEF CreateLock, RegistryFree, Release, RegLockWithout, Goto,
       CreateJournal, FirstJournal
  <2> QED BY <2>1, <2>2, <2>3, <2>4
<1>4. ASSUME NEW c \in Clients, CreateRegister(c) PROVE Tracked'
  BY <1>4 DEF CreateRegister, Release, RegLockWithout
<1>5. ASSUME NEW c \in Clients, SetupAdmit(c) PROVE Tracked'
  BY <1>5 DEF SetupAdmit, AdmissionFree, Goto
<1>6. ASSUME NEW c \in Clients, SetupInspect(c) PROVE Tracked'
  BY <1>6 DEF SetupInspect, Goto
<1>7. ASSUME NEW c \in Clients, SetupList(c) PROVE Tracked'
  <2>1. /\ \A o \in Owners : instance[o] # "running"
        /\ pc' = [pc EXCEPT ![c] = "s_create"] \/ pc' = [pc EXCEPT ![c] = "s_generation"]
        /\ UNCHANGED <<registry, admission, instance, handle, landed>>
    BY <1>7 DEF SetupList, Goto
  <2>2. admission = c
    BY <1>7 DEF SetupList
  <2> QED BY <2>1, <2>2
<1>8. ASSUME NEW c \in Clients, SetupCreate(c) PROVE Tracked'
  BY <1>8 DEF SetupCreate, Goto
<1>9. ASSUME NEW c \in Clients, SetupGeneration(c) PROVE Tracked'
  BY <1>9 DEF SetupGeneration, Goto
<1>10. ASSUME NEW c \in Clients, SetupStart(c) PROVE Tracked'
  BY <1>10 DEF SetupStart, Goto
<1>11. ASSUME NEW c \in Clients, SetupProbe(c) PROVE Tracked'
  BY <1>11 DEF SetupProbe, Release, RegLockWithout
<1>12. ASSUME NEW c \in Clients,
             \/ TeardownInspect(c) \/ TeardownStop(c) \/ TeardownVerify(c)
             \/ TeardownSave(c)
      PROVE  Tracked'
  <2>1. Admitted'
    <3>1. CASE TeardownInspect(c)
      <4>1. /\ pc' = [pc EXCEPT ![c] = "t_stop"] \/ pc' = [pc EXCEPT ![c] = "t_save"]
            /\ UNCHANGED <<admission, instance, landed>>
        BY <3>1 DEF TeardownInspect, Goto
      <4> QED BY <4>1
    <3>2. CASE TeardownStop(c)
      BY <3>2 DEF TeardownStop, Halt, Undone, Goto
    <3>3. CASE TeardownVerify(c)
      BY <3>3 DEF TeardownVerify, Goto
    <3>4. CASE TeardownSave(c)
      BY <3>4 DEF TeardownSave, Release, RegLockWithout
    <3> QED BY <1>12, <3>1, <3>2, <3>3, <3>4
  <2>2. GoneBeforeDropped'
    BY <1>12 DEF TeardownInspect, Goto, TeardownStop, Halt, Undone,
       TeardownVerify, TeardownSave, Release, RegLockWithout
  <2>3. NoOrphan'
    <3>1. /\ registry' = registry
          /\ \A o \in Owners : instance'[o] # "absent" => instance[o] # "absent"
      BY <1>12 DEF TeardownInspect, TeardownStop, Halt, TeardownVerify, TeardownSave
    <3>2. \A o \in Owners : Landed("create", o) => Landed("create", o)'
      BY <1>12 DEF TeardownInspect, TeardownStop, Halt, Undone, TeardownVerify, TeardownSave
    <3> QED BY <3>1, <3>2
  <2>4. AtMostOneRunning'
    BY <1>12 DEF TeardownInspect, Goto, TeardownStop, Halt, Undone,
       TeardownVerify, TeardownSave, Release, RegLockWithout
  <2> QED BY <2>1, <2>2, <2>3, <2>4
<1>13. ASSUME NEW c \in Clients,
             \/ DeleteInspect(c) \/ DeleteMark(c) \/ DeleteRemove(c)
             \/ DeleteVerify(c) \/ DeleteLock(c)
      PROVE  Tracked'
  <2>1. Admitted'
    <3>1. CASE DeleteInspect(c)
      BY <3>1 DEF DeleteInspect, Goto
    <3>2. CASE DeleteMark(c)
      BY <3>2 DEF DeleteMark, AfterMark, Goto
    <3>3. CASE DeleteRemove(c)
      BY <3>3 DEF DeleteRemove, Undone, Goto
    <3>4. CASE DeleteVerify(c)
      BY <3>4 DEF DeleteVerify, Goto
    <3>5. CASE DeleteLock(c)
      BY <3>5 DEF DeleteLock, RegistryFree, Goto
    <3> QED BY <1>13, <3>1, <3>2, <3>3, <3>4, <3>5
  <2>2. GoneBeforeDropped'
    BY <1>13 DEF DeleteInspect, Goto, DeleteMark, AfterMark, DeleteRemove, Undone,
       DeleteVerify, DeleteLock, RegistryFree
  <2>3. NoOrphan'
    BY <1>13 DEF DeleteInspect, Goto, DeleteMark, AfterMark, DeleteRemove, Undone,
       DeleteVerify, DeleteLock, RegistryFree
  <2>4. AtMostOneRunning'
    BY <1>13 DEF DeleteInspect, Goto, DeleteMark, AfterMark, DeleteRemove, Undone,
       DeleteVerify, DeleteLock, RegistryFree
  <2> QED BY <2>1, <2>2, <2>3, <2>4
<1>14. ASSUME NEW c \in Clients, DeleteRegister(c) PROVE Tracked'
  <2>1. Admitted'
    BY <1>14 DEF DeleteRegister, Release, RegLockWithout
  <2>2. GoneBeforeDropped'
    BY <1>14 DEF DeleteRegister, Release, RegLockWithout
  <2>3. NoOrphan'
    BY <1>14 DEF DeleteRegister, Release, RegLockWithout
  <2>4. AtMostOneRunning'
    BY <1>14 DEF DeleteRegister, Release, RegLockWithout
  <2> QED BY <2>1, <2>2, <2>3, <2>4
<1>15. ASSUME NEW c \in Clients,
             \/ GuestInspect(c) \/ GuestLaunch(c) \/ GuestDone(c)
             \/ ShowRead(c) \/ ShowInspect(c)
      PROVE  Tracked'
  <2>1. CASE GuestInspect(c) \/ GuestLaunch(c)
    <3>1. /\ pc' = [pc EXCEPT ![c] = "g_launch"] \/ pc' = [pc EXCEPT ![c] = "g_wait"]
          /\ UNCHANGED <<registry, admission, instance, handle, landed>>
      BY <2>1 DEF GuestInspect, GuestLaunch, Goto
    <3> QED BY <3>1
  <2>2. CASE ShowRead(c)
    BY <2>2 DEF ShowRead, Goto
  <2>3. CASE GuestDone(c) \/ ShowInspect(c)
    <3>1. CASE GuestDone(c)
      BY <3>1 DEF GuestDone, Release, RegLockWithout
    <3>2. CASE ShowInspect(c)
      BY <3>2 DEF ShowInspect, Release, RegLockWithout
    <3> QED BY <2>3, <3>1, <3>2
  <2> QED BY <1>15, <2>1, <2>2, <2>3
<1>16. ASSUME NEW c \in Clients, Fail(c) \/ Kill(c) PROVE Tracked'
  <2>1. Release(c) /\ UNCHANGED <<diskVars, instance, historyVars>>
    BY <1>16 DEF Fail, Kill, Drop
  <2>2. Admitted' /\ GoneBeforeDropped'
    BY <2>1 DEF Release, RegLockWithout
  <2>3. NoOrphan' /\ AtMostOneRunning'
    BY <2>1 DEF Release
  <2> QED BY <2>2, <2>3
<1>17. ASSUME \/ \E l \in late : LateLand(l)
              \/ \E o \in Owners : VmStops(o) \/ VmLost(o)
              \/ \E o \in Owners : \E j \in jobs[o] : JobEnds(o, j)
      PROVE  Tracked'
  <2>1. ASSUME NEW o \in Owners, Halt(o), UNCHANGED <<diskVars, lockVars, clientVars>>
        PROVE  Tracked'
    BY <2>1 DEF Halt, Undone
  <2>2. ASSUME NEW o \in Owners, instance' = [instance EXCEPT ![o] = "absent"],
               Undone(o, {"create", "start"}),
               UNCHANGED <<diskVars, lockVars, clientVars>>
        PROVE  Tracked'
    BY <2>2 DEF Undone
  <2>3. ASSUME NEW o \in Owners, NEW j \in jobs[o], JobEnds(o, j) PROVE Tracked'
    BY <2>3 DEF JobEnds
  <2>4. ASSUME NEW l \in late, LateLand(l) PROVE Tracked'
    <3>1. l = [verb |-> l.verb, owner |-> l.owner] /\ l.owner \in Owners
      BY DEF Calls
    <3>2. CASE UNCHANGED <<instance, landed>>
      BY <2>4, <3>2 DEF LateLand
    <3>3. CASE /\ l.verb = "create"
               /\ instance' = [instance EXCEPT ![l.owner] = "created"]
               /\ landed' = landed \cup {l}
      BY <2>4, <3>1, <3>3 DEF LateLand
    <3>4. CASE /\ l.verb = "start" /\ instance[l.owner] # "absent"
               /\ instance' = [instance EXCEPT ![l.owner] = "running"]
               /\ landed' = landed \cup {l}
      BY <2>4, <3>1, <3>4 DEF LateLand
    <3> QED BY <2>4, <3>1, <3>2, <3>3, <3>4, <2>1, <2>2 DEF LateLand
  <2> QED BY <1>17, <2>1, <2>2, <2>3, <2>4 DEF VmStops, VmLost
<1>18. CASE UNCHANGED vars
  BY <1>18 DEF vars
<1> QED
  BY <1>1, <1>2, <1>3, <1>4, <1>5, <1>6, <1>7, <1>8, <1>9, <1>10, <1>11, <1>12,
     <1>13, <1>14, <1>15, <1>16, <1>17, <1>18 DEF Next, Step

\* The instances the provider holds are all registered and at most one of them
\* runs, unless one is there, or runs, by a call that outlived its client.
THEOREM InstancesAreTracked == Spec => []InstancesTracked
<1>1. Init => Inv /\ Tracked
  BY InvInit, TrackedInit
<1>2. Inv /\ Tracked /\ [Next]_vars => (Inv /\ Tracked)'
  BY InvNext, TrackedNext
<1>3. Tracked => InstancesTracked
  BY DEF Tracked, InstancesTracked
<1> QED BY <1>1, <1>2, <1>3, PTL DEF Spec

-----------------------------------------------------------------------------
(* Which steps write the two files                                         *)

\* Steps that rewrite the journal of the VM they work on.
Writes(c) ==
    SetupList(c) \/ SetupGeneration(c) \/ SetupProbe(c) \/ TeardownInspect(c)
        \/ TeardownSave(c) \/ DeleteMark(c)

\* A step draws an owner, edits the registry, writes the journal of the VM its
\* client works on, or leaves both files alone.
LEMMA StepKinds ==
    ASSUME [Next]_vars
    PROVE  \/ \E c \in Clients : CreateJournal(c) \/ CreateRegister(c)
           \/ \E c \in Clients : DeleteRegister(c) \/ Writes(c)
           \/ UNCHANGED <<registry, journal, used>>
<1> USE DEF diskVars, historyVars
<1>1. ASSUME NEW c \in Clients, Begin(c) PROVE UNCHANGED <<registry, journal, used>>
  BY <1>1 DEF Begin
<1>2. ASSUME NEW c \in Clients, Fail(c) \/ Kill(c)
      PROVE  UNCHANGED <<registry, journal, used>>
  BY <1>2 DEF Fail, Kill, Drop
<1>3. ASSUME NEW c \in Clients, Step(c)
      PROVE  \/ CreateJournal(c) \/ CreateRegister(c) \/ DeleteRegister(c) \/ Writes(c)
             \/ UNCHANGED <<registry, journal, used>>
  BY <1>3 DEF Step, Writes, OperationLock, Check, CreateLock, SetupAdmit, SetupInspect,
     SetupCreate, SetupStart, TeardownStop, TeardownVerify, DeleteInspect,
     DeleteRemove, DeleteVerify, DeleteLock, GuestInspect, GuestLaunch, GuestDone,
     ShowRead, ShowInspect
<1>4. ASSUME \/ \E l \in late : LateLand(l)
             \/ \E o \in Owners : VmStops(o) \/ VmLost(o)
             \/ \E o \in Owners : \E j \in jobs[o] : JobEnds(o, j)
      PROVE  UNCHANGED <<registry, journal, used>>
  BY <1>4 DEF LateLand, VmStops, VmLost, JobEnds
<1>5. CASE UNCHANGED vars
  BY <1>5 DEF vars
<1> QED BY <1>1, <1>2, <1>3, <1>4, <1>5 DEF Next

\* A write keeps the registry and moves one journal forward: that of a
\* registered VM that is not pending deletion, or that becomes so.
LEMMA WriteEffect ==
    ASSUME Inv, NEW c \in Clients, Writes(c)
    PROVE  /\ UNCHANGED <<registry, used>>
           /\ handle[c] \in Owners
           /\ Registered(handle[c])
           /\ \A o \in Owners \ {handle[c]} : journal'[o] = journal[o]
           /\ journal[handle[c]].phase = "deleting" =>
                 journal'[handle[c]].phase = "deleting"
           /\ journal'[handle[c]].generation >= journal[handle[c]].generation
<1> USE DEF Inv, TypeInv, TypeOK, ClientShape, OwnedSteps, HeldSteps, SetupSteps,
            TeardownSteps, DeleteSteps, GuestSteps, ShowSteps
<1> DEFINE o == handle[c]
<1>1. /\ UNCHANGED <<registry, used>>
      /\ pc[c] \in {"s_list", "s_generation", "s_probe", "t_inspect", "t_save", "d_mark"}
  BY DEF Writes, SetupList, SetupGeneration, SetupProbe, TeardownInspect, TeardownSave,
     DeleteMark, historyVars
<1>2. o \in Owners /\ Registered(o)
  BY <1>1 DEF RegisteredWhileHeld, Registered
<1>3. PICK j \in Journals :
        /\ journal' = [journal EXCEPT ![o] = j] \/ UNCHANGED journal
        /\ journal[o].phase = "deleting" => j.phase = "deleting"
        /\ j.generation >= journal[o].generation
  <2>1. journal[o] \in Journals /\ copy[c] \in Journals
    BY <1>2
  <2>2. CASE DeleteMark(c)
    <3> DEFINE j == [journal[o] EXCEPT !.phase = "deleting"]
    <3>1. j \in Journals /\ j.phase = "deleting" /\ j.generation = journal[o].generation
      BY <2>1, PhaseUpdate, PhaseFields DEF Phases
    <3>2. journal' = [journal EXCEPT ![o] = j]
      BY <2>2 DEF DeleteMark, Save
    <3>3. j.generation >= journal[o].generation
      BY <2>1, <3>1, GenerationAssumption DEF Journals
    <3> HIDE DEF j
    <3> QED BY <3>1, <3>2, <3>3
  <2>3. ASSUME ~DeleteMark(c)
        PROVE  journal[o] = copy[c] /\ journal[o].phase # "deleting"
    BY <2>3, <1>1 DEF Writes, SetupList, SetupGeneration, SetupProbe, TeardownInspect,
       TeardownSave, CopyIsCurrent, DeletionMarked
  <2>4. CASE SetupGeneration(c)
    <3> DEFINE j == [phase |-> "starting", generation |-> copy[c].generation + 1]
    <3>1. j \in Journals /\ j.generation >= copy[c].generation
      BY <2>1, <2>4, GenerationAssumption DEF SetupGeneration, GenerationLeft, Journals,
         Phases
    <3>2. journal' = [journal EXCEPT ![o] = j]
      BY <2>4 DEF SetupGeneration, Save
    <3>3. pc[c] # "d_mark" BY <2>4 DEF SetupGeneration
    <3> QED BY <3>1, <3>2, <3>3, <2>3 DEF DeleteMark
  <2>5. ASSUME NEW p \in Phases, ~DeleteMark(c),
               journal' = [journal EXCEPT ![o] = [copy[c] EXCEPT !.phase = p]]
        PROVE  \E j \in Journals :
                  /\ journal' = [journal EXCEPT ![o] = j] \/ UNCHANGED journal
                  /\ journal[o].phase = "deleting" => j.phase = "deleting"
                  /\ j.generation >= journal[o].generation
    <3> DEFINE j == [copy[c] EXCEPT !.phase = p]
    <3>1. j \in Journals /\ j.generation = copy[c].generation
      BY <2>1, PhaseUpdate, PhaseFields
    <3>2. j.generation >= journal[o].generation /\ journal[o].phase # "deleting"
      BY <2>1, <2>3, <2>5, <3>1, GenerationAssumption DEF Journals
    <3>3. journal' = [journal EXCEPT ![o] = j]
      BY <2>5
    <3> HIDE DEF j
    <3> QED BY <3>1, <3>2, <3>3
  <2>6. CASE SetupList(c)
    <3>1. pc[c] # "d_mark" BY <2>6 DEF SetupList
    <3>2. CASE UNCHANGED journal
      BY <3>2, <2>1, GenerationAssumption DEF Journals
    <3>3. CASE Save(c, Provisioning(c))
      BY <3>1, <3>3, <2>5 DEF Save, Provisioning, Phases, DeleteMark
    <3> QED BY <2>6, <3>2, <3>3 DEF SetupList
  <2>7. CASE TeardownInspect(c)
    <3>1. pc[c] # "d_mark" BY <2>7 DEF TeardownInspect
    <3>2. CASE UNCHANGED journal
      BY <3>2, <2>1, GenerationAssumption DEF Journals
    <3>3. CASE Save(c, Stopping(c))
      BY <3>1, <3>3, <2>5 DEF Save, Stopping, Phases, DeleteMark
    <3> QED BY <2>7, <3>2, <3>3 DEF TeardownInspect
  <2>8. CASE SetupProbe(c)
    BY <2>8, <2>5 DEF SetupProbe, Phases, DeleteMark
  <2>9. CASE TeardownSave(c)
    BY <2>9, <2>5 DEF TeardownSave, StoppedPhase, Phases, DeleteMark
  <2> QED BY <2>2, <2>4, <2>6, <2>7, <2>8, <2>9 DEF Writes
<1> QED BY <1>1, <1>2, <1>3, GenerationAssumption DEF Journals

\* A pending deletion is never undone and a generation never decreases.
THEOREM JournalsMoveForward == Spec => JournalMovesForward
<1> DEFINE Act == \A o \in Owners :
        /\ journal[o].phase = "deleting" => journal'[o].phase = "deleting"
        /\ journal'[o].generation >= journal[o].generation
<1>1. Inv /\ [Next]_vars => [Act]_vars
  <2> SUFFICES ASSUME Inv, [Next]_vars, NEW o \in Owners
               PROVE  /\ journal[o].phase = "deleting" => journal'[o].phase = "deleting"
                      /\ journal'[o].generation >= journal[o].generation
    OBVIOUS
  <2> USE GenerationAssumption DEF Inv, TypeInv, TypeOK
  <2>0. journal[o].generation \in Nat BY DEF Journals
  <2>1. CASE UNCHANGED journal
    BY <2>0, <2>1
  <2>2. ASSUME NEW c \in Clients, CreateJournal(c)
        PROVE  /\ journal[o].phase = "deleting" => journal'[o].phase = "deleting"
               /\ journal'[o].generation >= journal[o].generation
    <3>1. CASE journal'[o] = journal[o] BY <2>0, <3>1
    <3>2. CASE o \notin used /\ journal'[o] = FirstJournal
      BY <3>2 DEF UndrawnIsBlank, Legacy, FirstJournal
    <3> QED BY <2>2, <3>1, <3>2 DEF CreateJournal
  <2>3. ASSUME NEW c \in Clients, CreateRegister(c) \/ DeleteRegister(c)
        PROVE  UNCHANGED journal
    BY <2>3 DEF CreateRegister, DeleteRegister
  <2>4. ASSUME NEW c \in Clients, Writes(c)
        PROVE  /\ journal[o].phase = "deleting" => journal'[o].phase = "deleting"
               /\ journal'[o].generation >= journal[o].generation
    BY <2>0, <2>4, WriteEffect
  <2> QED BY <2>1, <2>2, <2>3, <2>4, StepKinds
<1> QED BY <1>1, Invariance, PTL DEF Spec, JournalMovesForward

-----------------------------------------------------------------------------
(* The processes implement the registry's promise                          *)

Retired == {o \in used : journal[o].phase = "deleting" /\ ~Registered(o)}

\* Rewriting the registry file from a copy, without coordination other than
\* its lock, amounts to atomic registration and retirement of identities.
THEOREM RegistryRefined == Spec => RegistrySpec
<1>1. Init => Registry!Init
  BY DEF Init, Registry!Init, Registry!Registered, Registered, Registries, Legacy
<1>2. Inv /\ [Next]_vars => [Registry!Next]_(Registry!vars)
  <2> SUFFICES ASSUME Inv, [Next]_vars
               PROVE  Registry!Next \/ UNCHANGED <<registry, used, Retired>>
    BY DEF Registry!vars, Retired
  <2> USE NoneAssumption DEF Inv, TypeInv, TypeOK, ClientShape
  <2>1. CASE UNCHANGED <<registry, journal, used>>
    BY <2>1 DEF Retired, Registered
  <2>2. ASSUME NEW c \in Clients, CreateJournal(c) PROVE Registry!Next
    <3>1. PICK o \in Owners \ used :
            /\ used' = used \cup {o}
            /\ journal' = [journal EXCEPT ![o] = FirstJournal]
      BY <2>2 DEF CreateJournal
    <3>2. registry' = registry
      BY <2>2 DEF CreateJournal
    <3>3. Retired' = Retired
      <4>1. \A p \in Owners : Registered(p)' <=> Registered(p)
        BY <3>2 DEF Registered
      <4>2. journal'[o].phase # "deleting"
        BY <3>1 DEF FirstJournal
      <4>3. \A p \in used : journal'[p] = journal[p]
        BY <3>1
      <4> QED BY <3>1, <4>1, <4>2, <4>3 DEF Retired
    <3>4. Registry!Draw(o)
      BY <3>1, <3>2, <3>3 DEF Registry!Draw, Retired
    <3> QED BY <3>4 DEF Registry!Next
  <2>3. ASSUME NEW c \in Clients, CreateRegister(c) PROVE Registry!Next
    <3>1. PICK n \in Names, o \in Owners : n = target[c] /\ o = handle[c] /\ o \in used
      BY <2>3 DEF CreateRegister, OwnersAreDrawn, OwnedSteps
    <3>2. registry[n] = None /\ registry' = [registry EXCEPT ![n] = o]
      BY <2>3, <3>1 DEF CreateRegister, EditorsAreCurrent
    <3>3. ~Registered(o) /\ journal[o].phase = "created"
      BY <2>3, <3>1 DEF CreateRegister, FreshIsPrivate, Registered
    <3>4. journal' = journal /\ used' = used
      BY <2>3 DEF CreateRegister, historyVars
    <3>5. Retired' = Retired
      <4>1. \A p \in Owners : p # o => (Registered(p)' <=> Registered(p))
        BY <3>1, <3>2, NoneAssumption DEF Registered, Registries
      <4> QED BY <3>1, <3>3, <3>4, <4>1 DEF Retired
    <3>6. Registry!Register(n, o)
      BY <3>1, <3>2, <3>3, <3>4, <3>5
      DEF Registry!Register, Registry!Registered, Registered, Retired
    <3> QED BY <3>1, <3>6 DEF Registry!Next
  <2>4. ASSUME NEW c \in Clients, DeleteRegister(c) PROVE Registry!Next
    <3>1. PICK n \in Names, o \in Owners : n = target[c] /\ o = handle[c] /\ o \in used
      BY <2>4 DEF DeleteRegister, OwnersAreDrawn, OwnedSteps, HeldSteps, DeleteSteps
    <3>2. registry[n] = o /\ registry' = [registry EXCEPT ![n] = None]
      BY <2>4, <3>1 DEF DeleteRegister, EditorsAreCurrent
    <3>3. journal[o].phase = "deleting"
      BY <2>4, <3>1 DEF DeleteRegister, DeletionMarked
    <3>4. journal' = journal /\ used' = used
      BY <2>4 DEF DeleteRegister, historyVars
    <3>5. Retired' = Retired \cup {o}
      <4>1. \A p \in Owners : p # o => (Registered(p)' <=> Registered(p))
        BY <3>1, <3>2, NoneAssumption DEF Registered, Registries
      <4>2. Registered(o) /\ ~Registered(o)'
        BY <3>1, <3>2, NoneAssumption DEF Registered, Registries, RegistryIsInjective
      <4> QED BY <3>1, <3>3, <3>4, <4>1, <4>2 DEF Retired
    <3>6. Registry!Retire(n)
      BY <3>1, <3>2, <3>4, <3>5 DEF Registry!Retire, Retired
    <3> QED BY <3>1, <3>6 DEF Registry!Next
  <2>5. ASSUME NEW c \in Clients, Writes(c) PROVE UNCHANGED <<registry, used, Retired>>
    <3>1. \A p \in Owners : Registered(p)' <=> Registered(p)
      BY <2>5, WriteEffect DEF Registered
    <3> QED BY <2>5, <3>1, WriteEffect DEF Retired
  <2> QED BY <2>1, <2>2, <2>3, <2>4, <2>5, StepKinds
<1> QED BY <1>1, <1>2, Invariance, PTL DEF Spec, RegistrySpec, Registry!Spec

-----------------------------------------------------------------------------
(* GuestExec                                                               *)

Concluded == result.state \in Outcomes \cup {"failed"}

\* A supervisor that has claimed the token and not ended.
Active == Running \cup {"join"}

\* The claim makes one supervisor the only one that acts.
OneClaimant ==
    /\ \A s, t \in Launches : sup[s] \in Active /\ sup[t] \in Active => s = t
    /\ \A s \in Launches : sup[s] \in Active => result.state # "none"

\* Nothing was started before the spawn, and nothing is left to do but to
\* clean up once the execution has concluded.
Progress ==
    /\ \A s \in Launches : sup[s] \in {"mkdir", "check", "spawn"} => spawned = 0
    /\ result.state = "none" => spawned = 0
    /\ tasks # {} => spawned > 0
    /\ Concluded => \A s \in Launches : sup[s] \notin Active \ {"finally", "join"}
    /\ result.state \in Outcomes => tasks = {}

\* No supervisor runs.
Unsupervised == \A s \in Launches : sup[s] \in {"off", "dead", "killed"}

\* An answer is a recorded outcome, unless nothing was ever launched.
AnswerShape ==
    /\ host = "launch" => ~client /\ Unsupervised
    /\ host = "launch" => tasks = {}
    /\ host = "returned" =>
          \/ result.state \in Outcomes
          \/ ~client /\ tasks = {} /\ Unsupervised

GuestInv == GuestTypeOK /\ OneClaimant /\ Progress /\ AnswerShape

\* The invariant holds initially.
LEMMA GuestInvInit == GuestInit => GuestInv
<1> SUFFICES ASSUME GuestInit PROVE GuestInv OBVIOUS
<1> USE DEF GuestInit, Active, Running, Results, Concluded, Outcomes
<1>1. cancel \in BOOLEAN /\ expired \in BOOLEAN /\ up \in BOOLEAN /\ client \in BOOLEAN
  OBVIOUS
<1>2. timedOut \in [Launches -> BOOLEAN]
  OBVIOUS
<1>3. GuestTypeOK
  BY <1>1, <1>2 DEF GuestTypeOK
<1>4. OneClaimant /\ Progress
  BY DEF OneClaimant, Progress
<1>5. AnswerShape
  BY DEF AnswerShape, Unsupervised
<1> QED BY <1>3, <1>4, <1>5 DEF GuestInv

\* Types.
LEMMA GuestTypeNext ==
    ASSUME GuestInv, [GuestNext]_execVars
    PROVE  GuestTypeOK'
<1> USE CodeAssumption, ProcessAssumption
    DEF GuestInv, GuestTypeOK, Results, Unset, Killed, Active, Running, Outcomes, Concluded,
        guestVars, hostVars
<1>1. ASSUME NEW s \in Launches, Claim(s) PROVE GuestTypeOK'
  BY <1>1 DEF Claim, Claimable, SupGoto, Write
<1>2. ASSUME NEW s \in Launches, MakeGroup(s) PROVE GuestTypeOK'
  BY <1>2 DEF MakeGroup, SupGoto
<1>3. ASSUME NEW s \in Launches, CheckCancel(s) PROVE GuestTypeOK'
  BY <1>3 DEF CheckCancel, SupGoto, Write
<1>4. ASSUME NEW s \in Launches, Spawn(s) PROVE GuestTypeOK'
  BY <1>4 DEF Spawn, SupGoto
<1>5. ASSUME NEW s \in Launches, Record(s) PROVE GuestTypeOK'
  BY <1>5 DEF Record, SupGoto, Write
<1>6. ASSUME NEW s \in Launches, Poll(s) PROVE GuestTypeOK'
  <2>1. timedOut' \in [Launches -> BOOLEAN]
    BY <1>6 DEF Poll
  <2>2. doomed' \subseteq tasks'
    BY <1>6 DEF Poll, KillGroup
  <2>3. sup' \in [Launches -> {"off", "claim", "join", "dead", "killed"} \cup Running]
    BY <1>6 DEF Poll, SupGoto
  <2> QED BY <1>6, <2>1, <2>2, <2>3 DEF Poll
<1>7. ASSUME NEW s \in Launches, Reap(s) PROVE GuestTypeOK'
  BY <1>7 DEF Reap, KillGroup, SupGoto
<1>8. ASSUME NEW s \in Launches, Drain(s) PROVE GuestTypeOK'
  BY <1>8 DEF Drain, Drained, Outcome, SupGoto
<1>9. ASSUME NEW s \in Launches, Raise(s) PROVE GuestTypeOK'
  BY <1>9 DEF Raise, SupGoto
<1>10. ASSUME NEW s \in Launches, Except(s) PROVE GuestTypeOK'
  BY <1>10 DEF Except, Write, SupGoto
<1>11. ASSUME NEW s \in Launches, Finally(s) PROVE GuestTypeOK'
  BY <1>11 DEF Finally, KillGroup, SupGoto
<1>12. ASSUME NEW s \in Launches, Join(s) PROVE GuestTypeOK'
  BY <1>12 DEF Join, SupGoto
<1>13. ASSUME NEW s \in Launches, SupDies(s) PROVE GuestTypeOK'
  BY <1>13 DEF SupDies, SupGoto
<1>14. ASSUME NEW s \in Launches, Relaunch(s) PROVE GuestTypeOK'
  BY <1>14 DEF Relaunch, SupGoto
<1>15. CASE HostEarlyCancel
  BY <1>15 DEF HostEarlyCancel
<1>16. CASE HostLaunch
  BY <1>16 DEF HostLaunch, SupGoto
<1>17. CASE HostWaited
  BY <1>17 DEF HostWaited
<1>18. CASE HostInterrupted
  BY <1>18 DEF HostInterrupted
<1>19. CASE HostCancel
  <2>1. cancel' \in BOOLEAN
    BY <1>19 DEF HostCancel
  <2> QED BY <1>19, <2>1 DEF HostCancel
<1>20. CASE HostAwait
  <2>1. client' \in BOOLEAN
    BY <1>20 DEF HostAwait
  <2> QED BY <1>20, <2>1 DEF HostAwait
<1>21. CASE HostStatus
  BY <1>21 DEF HostStatus, Accept
<1>22. CASE HostFails
  <2>1. client' \in BOOLEAN
    BY <1>22 DEF HostFails
  <2> QED BY <1>22, <2>1 DEF HostFails
<1>23. CASE ClientEnds
  <2>1. client' \in BOOLEAN
    BY <1>23 DEF ClientEnds
  <2> QED BY <1>23, <2>1 DEF ClientEnds
<1>24. CASE GuestVmStops
  <2>1. client' \in BOOLEAN /\ up' \in BOOLEAN
    BY <1>24 DEF GuestVmStops
  <2> QED BY <1>24, <2>1 DEF GuestVmStops
<1>25. CASE DeadlinePasses
  BY <1>25 DEF DeadlinePasses
<1>26. ASSUME NEW c \in Codes, MainExits(c) PROVE GuestTypeOK'
  BY <1>26 DEF MainExits
<1>27. ASSUME NEW t \in Strays, Fork(t) PROVE GuestTypeOK'
  BY <1>27 DEF Fork
<1>28. ASSUME NEW t \in Strays, StrayExits(t) PROVE GuestTypeOK'
  BY <1>28 DEF StrayExits
<1>29. ASSUME NEW t \in Strays \cup {Main}, Dies(t) PROVE GuestTypeOK'
  BY <1>29 DEF Dies
<1>30. CASE UNCHANGED execVars
  BY <1>30 DEF execVars
<1> QED
  BY <1>1, <1>2, <1>3, <1>4, <1>5, <1>6, <1>7, <1>8, <1>9, <1>10, <1>11, <1>12,
     <1>13, <1>14, <1>15, <1>16, <1>17, <1>18, <1>19, <1>20, <1>21, <1>22, <1>23, <1>24,
     <1>25, <1>26, <1>27, <1>28, <1>29, <1>30
  DEF GuestNext, SupStep, HostStep

\* Only the claimant acts.
LEMMA ClaimNext ==
    ASSUME GuestInv, [GuestNext]_execVars
    PROVE  OneClaimant'
<1> USE CodeAssumption, ProcessAssumption
    DEF GuestInv, GuestTypeOK, OneClaimant, Results, Active, Running, Outcomes, Concluded,
        guestVars, hostVars
<1>1. ASSUME NEW s \in Launches, Claim(s) PROVE OneClaimant'
  BY <1>1 DEF Claim, Claimable, SupGoto, Write
<1>2. ASSUME NEW s \in Launches, MakeGroup(s) PROVE OneClaimant'
  BY <1>2 DEF MakeGroup, SupGoto
<1>3. ASSUME NEW s \in Launches, CheckCancel(s) PROVE OneClaimant'
  BY <1>3 DEF CheckCancel, SupGoto, Write
<1>4. ASSUME NEW s \in Launches, Spawn(s) PROVE OneClaimant'
  BY <1>4 DEF Spawn, SupGoto
<1>5. ASSUME NEW s \in Launches, Record(s) PROVE OneClaimant'
  BY <1>5 DEF Record, SupGoto, Write
<1>6. ASSUME NEW s \in Launches, Poll(s) PROVE OneClaimant'
  BY <1>6 DEF Poll, StopRequested, KillGroup, SupGoto
<1>7. ASSUME NEW s \in Launches, Reap(s) PROVE OneClaimant'
  BY <1>7 DEF Reap, KillGroup, SupGoto
<1>8. ASSUME NEW s \in Launches, Drain(s) PROVE OneClaimant'
  BY <1>8 DEF Drain, Drained, Outcome, SupGoto
<1>9. ASSUME NEW s \in Launches, Raise(s) PROVE OneClaimant'
  BY <1>9 DEF Raise, SupGoto
<1>10. ASSUME NEW s \in Launches, Except(s) PROVE OneClaimant'
  BY <1>10 DEF Except, Write, SupGoto
<1>11. ASSUME NEW s \in Launches, Finally(s) PROVE OneClaimant'
  BY <1>11 DEF Finally, KillGroup, SupGoto
<1>12. ASSUME NEW s \in Launches, Join(s) PROVE OneClaimant'
  BY <1>12 DEF Join, SupGoto
<1>13. ASSUME NEW s \in Launches, SupDies(s) PROVE OneClaimant'
  BY <1>13 DEF SupDies, SupGoto
<1>14. ASSUME NEW s \in Launches, Relaunch(s) PROVE OneClaimant'
  BY <1>14 DEF Relaunch, SupGoto
<1>15. CASE HostEarlyCancel
  BY <1>15 DEF HostEarlyCancel
<1>16. CASE HostLaunch
  BY <1>16 DEF HostLaunch, SupGoto
<1>17. CASE HostWaited
  BY <1>17 DEF HostWaited
<1>18. CASE HostInterrupted
  BY <1>18 DEF HostInterrupted
<1>19. CASE HostCancel
  BY <1>19 DEF HostCancel
<1>20. CASE HostAwait
  BY <1>20 DEF HostAwait
<1>21. CASE HostStatus
  BY <1>21 DEF HostStatus, Accept
<1>22. CASE HostFails
  BY <1>22 DEF HostFails
<1>23. CASE ClientEnds
  BY <1>23 DEF ClientEnds
<1>24. CASE GuestVmStops
  BY <1>24 DEF GuestVmStops
<1>25. CASE DeadlinePasses
  BY <1>25 DEF DeadlinePasses
<1>26. ASSUME NEW c \in Codes, MainExits(c) PROVE OneClaimant'
  BY <1>26 DEF MainExits
<1>27. ASSUME NEW t \in Strays, Fork(t) PROVE OneClaimant'
  BY <1>27 DEF Fork
<1>28. ASSUME NEW t \in Strays, StrayExits(t) PROVE OneClaimant'
  BY <1>28 DEF StrayExits
<1>29. ASSUME NEW t \in Strays \cup {Main}, Dies(t) PROVE OneClaimant'
  BY <1>29 DEF Dies
<1>30. CASE UNCHANGED execVars
  BY <1>30 DEF execVars
<1> QED
  BY <1>1, <1>2, <1>3, <1>4, <1>5, <1>6, <1>7, <1>8, <1>9, <1>10, <1>11, <1>12,
     <1>13, <1>14, <1>15, <1>16, <1>17, <1>18, <1>19, <1>20, <1>21, <1>22, <1>23, <1>24,
     <1>25, <1>26, <1>27, <1>28, <1>29, <1>30
  DEF GuestNext, SupStep, HostStep

\* Start once, conclude last.
LEMMA ProgressNext ==
    ASSUME GuestInv, [GuestNext]_execVars
    PROVE  Progress'
<1> USE CodeAssumption, ProcessAssumption
    DEF GuestInv, GuestTypeOK, OneClaimant, Progress, Results, Active, Running, Outcomes,
        Concluded, guestVars, hostVars
<1>1. ASSUME NEW s \in Launches, Claim(s) PROVE Progress'
  BY <1>1 DEF Claim, Claimable, SupGoto, Write
<1>2. ASSUME NEW s \in Launches, MakeGroup(s) PROVE Progress'
  BY <1>2 DEF MakeGroup, SupGoto
<1>3. ASSUME NEW s \in Launches, CheckCancel(s) PROVE Progress'
  BY <1>3 DEF CheckCancel, SupGoto, Write
<1>4. ASSUME NEW s \in Launches, Spawn(s) PROVE Progress'
  BY <1>4 DEF Spawn, SupGoto
<1>5. ASSUME NEW s \in Launches, Record(s) PROVE Progress'
  BY <1>5 DEF Record, SupGoto, Write
<1>6. ASSUME NEW s \in Launches, Poll(s) PROVE Progress'
  BY <1>6 DEF Poll, StopRequested, KillGroup, SupGoto
<1>7. ASSUME NEW s \in Launches, Reap(s) PROVE Progress'
  BY <1>7 DEF Reap, KillGroup, SupGoto
<1>8. ASSUME NEW s \in Launches, Drain(s) PROVE Progress'
  BY <1>8 DEF Drain, Drained, Outcome, SupGoto
<1>9. ASSUME NEW s \in Launches, Raise(s) PROVE Progress'
  BY <1>9 DEF Raise, SupGoto
<1>10. ASSUME NEW s \in Launches, Except(s) PROVE Progress'
  BY <1>10 DEF Except, Write, SupGoto
<1>11. ASSUME NEW s \in Launches, Finally(s) PROVE Progress'
  BY <1>11 DEF Finally, KillGroup, SupGoto
<1>12. ASSUME NEW s \in Launches, Join(s) PROVE Progress'
  BY <1>12 DEF Join, SupGoto
<1>13. ASSUME NEW s \in Launches, SupDies(s) PROVE Progress'
  BY <1>13 DEF SupDies, SupGoto
<1>14. ASSUME NEW s \in Launches, Relaunch(s) PROVE Progress'
  BY <1>14 DEF Relaunch, SupGoto
<1>15. CASE HostEarlyCancel
  BY <1>15 DEF HostEarlyCancel
<1>16. CASE HostLaunch
  BY <1>16 DEF HostLaunch, SupGoto
<1>17. CASE HostWaited
  BY <1>17 DEF HostWaited
<1>18. CASE HostInterrupted
  BY <1>18 DEF HostInterrupted
<1>19. CASE HostCancel
  BY <1>19 DEF HostCancel
<1>20. CASE HostAwait
  BY <1>20 DEF HostAwait
<1>21. CASE HostStatus
  BY <1>21 DEF HostStatus, Accept
<1>22. CASE HostFails
  BY <1>22 DEF HostFails
<1>23. CASE ClientEnds
  BY <1>23 DEF ClientEnds
<1>24. CASE GuestVmStops
  BY <1>24 DEF GuestVmStops
<1>25. CASE DeadlinePasses
  BY <1>25 DEF DeadlinePasses
<1>26. ASSUME NEW c \in Codes, MainExits(c) PROVE Progress'
  BY <1>26 DEF MainExits
<1>27. ASSUME NEW t \in Strays, Fork(t) PROVE Progress'
  BY <1>27 DEF Fork
<1>28. ASSUME NEW t \in Strays, StrayExits(t) PROVE Progress'
  BY <1>28 DEF StrayExits
<1>29. ASSUME NEW t \in Strays \cup {Main}, Dies(t) PROVE Progress'
  BY <1>29 DEF Dies
<1>30. CASE UNCHANGED execVars
  BY <1>30 DEF execVars
<1> QED
  BY <1>1, <1>2, <1>3, <1>4, <1>5, <1>6, <1>7, <1>8, <1>9, <1>10, <1>11, <1>12,
     <1>13, <1>14, <1>15, <1>16, <1>17, <1>18, <1>19, <1>20, <1>21, <1>22, <1>23, <1>24,
     <1>25, <1>26, <1>27, <1>28, <1>29, <1>30
  DEF GuestNext, SupStep, HostStep

\* The host returns what was recorded.
LEMMA AnswerNext ==
    ASSUME GuestInv, [GuestNext]_execVars
    PROVE  AnswerShape'
<1> USE CodeAssumption, ProcessAssumption
    DEF GuestInv, GuestTypeOK, OneClaimant, Progress, AnswerShape, Unsupervised,
        Results, Active, Running, Outcomes, Concluded, guestVars, hostVars
<1>1. ASSUME NEW s \in Launches, Claim(s) PROVE AnswerShape'
  BY <1>1 DEF Claim, Claimable, SupGoto, Write
<1>2. ASSUME NEW s \in Launches, MakeGroup(s) PROVE AnswerShape'
  BY <1>2 DEF MakeGroup, SupGoto
<1>3. ASSUME NEW s \in Launches, CheckCancel(s) PROVE AnswerShape'
  BY <1>3 DEF CheckCancel, SupGoto, Write
<1>4. ASSUME NEW s \in Launches, Spawn(s) PROVE AnswerShape'
  BY <1>4 DEF Spawn, SupGoto
<1>5. ASSUME NEW s \in Launches, Record(s) PROVE AnswerShape'
  BY <1>5 DEF Record, SupGoto, Write
<1>6. ASSUME NEW s \in Launches, Poll(s) PROVE AnswerShape'
  BY <1>6 DEF Poll, StopRequested, KillGroup, SupGoto
<1>7. ASSUME NEW s \in Launches, Reap(s) PROVE AnswerShape'
  BY <1>7 DEF Reap, KillGroup, SupGoto
<1>8. ASSUME NEW s \in Launches, Drain(s) PROVE AnswerShape'
  BY <1>8 DEF Drain, Drained, Outcome, SupGoto
<1>9. ASSUME NEW s \in Launches, Raise(s) PROVE AnswerShape'
  BY <1>9 DEF Raise, SupGoto
<1>10. ASSUME NEW s \in Launches, Except(s) PROVE AnswerShape'
  BY <1>10 DEF Except, Write, SupGoto
<1>11. ASSUME NEW s \in Launches, Finally(s) PROVE AnswerShape'
  BY <1>11 DEF Finally, KillGroup, SupGoto
<1>12. ASSUME NEW s \in Launches, Join(s) PROVE AnswerShape'
  BY <1>12 DEF Join, SupGoto
<1>13. ASSUME NEW s \in Launches, SupDies(s) PROVE AnswerShape'
  BY <1>13 DEF SupDies, SupGoto
<1>14. ASSUME NEW s \in Launches, Relaunch(s) PROVE AnswerShape'
  BY <1>14 DEF Relaunch, SupGoto
<1>15. CASE HostEarlyCancel
  BY <1>15 DEF HostEarlyCancel
<1>16. CASE HostLaunch
  BY <1>16 DEF HostLaunch, SupGoto
<1>17. CASE HostWaited
  BY <1>17 DEF HostWaited
<1>18. CASE HostInterrupted
  BY <1>18 DEF HostInterrupted
<1>19. CASE HostCancel
  BY <1>19 DEF HostCancel
<1>20. CASE HostAwait
  BY <1>20 DEF HostAwait
<1>21. CASE HostStatus
  BY <1>21 DEF HostStatus, Accept
<1>22. CASE HostFails
  BY <1>22 DEF HostFails
<1>23. CASE ClientEnds
  BY <1>23 DEF ClientEnds
<1>24. CASE GuestVmStops
  BY <1>24 DEF GuestVmStops
<1>25. CASE DeadlinePasses
  BY <1>25 DEF DeadlinePasses
<1>26. ASSUME NEW c \in Codes, MainExits(c) PROVE AnswerShape'
  BY <1>26 DEF MainExits
<1>27. ASSUME NEW t \in Strays, Fork(t) PROVE AnswerShape'
  BY <1>27 DEF Fork
<1>28. ASSUME NEW t \in Strays, StrayExits(t) PROVE AnswerShape'
  BY <1>28 DEF StrayExits
<1>29. ASSUME NEW t \in Strays \cup {Main}, Dies(t) PROVE AnswerShape'
  BY <1>29 DEF Dies
<1>30. CASE UNCHANGED execVars
  BY <1>30 DEF execVars
<1> QED
  BY <1>1, <1>2, <1>3, <1>4, <1>5, <1>6, <1>7, <1>8, <1>9, <1>10, <1>11, <1>12,
     <1>13, <1>14, <1>15, <1>16, <1>17, <1>18, <1>19, <1>20, <1>21, <1>22, <1>23, <1>24,
     <1>25, <1>26, <1>27, <1>28, <1>29, <1>30
  DEF GuestNext, SupStep, HostStep

-----------------------------------------------------------------------------
(* The theorems                                                            *)

\* Every step keeps the invariant.
LEMMA GuestInvNext == GuestInv /\ [GuestNext]_execVars => GuestInv'
BY GuestTypeNext, ClaimNext, ProgressNext, AnswerNext DEF GuestInv

\* So it holds in every reachable state.
LEMMA GuestInvariance == GuestSpec => []GuestInv
BY GuestInvInit, GuestInvNext, PTL DEF GuestSpec

\* Type correctness of every reachable state.
THEOREM GuestTypeCorrect == GuestSpec => []GuestTypeOK
<1>1. GuestInv => GuestTypeOK BY DEF GuestInv
<1> QED BY <1>1, GuestInvariance, PTL

\* When the host returns a code, the command has no process left.
THEOREM AnswerIsFinal == GuestSpec => []AnswerMeansGone
<1>1. GuestInv => AnswerMeansGone BY DEF GuestInv, AnswerMeansGone, Progress, AnswerShape
<1> QED BY <1>1, GuestInvariance, PTL

-----------------------------------------------------------------------------
(* What is reported                                                        *)

\* What the host returns is what is recorded, and what is recorded is true: the
\* outcome is final, and the command's wait status with it.
Reported ==
    /\ host # "returned" => answer = Unset
    /\ host = "returned" => answer = 124 \/ (result.state \in Outcomes /\ answer = result.code)
    /\ result.state \in Outcomes /\ result.code \in Codes => status = result.code
    /\ CancelledWasAsked

LEMMA ReportedInit == GuestInit => Reported
BY DEF GuestInit, Reported, Outcomes, CancelledWasAsked

LEMMA ReportedNext ==
  ASSUME GuestInv, Reported, [GuestNext]_execVars
  PROVE  Reported'
<1> USE DEF Reported, CancelledWasAsked, guestVars, hostVars
\* Once there is an outcome, no supervisor writes and no process is left.
<1>0. result.state \in Outcomes =>
        tasks = {} /\ \A s \in Launches : sup[s] \notin Active \ {"finally", "join"}
  BY DEF GuestInv, Progress, Concluded
<1>1. CASE UNCHANGED <<result, status, cancel, host, answer>>
  BY <1>1
<1>2. ASSUME NEW s \in Launches, SupStep(s) \/ Raise(s) \/ SupDies(s) \/ Relaunch(s)
      PROVE  Reported'
  <2>1. CASE Claim(s)
    BY <2>1 DEF Claim, Claimable, Write, Outcomes
  <2>2. CASE CheckCancel(s)
    <3>1. result.state \notin Outcomes
      BY <1>0, <2>2 DEF CheckCancel, Active, Running
    <3>2. 124 \notin Codes
      BY CodeAssumption
    <3> QED
      BY <2>2, <3>1, <3>2 DEF CheckCancel, Write, Outcomes
  <2>3. CASE Spawn(s)
    BY <1>0, <2>3 DEF Spawn, Active, Running
  <2>4. CASE Record(s)
    BY <1>0, <2>4 DEF Record, Active, Running, Write, Outcomes
  <2>5. CASE Drain(s)
    <3>1. result.state \notin Outcomes /\ UNCHANGED <<status, cancel, host, answer>>
      BY <1>0, <2>5 DEF Drain, Active, Running
    <3>2. CASE UNCHANGED result
      BY <3>1, <3>2
    <3>3. CASE result' = Outcome(s)
      <4>1. status \in Codes \cup {Unset, Killed}
        BY DEF GuestInv, GuestTypeOK
      <4>2. result'.code \in Codes => status = result'.code
        BY <3>3, <4>1, CodeAssumption DEF Outcome, Unset, Killed
      <4>3. result'.state = "cancelled" => cancel
        BY <3>3 DEF Outcome
      <4> QED
        BY <3>1, <4>2, <4>3
    <3> QED
      BY <2>5, <3>2, <3>3 DEF Drain
  <2>6. CASE Except(s)
    BY <1>0, <2>6 DEF Except, Active, Running, Write, Outcomes
  <2>7. CASE MakeGroup(s) \/ Poll(s) \/ Reap(s) \/ Finally(s) \/ Join(s)
    BY <1>1, <2>7 DEF MakeGroup, Poll, Reap, Finally, Join
  <2>8. CASE Raise(s) \/ SupDies(s) \/ Relaunch(s)
    BY <1>1, <2>8 DEF Raise, SupDies, Relaunch
  <2> QED
    BY <1>2, <2>1, <2>2, <2>3, <2>4, <2>5, <2>6, <2>7, <2>8 DEF SupStep
<1>3. CASE HostStatus
  BY <1>3 DEF HostStatus, Accept
<1>4. CASE HostStep \/ HostFails \/ ClientEnds
  BY <1>3, <1>4 DEF HostStep, HostEarlyCancel, HostLaunch, HostWaited, HostInterrupted,
     HostCancel, HostAwait, HostFails, ClientEnds
<1>5. ASSUME \/ \E c \in Codes : MainExits(c)
             \/ \E t \in Strays \cup {Main} : Dies(t)
             \/ GuestVmStops
      PROVE  Reported'
  <2>1. /\ UNCHANGED <<result, cancel, host, answer>>
        /\ tasks = {} => UNCHANGED status
    BY <1>5 DEF MainExits, Dies, GuestVmStops, GuestInv, GuestTypeOK
  <2> QED
    BY <1>0, <2>1
<1>6. CASE DeadlinePasses \/ \E t \in Strays : Fork(t) \/ StrayExits(t)
  BY <1>1, <1>6 DEF DeadlinePasses, Fork, StrayExits
<1>7. CASE UNCHANGED execVars
  BY <1>1, <1>7 DEF execVars
<1> QED
  BY <1>2, <1>4, <1>5, <1>6, <1>7 DEF GuestNext

\* A code the host returns is the command's own, and a cancellation that is
\* recorded was asked for (supervisor.py run, the status call in exec).
THEOREM ReportsHold == GuestSpec => []ReportsAreTrue
<1>1. GuestInv /\ Reported => ReportsAreTrue
  BY CodeAssumption DEF Reported, ReportsAreTrue, AnswerIsTrue, Unset
<1>2. GuestSpec => []Reported
  BY ReportedInit, ReportedNext, GuestInvariance, PTL DEF GuestSpec
<1> QED
  BY <1>1, <1>2, GuestInvariance, PTL

-----------------------------------------------------------------------------
(* Refinement                                                              *)

Conclusion == IF Concluded THEN result.state ELSE "none"

\* The command starts at most once, the execution concludes once, and an
\* outcome is recorded only when the cgroup is empty.
THEOREM ExecutionRefined == GuestSpec => ExecSpec
<1>1. GuestInit => Exec!Init
  BY DEF GuestInit, Exec!Init, Outcomes
<1>2. GuestInv /\ [GuestNext]_execVars => [Exec!Next]_(Exec!vars)
  <2> SUFFICES ASSUME GuestInv, [GuestNext]_execVars
               PROVE  Exec!Next \/ UNCHANGED <<spawned > 0, tasks # {}, Conclusion>>
    BY DEF Exec!vars, Conclusion, Concluded
  <2> USE DEF GuestInv, GuestTypeOK, Results, Conclusion, Concluded, Outcomes, guestVars, hostVars
  <2>1. CASE UNCHANGED <<spawned, tasks, result>>
    BY <2>1
  <2>2. ASSUME NEW s \in Launches, Claim(s)
        PROVE  UNCHANGED <<spawned > 0, tasks # {}, Conclusion>>
    BY <2>2 DEF Claim, Claimable, Write
  <2>3. ASSUME NEW s \in Launches, Record(s)
        PROVE  UNCHANGED <<spawned > 0, tasks # {}, Conclusion>>
    BY <2>3 DEF Record, Write, Progress, Active, Running
  <2>4. ASSUME NEW s \in Launches, CheckCancel(s)
        PROVE  Exec!Next \/ UNCHANGED <<spawned > 0, tasks # {}, Conclusion>>
    <3>1. CASE UNCHANGED result
      BY <2>4, <3>1 DEF CheckCancel
    <3>2. CASE Write("cancelled", 124)
      <4>1. ~Concluded /\ tasks = {} /\ UNCHANGED <<spawned, tasks>>
        BY <2>4 DEF CheckCancel, Progress, Active, Running
      <4>2. result'.state = "cancelled"
        BY <3>2 DEF Write
      <4> QED BY <4>1, <4>2 DEF Exec!Next, Exec!Conclude
    <3> QED BY <2>4, <3>1, <3>2 DEF CheckCancel
  <2>5. ASSUME NEW s \in Launches, Spawn(s) PROVE Exec!Next
    <3>1. ~Concluded /\ spawned = 0
      BY <2>5 DEF Spawn, Progress, Active, Running
    <3>2. spawned' = 1 /\ tasks' # {} /\ result' = result
      BY <2>5, <3>1 DEF Spawn
    <3> QED BY <3>1, <3>2 DEF Exec!Next, Exec!Start
  <2>6. ASSUME NEW s \in Launches, Drain(s)
        PROVE  Exec!Next \/ UNCHANGED <<spawned > 0, tasks # {}, Conclusion>>
    <3>1. CASE UNCHANGED result
      BY <2>6, <3>1 DEF Drain
    <3>2. CASE tasks = {} /\ result' = Outcome(s)
      <4>1. ~Concluded /\ UNCHANGED <<spawned, tasks>>
        BY <2>6 DEF Drain, Progress, Active, Running
      <4>2. result'.state \in Outcomes
        BY <3>2 DEF Outcome
      <4> QED BY <3>2, <4>1, <4>2 DEF Exec!Next, Exec!Conclude
    <3> QED BY <2>6, <3>1, <3>2 DEF Drain, Drained
  <2>7. ASSUME NEW s \in Launches, Except(s)
        PROVE  Exec!Next \/ UNCHANGED <<spawned > 0, tasks # {}, Conclusion>>
    <3>1. ~Concluded /\ UNCHANGED <<spawned, tasks>>
      BY <2>7 DEF Except, Progress, Active, Running
    <3>2. CASE UNCHANGED result
      BY <3>1, <3>2
    <3>3. CASE Write("failed", 125)
      <4>1. result'.state = "failed"
        BY <3>3 DEF Write
      <4> QED BY <3>1, <4>1 DEF Exec!Next, Exec!GiveUp
    <3> QED BY <2>7, <3>2, <3>3 DEF Except
  <2>8. ASSUME tasks # {}, UNCHANGED <<spawned, result>>
        PROVE  Exec!Next \/ UNCHANGED <<spawned > 0, tasks # {}, Conclusion>>
    BY <2>8 DEF Exec!Next, Exec!Vanish
  <2>9. ASSUME \/ \E c \in Codes : MainExits(c)
               \/ \E t \in Strays : Fork(t) \/ StrayExits(t)
               \/ \E t \in Strays \cup {Main} : Dies(t)
        PROVE  tasks # {} /\ UNCHANGED <<spawned, result>>
    BY <2>9 DEF MainExits, Fork, StrayExits, Dies
  <2>10. CASE GuestVmStops
    <3>1. UNCHANGED <<spawned, result>> /\ tasks' = {}
      BY <2>10 DEF GuestVmStops
    <3> QED BY <2>1, <2>8, <3>1
  <2>11. ASSUME HostStep \/ HostFails \/ ClientEnds \/ DeadlinePasses
         PROVE  UNCHANGED <<spawned, tasks, result>>
    BY <2>11 DEF HostStep, HostEarlyCancel, HostLaunch, HostWaited, HostInterrupted,
       HostCancel, HostAwait, HostStatus, HostFails, ClientEnds, DeadlinePasses
  <2>12. ASSUME NEW s \in Launches,
                \/ MakeGroup(s) \/ Poll(s) \/ Reap(s) \/ Raise(s) \/ Finally(s)
                \/ Join(s) \/ SupDies(s) \/ Relaunch(s)
         PROVE  UNCHANGED <<spawned, tasks, result>>
    BY <2>12 DEF MakeGroup, Poll, Reap, Raise, Finally, Join, SupDies, Relaunch
  <2>13. CASE UNCHANGED execVars
    BY <2>1, <2>13 DEF execVars
  <2> QED
    BY <2>1, <2>2, <2>3, <2>4, <2>5, <2>6, <2>7, <2>8, <2>9, <2>10, <2>11, <2>12, <2>13
    DEF GuestNext, SupStep
<1> QED BY <1>1, <1>2, GuestInvariance, PTL DEF GuestSpec, ExecSpec, Exec!Spec

=============================================================================
