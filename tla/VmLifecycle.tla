---------------------------- MODULE VmLifecycle ----------------------------
(***************************************************************************)
(* The lifecycle of the Linux VM workspaces of one state directory, as the *)
(* `world` CLI drives it (crates/world-runtime/src/apple_vm.rs).  Several  *)
(* CLI processes run create, setup, teardown, delete, exec and import at   *)
(* once; what they share is the registry file, one lifecycle journal and   *)
(* one lock file per VM, a host-wide admission lock, the registry lock and *)
(* the provider (`container`) that owns the instances.                     *)
(*                                                                         *)
(* A step of a client is the code between two points where another process *)
(* can be seen: an await on the provider, a lock, a file that is replaced. *)
(* Any client may fail or be killed between two of its steps.              *)
(***************************************************************************)
EXTENDS Naturals, FiniteSets

CONSTANTS
    Names,          \* workspace ids
    Owners,         \* the random ids `create` draws; an owner names one VM
    Clients,        \* running `world` processes
    Ops,            \* the subcommands the clients use
    MaxGeneration,  \* the largest generation (u64::MAX in the code)
    MaxLate,        \* bound: calls that outlive their client, pending or still showing
    None            \* "no value"

AllOps == {"create", "setup", "teardown", "delete", "exec", "import", "show"}

ASSUME OpsAssumption == Ops \subseteq AllOps
ASSUME GenerationAssumption == MaxGeneration \in Nat
ASSUME LateAssumption == MaxLate \in Nat
ASSUME NoneAssumption == None \notin Owners \cup Clients \cup Names

VARIABLES
    \* On disk, in the state directory
    registry,       \* registry.json: the owner registered under each name
    journal,        \* <instance>.runtime.json of each owner
    \* File locks
    exclusive,      \* holder of the exclusive <instance>.lock
    shared,         \* holders of the shared <instance>.lock
    admission,      \* holder of ~/.local/share/world/vm-admission.lock
    regLock,        \* holder of registry.lock
    \* The provider
    instance,       \* state of the instance of each owner
    jobs,           \* what still runs inside the instance, by client
    late,           \* calls whose client is gone but that may still land
    \* One CLI process
    pc, op, target, \* where it is, its subcommand and its workspace id
    handle,         \* owner in the Vm value it loaded or is creating
    consent,        \* --recreate-missing or --discard-runtime-data
    copy,           \* its in-memory Lifecycle value
    records,        \* its in-memory registry
    saw,            \* whether its last inspect found an instance
    \* History, read by the properties only
    known,          \* when show read the journal, a create had been sent for the VM
    used,           \* owners drawn so far
    attempted,      \* owners for which a provider create may have been sent
    landed          \* late creates and starts its present instance comes from

diskVars == <<registry, journal>>
lockVars == <<exclusive, shared, admission, regLock>>
providerVars == <<instance, jobs, late>>
clientVars == <<pc, op, target, handle, consent, copy, records, saw, known>>
historyVars == <<used, attempted, landed>>
vars == <<diskVars, lockVars, providerVars, clientVars, historyVars>>

Phases == {"created", "provisioning", "starting", "ready", "stopping",
           "stopped", "deleting", "legacy"}
Journals == [phase : Phases, generation : 0..MaxGeneration]

\* What lifecycle() returns for a VM that has no journal file.
Legacy == [phase |-> "legacy", generation |-> 0]

InstanceStates == {"absent", "created", "running", "stopped"}
Registries == [Names -> Owners \cup {None}]
Calls == [verb : {"create", "start", "stop", "delete"}, owner : Owners]

Registered(o) == \E n \in Names : registry[n] = o

-----------------------------------------------------------------------------
(* An older release registered VMs without a journal.  A state directory   *)
(* starts empty or holds some of those.                                    *)
Init ==
    /\ registry \in {r \in Registries :
                        \A n, m \in Names : r[n] = r[m] /\ n # m => r[n] = None}
    /\ used = {o \in Owners : Registered(o)}
    /\ journal = [o \in Owners |-> Legacy]
    /\ exclusive = [o \in Owners |-> None]
    /\ shared = [o \in Owners |-> {}]
    /\ admission = None
    /\ regLock = None
    /\ instance \in {i \in [Owners -> {"absent", "stopped"}] :
                        \A o \in Owners : i[o] = "stopped" => o \in used}
    /\ jobs = [o \in Owners |-> {}]
    /\ late = {}
    /\ pc = [c \in Clients |-> "idle"]
    /\ op = [c \in Clients |-> None]
    /\ target = [c \in Clients |-> None]
    /\ handle = [c \in Clients |-> None]
    /\ consent = [c \in Clients |-> FALSE]
    /\ copy = [c \in Clients |-> Legacy]
    /\ records = [c \in Clients |-> [n \in Names |-> None]]
    /\ saw = [c \in Clients |-> FALSE]
    /\ known = [c \in Clients |-> FALSE]
    /\ attempted = used
    /\ landed = {}

-----------------------------------------------------------------------------
(* Steps shared by the operations                                          *)

\* Mutant: a lock file that survives the process that made it.
RegLockKept(c) == regLock
RegLockWithout(c) == IF regLock = c THEN None ELSE regLock

\* The process ends: its locks go with its file descriptors.
Release(c) ==
    /\ exclusive' = [o \in Owners |-> IF exclusive[o] = c THEN None ELSE exclusive[o]]
    /\ shared' = [o \in Owners |-> shared[o] \ {c}]
    /\ admission' = IF admission = c THEN None ELSE admission
    /\ regLock' = RegLockWithout(c)
    /\ pc' = [pc EXCEPT ![c] = "idle"]
    /\ op' = [op EXCEPT ![c] = None]
    /\ target' = [target EXCEPT ![c] = None]
    /\ handle' = [handle EXCEPT ![c] = None]
    /\ consent' = [consent EXCEPT ![c] = FALSE]
    /\ copy' = [copy EXCEPT ![c] = Legacy]
    /\ records' = [records EXCEPT ![c] = [n \in Names |-> None]]
    /\ saw' = [saw EXCEPT ![c] = FALSE]
    /\ known' = [known EXCEPT ![c] = FALSE]

Goto(c, label) == pc' = [pc EXCEPT ![c] = label]

\* save_lifecycle: the file is replaced as a whole by the in-memory value.
Save(c, j) ==
    /\ copy' = [copy EXCEPT ![c] = j]
    /\ journal' = [journal EXCEPT ![handle[c]] = j]

\* The CLI parses its arguments; all but create load a Vm from the registry,
\* without any lock, and keep it while they wait.
Begin(c) ==
    /\ pc[c] = "idle"
    /\ \E o \in Ops, n \in Names, f \in BOOLEAN :
        /\ f => o \in {"setup", "delete"}
        /\ o = "create" \/ registry[n] # None
        /\ Goto(c, CASE o = "create" -> "c_lock"
                     [] o = "show" -> "w_read"
                     [] OTHER -> "enter")
        /\ op' = [op EXCEPT ![c] = o]
        /\ target' = [target EXCEPT ![c] = n]
        /\ handle' = [handle EXCEPT ![c] = IF o = "create" THEN None ELSE registry[n]]
        /\ consent' = [consent EXCEPT ![c] = f]
    /\ UNCHANGED <<copy, records, saw, known, diskVars, lockVars, providerVars,
                   historyVars>>

TakesShared(c) == op[c] = "exec"

Lockable(c) ==
    /\ exclusive[handle[c]] = None
    /\ TakesShared(c) \/ shared[handle[c]] = {}

\* operation_lock: shared for exec, exclusive for the rest; never waits.
OperationLock(c) ==
    /\ pc[c] = "enter"
    /\ Lockable(c)
    /\ \/ /\ TakesShared(c)
          /\ shared' = [shared EXCEPT ![handle[c]] = @ \cup {c}]
          /\ UNCHANGED exclusive
       \/ /\ ~TakesShared(c)
          /\ exclusive' = [exclusive EXCEPT ![handle[c]] = c]
          /\ UNCHANGED shared
    /\ Goto(c, "check")
    /\ UNCHANGED <<admission, regLock, op, target, handle, consent, copy, records,
                   saw, known, diskVars, providerVars, historyVars>>

\* Mutant: the loaded Vm value is trusted.
CheckNothing(c) == TRUE
CheckRegistered(c) == registry[target[c]] = handle[c]

\* Mutant: a pending deletion does not stop setup or teardown.
PhaseAdmitsDeleting(c) ==
    op[c] \in {"exec", "import"} => journal[handle[c]].phase = "ready"
PhaseAdmits(c) ==
    /\ op[c] \in {"setup", "teardown"} => journal[handle[c]].phase # "deleting"
    /\ op[c] \in {"exec", "import"} => journal[handle[c]].phase = "ready"

Check(c) ==
    /\ pc[c] = "check"
    /\ CheckRegistered(c)
    /\ PhaseAdmits(c)
    /\ copy' = [copy EXCEPT ![c] = journal[handle[c]]]
    /\ Goto(c, CASE op[c] = "setup" -> "s_admit"
                 [] op[c] = "teardown" -> "t_inspect"
                 [] op[c] = "delete" -> "d_inspect"
                 [] OTHER -> "g_inspect")
    /\ UNCHANGED <<op, target, handle, consent, records, saw, known, diskVars, lockVars,
                   providerVars, historyVars>>

-----------------------------------------------------------------------------
(* create                                                                  *)

\* Mutant: nobody waits for registry.lock.
RegistryUnguarded == TRUE
RegistryFree == regLock = None

\* Waits for registry.lock.  A name that is taken is returned or refused.
CreateLock(c) ==
    /\ pc[c] = "c_lock"
    /\ RegistryFree
    /\ \/ registry[target[c]] # None /\ Release(c)
       \/ /\ registry[target[c]] = None
          /\ regLock' = c
          /\ records' = [records EXCEPT ![c] = registry]
          /\ Goto(c, "c_journal")
          /\ UNCHANGED <<exclusive, shared, admission, op, target, handle, consent,
                         copy, saw, known>>
    /\ UNCHANGED <<diskVars, providerVars, historyVars>>

FirstJournal == [phase |-> "created", generation |-> 0]

CreateJournal(c) ==
    /\ pc[c] = "c_journal"
    /\ \E o \in Owners \ used :
        /\ used' = used \cup {o}
        /\ handle' = [handle EXCEPT ![c] = o]
        /\ journal' = [journal EXCEPT ![o] = FirstJournal]
    /\ Goto(c, "c_register")
    /\ UNCHANGED <<registry, op, target, consent, copy, records, saw, known, lockVars,
                   providerVars, attempted, landed>>

CreateRegister(c) ==
    /\ pc[c] = "c_register"
    /\ registry' = [records[c] EXCEPT ![target[c]] = handle[c]]
    /\ Release(c)
    /\ UNCHANGED <<journal, providerVars, historyVars>>

-----------------------------------------------------------------------------
(* setup                                                                   *)

AdmissionFree == admission = None

SetupAdmit(c) ==
    /\ pc[c] = "s_admit"
    /\ AdmissionFree
    /\ admission' = c
    /\ Goto(c, "s_inspect")
    /\ UNCHANGED <<exclusive, shared, regLock, op, target, handle, consent, copy,
                   records, saw, known, diskVars, providerVars, historyVars>>

SetupInspect(c) ==
    /\ pc[c] = "s_inspect"
    /\ saw' = [saw EXCEPT ![c] = instance[handle[c]] # "absent"]
    /\ Goto(c, IF instance[handle[c]] = "running" THEN "s_probe" ELSE "s_list")
    /\ UNCHANGED <<op, target, handle, consent, copy, records, known, diskVars, lockVars,
                   providerVars, historyVars>>

\* Mutant: the phase on disk does not change before the call.
ProvisioningUnsaved(c) == copy[c]
Provisioning(c) == [copy[c] EXCEPT !.phase = "provisioning"]

\* `container list` must be empty.  An instance is created only for a VM that
\* never had one, or on request; the journal says so before the call is sent.
SetupList(c) ==
    /\ pc[c] = "s_list"
    /\ \A o \in Owners : instance[o] # "running"
    /\ \/ /\ ~saw[c]
          /\ copy[c].phase = "created" \/ consent[c]
          /\ Save(c, Provisioning(c))
          /\ attempted' = attempted \cup {handle[c]}
          /\ Goto(c, "s_create")
       \/ /\ saw[c]
          /\ Goto(c, "s_generation")
          /\ UNCHANGED <<copy, journal, attempted>>
    /\ UNCHANGED <<registry, op, target, handle, consent, records, saw, known, lockVars,
                   providerVars, used, landed>>

SetupCreate(c) ==
    /\ pc[c] = "s_create"
    /\ instance[handle[c]] = "absent"
    /\ instance' = [instance EXCEPT ![handle[c]] = "created"]
    /\ Goto(c, "s_generation")
    /\ UNCHANGED <<jobs, late, op, target, handle, consent, copy, records, saw, known,
                   diskVars, lockVars, used, attempted, landed>>

\* checked_add: no generation is left after the largest one.
GenerationLeft(c) == copy[c].generation < MaxGeneration

SetupGeneration(c) ==
    /\ pc[c] = "s_generation"
    /\ GenerationLeft(c)
    /\ Save(c, [phase |-> "starting", generation |-> copy[c].generation + 1])
    /\ Goto(c, "s_start")
    /\ UNCHANGED <<registry, op, target, handle, consent, records, saw, known, lockVars,
                   providerVars, historyVars>>

SetupStart(c) ==
    /\ pc[c] = "s_start"
    /\ instance[handle[c]] # "absent"
    /\ instance' = [instance EXCEPT ![handle[c]] = "running"]
    /\ Goto(c, "s_probe")
    /\ UNCHANGED <<jobs, late, op, target, handle, consent, copy, records, saw, known,
                   diskVars, lockVars, historyVars>>

\* The helper is installed and answers the probe; the VM is ready.
SetupProbe(c) ==
    /\ pc[c] = "s_probe"
    /\ instance[handle[c]] = "running"
    /\ journal' = [journal EXCEPT ![handle[c]] = [copy[c] EXCEPT !.phase = "ready"]]
    /\ Release(c)
    /\ UNCHANGED <<registry, providerVars, historyVars>>

-----------------------------------------------------------------------------
(* teardown                                                                *)

Stopping(c) == [copy[c] EXCEPT !.phase = "stopping"]

TeardownInspect(c) ==
    /\ pc[c] = "t_inspect"
    /\ \/ /\ instance[handle[c]] = "running"
          /\ Save(c, Stopping(c))
          /\ Goto(c, "t_stop")
       \/ /\ instance[handle[c]] # "running"
          /\ Goto(c, "t_save")
          /\ UNCHANGED <<copy, journal>>
    /\ UNCHANGED <<registry, op, target, handle, consent, records, saw, known, lockVars,
                   providerVars, historyVars>>

\* What was made of an instance by these calls is undone.
Undone(o, verbs) == landed' = {l \in landed : l.owner = o => l.verb \notin verbs}

\* Stopping an instance ends everything that runs in it.
Halt(o) ==
    /\ instance' = [instance EXCEPT ![o] = IF @ = "running" THEN "stopped" ELSE @]
    /\ jobs' = [jobs EXCEPT ![o] = {}]
    /\ Undone(o, {"start"})

TeardownStop(c) ==
    /\ pc[c] = "t_stop"
    /\ instance[handle[c]] # "absent"
    /\ Halt(handle[c])
    /\ Goto(c, "t_verify")
    /\ UNCHANGED <<late, op, target, handle, consent, copy, records, saw, known,
                   diskVars, lockVars, used, attempted>>

TeardownVerify(c) ==
    /\ pc[c] = "t_verify"
    /\ instance[handle[c]] # "running"
    /\ Goto(c, "t_save")
    /\ UNCHANGED <<op, target, handle, consent, copy, records, saw, known, diskVars,
                   lockVars, providerVars, historyVars>>

\* Mutant: a VM whose instance is gone looks as if it never had one.
StoppedForgets(c) == IF instance[handle[c]] = "absent" THEN "created" ELSE "stopped"
\* A VM that never had an instance keeps the phase that says so.
StoppedPhase(c) == IF copy[c].phase = "created" THEN "created" ELSE "stopped"

TeardownSave(c) ==
    /\ pc[c] = "t_save"
    /\ journal' = [journal EXCEPT ![handle[c]] =
                    [copy[c] EXCEPT !.phase = StoppedPhase(c)]]
    /\ Release(c)
    /\ UNCHANGED <<registry, providerVars, historyVars>>

-----------------------------------------------------------------------------
(* delete                                                                  *)

DeleteInspect(c) ==
    /\ pc[c] = "d_inspect"
    /\ \/ instance[handle[c]] = "absent"
       \/ instance[handle[c]] \in {"created", "stopped"} /\ consent[c]
    /\ saw' = [saw EXCEPT ![c] = instance[handle[c]] # "absent"]
    /\ Goto(c, "d_mark")
    /\ UNCHANGED <<op, target, handle, consent, copy, records, known, diskVars, lockVars,
                   providerVars, historyVars>>

\* Mutant: the record goes first, the instance is left for later.
AfterMarkUnregister(c) == "d_lock"
AfterMark(c) == IF saw[c] THEN "d_remove" ELSE "d_verify"

DeleteMark(c) ==
    /\ pc[c] = "d_mark"
    /\ Save(c, [journal[handle[c]] EXCEPT !.phase = "deleting"])
    /\ Goto(c, AfterMark(c))
    /\ UNCHANGED <<registry, op, target, handle, consent, records, saw, known, lockVars,
                   providerVars, historyVars>>

DeleteRemove(c) ==
    /\ pc[c] = "d_remove"
    /\ instance[handle[c]] \in {"created", "stopped"}
    /\ instance' = [instance EXCEPT ![handle[c]] = "absent"]
    /\ Undone(handle[c], {"create", "start"})
    /\ Goto(c, "d_verify")
    /\ UNCHANGED <<jobs, late, op, target, handle, consent, copy, records, saw, known,
                   diskVars, lockVars, used, attempted>>

DeleteVerify(c) ==
    /\ pc[c] = "d_verify"
    /\ instance[handle[c]] = "absent"
    /\ Goto(c, "d_lock")
    /\ UNCHANGED <<op, target, handle, consent, copy, records, saw, known, diskVars,
                   lockVars, providerVars, historyVars>>

DeleteLock(c) ==
    /\ pc[c] = "d_lock"
    /\ RegistryFree
    /\ regLock' = c
    /\ records' = [records EXCEPT ![c] = registry]
    /\ Goto(c, "d_register")
    /\ UNCHANGED <<exclusive, shared, admission, op, target, handle, consent, copy,
                   saw, known, diskVars, providerVars, historyVars>>

DeleteRegister(c) ==
    /\ pc[c] = "d_register"
    /\ records[c][target[c]] = handle[c]
    /\ registry' = [records[c] EXCEPT ![target[c]] = None]
    /\ Release(c)
    /\ UNCHANGED <<journal, providerVars, historyVars>>

-----------------------------------------------------------------------------
(* exec and import: a job inside the running instance                      *)

GuestInspect(c) ==
    /\ pc[c] = "g_inspect"
    /\ instance[handle[c]] = "running"
    /\ Goto(c, "g_launch")
    /\ UNCHANGED <<op, target, handle, consent, copy, records, saw, known, diskVars,
                   lockVars, providerVars, historyVars>>

\* Bound: a client has at most one job, so it waits out one it left behind.
GuestLaunch(c) ==
    /\ pc[c] = "g_launch"
    /\ instance[handle[c]] = "running"
    /\ \A o \in Owners : \A j \in jobs[o] : j.client # c
    /\ jobs' = [jobs EXCEPT ![handle[c]] = @ \cup {[client |-> c, kind |-> op[c]]}]
    /\ Goto(c, "g_wait")
    /\ UNCHANGED <<instance, late, op, target, handle, consent, copy, records, saw, known,
                   diskVars, lockVars, historyVars>>

\* The job ended, by itself or by the guest's cancellation, and says so.
GuestDone(c) ==
    /\ pc[c] = "g_wait"
    /\ \A j \in jobs[handle[c]] : j.client # c
    /\ Release(c)
    /\ UNCHANGED <<diskVars, providerVars, historyVars>>

-----------------------------------------------------------------------------
(* show: the journal, then the provider, and no lock around the two        *)

ShowRead(c) ==
    /\ pc[c] = "w_read"
    /\ copy' = [copy EXCEPT ![c] = journal[handle[c]]]
    /\ known' = [known EXCEPT ![c] = handle[c] \in attempted]
    /\ Goto(c, "w_inspect")
    /\ UNCHANGED <<op, target, handle, consent, records, saw, diskVars, lockVars,
                   providerVars, historyVars>>

\* The status in the answer, from the journal it read and what inspect says now.
Status(c) ==
    CASE copy[c].phase = "deleting" -> "deleting"
      [] copy[c].phase # "deleting" /\ instance[handle[c]] = "running" ->
            IF copy[c].phase = "ready" THEN "ready" ELSE "unverified"
      [] copy[c].phase # "deleting" /\ instance[handle[c]] = "stopped" -> "stopped"
      [] copy[c].phase # "deleting" /\ instance[handle[c]] = "created" -> "unverified"
      [] copy[c].phase # "deleting" /\ instance[handle[c]] = "absent" ->
            IF copy[c].phase = "created" THEN "created" ELSE "missing"

\* The inspection answers, and show prints Status(c); if it does not, show prints
\* "unknown" and ends (Fail).
ShowInspect(c) ==
    /\ pc[c] = "w_inspect"
    /\ Release(c)
    /\ UNCHANGED <<diskVars, providerVars, historyVars>>

-----------------------------------------------------------------------------
(* Failure, the provider and the guest                                     *)

\* The provider call an await of the client stands for.
CallOf(c) ==
    CASE pc[c] = "s_create" -> {[verb |-> "create", owner |-> handle[c]]}
      [] pc[c] = "s_start"  -> {[verb |-> "start", owner |-> handle[c]]}
      [] pc[c] = "t_stop"   -> {[verb |-> "stop", owner |-> handle[c]]}
      [] pc[c] = "d_remove" -> {[verb |-> "delete", owner |-> handle[c]]}
      [] OTHER -> {}

\* An error return, a timeout or a kill.  What the client asked of the
\* provider or of the guest may go on.
Drop(c) ==
    /\ Release(c)
    /\ \/ UNCHANGED late
       \/ /\ Cardinality(late \cup landed \cup CallOf(c)) <= MaxLate
          /\ late' = late \cup CallOf(c)
    /\ UNCHANGED <<diskVars, instance, jobs, historyVars>>

Waiting(c) == pc[c] \in {"c_lock", "d_lock"}

\* Mutant: the wait for a guest job has no deadline.
MayFailUnlessInGuest(c) == pc[c] \notin {"idle", "g_wait"} /\ ~Waiting(c)
MayFail(c) == pc[c] # "idle" /\ ~Waiting(c)

Fail(c) == MayFail(c) /\ Drop(c)

\* A blocking flock has no timeout: only a signal ends the wait.
Kill(c) == Waiting(c) /\ Drop(c)

\* A call whose client is gone is carried out or comes to nothing.
LateLand(l) ==
    /\ late' = late \ {l}
    /\ \/ UNCHANGED <<instance, jobs, landed>>
       \/ /\ l.verb = "create" /\ instance[l.owner] = "absent"
          /\ instance' = [instance EXCEPT ![l.owner] = "created"]
          /\ landed' = landed \cup {l}
          /\ UNCHANGED jobs
       \/ /\ l.verb = "start" /\ instance[l.owner] # "absent"
          /\ instance' = [instance EXCEPT ![l.owner] = "running"]
          /\ landed' = landed \cup {l}
          /\ UNCHANGED jobs
       \/ /\ l.verb = "stop"
          /\ Halt(l.owner)
       \/ /\ l.verb = "delete" /\ instance[l.owner] \in {"created", "stopped"}
          /\ instance' = [instance EXCEPT ![l.owner] = "absent"]
          /\ Undone(l.owner, {"create", "start"})
          /\ UNCHANGED jobs
    /\ UNCHANGED <<used, attempted, diskVars, lockVars, clientVars>>

\* The VM crashes, the host reboots it away, or a user stops it.
VmStops(o) ==
    /\ instance[o] = "running"
    /\ Halt(o)
    /\ UNCHANGED <<late, diskVars, lockVars, clientVars, used, attempted>>

\* The instance disappears behind World's back.
VmLost(o) ==
    /\ instance[o] # "absent"
    /\ instance' = [instance EXCEPT ![o] = "absent"]
    /\ jobs' = [jobs EXCEPT ![o] = {}]
    /\ Undone(o, {"create", "start"})
    /\ UNCHANGED <<late, diskVars, lockVars, clientVars, used, attempted>>

JobEnds(o, j) ==
    /\ jobs' = [jobs EXCEPT ![o] = @ \ {j}]
    /\ UNCHANGED <<instance, late, diskVars, lockVars, clientVars, historyVars>>

-----------------------------------------------------------------------------
Step(c) ==
    \/ OperationLock(c) \/ Check(c)
    \/ CreateLock(c) \/ CreateJournal(c) \/ CreateRegister(c)
    \/ SetupAdmit(c) \/ SetupInspect(c) \/ SetupList(c) \/ SetupCreate(c)
    \/ SetupGeneration(c) \/ SetupStart(c) \/ SetupProbe(c)
    \/ TeardownInspect(c) \/ TeardownStop(c) \/ TeardownVerify(c) \/ TeardownSave(c)
    \/ DeleteInspect(c) \/ DeleteMark(c) \/ DeleteRemove(c) \/ DeleteVerify(c)
    \/ DeleteLock(c) \/ DeleteRegister(c)
    \/ GuestInspect(c) \/ GuestLaunch(c) \/ GuestDone(c)
    \/ ShowRead(c) \/ ShowInspect(c)

Next ==
    \/ \E c \in Clients : Begin(c) \/ Step(c) \/ Fail(c) \/ Kill(c)
    \/ \E l \in late : LateLand(l)
    \/ \E o \in Owners : VmStops(o) \/ VmLost(o)
    \/ \E o \in Owners : \E j \in jobs[o] : JobEnds(o, j)

Spec == Init /\ [][Next]_vars

\* Every await of a client carries a timeout, so a client that cannot go on
\* fails; only the wait for the registry lock is unbounded.
FairSpec == Spec /\ \A c \in Clients : WF_vars(Step(c) \/ Fail(c))

-----------------------------------------------------------------------------
(* Properties                                                              *)

SetupSteps == {"s_admit", "s_inspect", "s_list", "s_create", "s_generation",
               "s_start", "s_probe"}
TeardownSteps == {"t_inspect", "t_stop", "t_verify", "t_save"}
DeleteSteps == {"d_inspect", "d_mark", "d_remove", "d_verify", "d_lock", "d_register"}
GuestSteps == {"g_inspect", "g_launch", "g_wait"}
CreateSteps == {"c_lock", "c_journal", "c_register"}
ShowSteps == {"w_read", "w_inspect"}
HeldSteps == SetupSteps \cup TeardownSteps \cup DeleteSteps \cup GuestSteps
Labels == {"idle", "enter", "check"} \cup CreateSteps \cup ShowSteps \cup HeldSteps

Jobs == [client : Clients, kind : {"exec", "import"}]

\* Every variable has its type, in every state of every operation.
TypeOK ==
    /\ registry \in Registries
    /\ journal \in [Owners -> Journals]
    /\ exclusive \in [Owners -> Clients \cup {None}]
    /\ shared \in [Owners -> SUBSET Clients]
    /\ admission \in Clients \cup {None}
    /\ regLock \in Clients \cup {None}
    /\ instance \in [Owners -> InstanceStates]
    /\ jobs \in [Owners -> SUBSET Jobs]
    /\ late \subseteq Calls
    /\ pc \in [Clients -> Labels]
    /\ op \in [Clients -> Ops \cup {None}]
    /\ target \in [Clients -> Names \cup {None}]
    /\ handle \in [Clients -> Owners \cup {None}]
    /\ consent \in [Clients -> BOOLEAN]
    /\ copy \in [Clients -> Journals]
    /\ records \in [Clients -> Registries]
    /\ saw \in [Clients -> BOOLEAN]
    /\ used \subseteq Owners
    /\ attempted \subseteq Owners
    /\ known \in [Clients -> BOOLEAN]
    /\ landed \subseteq Calls

\* A Vm value is loaded before the lock is taken, and the workspace may be
\* deleted, and its name reused, meanwhile.  Past the checks an operation
\* works on the VM that is registered under its name, until it ends.
RegisteredWhileHeld ==
    \A c \in Clients : pc[c] \in HeldSteps => registry[target[c]] = handle[c]

\* setup and teardown read the journal once and write that value back at each
\* stage: while they do, nobody else has changed the file.
CopyIsCurrent ==
    \A c \in Clients :
        pc[c] \in SetupSteps \cup TeardownSteps => copy[c] = journal[handle[c]]

\* From the moment exec or import found the VM ready until it ends, the
\* journal goes on saying ready: no teardown, delete or setup is in between.
ReadyWhileExecuting ==
    \A c \in Clients : pc[c] \in GuestSteps => journal[handle[c]].phase = "ready"

\* Whatever an operation goes by while it holds the workspace's lock stays true:
\* the registration it looked up, the journal it copied, the phase it checked.
HandlesStayValid == RegisteredWhileHeld /\ CopyIsCurrent /\ ReadyWhileExecuting

\* A workspace registered by this release has a journal, whatever crash hit
\* its creation: only VMs of the older release are "legacy".
FreshVmHasJournal ==
    \A o \in Owners : Registered(o) /\ o \notin attempted => journal[o].phase # "legacy"

\* show reads the journal without a lock and the provider a while later.  If a
\* create had been sent for the VM when it read the journal, and the provider has
\* no instance when it answers, the VM is reported missing (or deleting), never as
\* a workspace that was not set up yet, whatever setup, teardown and delete did
\* before and in between, and wherever they were cut short.
ShowNeverHidesLoss ==
    \A c \in Clients :
        pc[c] = "w_inspect" /\ known[c] /\ instance[handle[c]] = "absent"
            => Status(c) \in {"missing", "deleting"}

\* No state of the disk and the provider is taken for another that asks for
\* less care: neither a fresh workspace for one of the older release, nor a
\* lost instance for a workspace that was not set up yet.
LossIsVisible == FreshVmHasJournal /\ ShowNeverHidesLoss

Landed(verb, o) == [verb |-> verb, owner |-> o] \in landed

\* An instance the provider holds belongs to a registered workspace: delete
\* drops the record last.  Only a create that was carried out after its client
\* had gone can leave one that belongs to none.
NoOrphan ==
    \A o \in Owners : instance[o] # "absent" => Registered(o) \/ Landed("create", o)

\* The admission lock and the empty `container list` leave one VM running.  Of
\* two that run, one runs by a start that was carried out after its client had gone.
AtMostOneRunning ==
    \A o, p \in Owners :
        instance[o] = "running" /\ instance[p] = "running" /\ o # p
            => Landed("start", o) \/ Landed("start", p)

\* What the provider holds and runs is accounted for, or a late call's doing.
InstancesTracked == NoOrphan /\ AtMostOneRunning

\* setup sends a second provider create for a workspace only when the user
\* asked for --recreate-missing, even if the first one was cut short.
NoSilentReplacement ==
    [][\A c \in Clients :
        pc[c] # "s_create" /\ pc'[c] = "s_create" /\ handle[c] \in attempted
            => consent[c]]_vars

\* A pending deletion is never undone, and a generation is never reused.
JournalMovesForward ==
    [][\A o \in Owners :
        /\ journal[o].phase = "deleting" => journal'[o].phase = "deleting"
        /\ journal'[o].generation >= journal[o].generation]_vars

\* While an import streams into /workspace no command runs in the same VM.
CommandsNeverRaceImport ==
    \A o \in Owners : \A i, j \in jobs[o] : ~(i.kind = "import" /\ j.kind = "exec")

\* Every operation ends, or comes to wait for the registry lock; and that lock,
\* which is waited for without a timeout, is given back.
OperationsEnd ==
    \A c \in Clients : []<>((pc[c] = "idle" \/ Waiting(c)) /\ regLock # c)

\* The processes together implement the registry's promise, although each
\* rewrites the whole file from a copy and may stop anywhere.
Registry == INSTANCE WorkspaceRegistry WITH
                drawn <- used,
                retired <- {o \in used : journal[o].phase = "deleting" /\ ~Registered(o)}

RegistrySpec == Registry!Spec

=============================================================================
