----------------------------- MODULE GuestExec -----------------------------
(***************************************************************************)
(* One execution in the Linux VM: the guest supervisor that runs a command *)
(* in a cgroup of its own (crates/world-runtime/guest/supervisor.py) and   *)
(* the host side of `world exec` that launches, cancels and queries it     *)
(* (exec in crates/world-runtime/src/apple_vm.rs).  They meet only in two  *)
(* files named after the execution's token, the result and the cancel      *)
(* file; the connection between them may break at any time.                *)
(***************************************************************************)
EXTENDS Integers

CONSTANTS
    Launches,           \* supervisor processes started for this token
    Main,               \* the command's first process
    Strays,             \* further processes it may leave in its cgroup
    Codes,              \* exit codes of the command
    SupervisorsDie      \* TRUE: a supervisor may be killed

ASSUME ProcessAssumption == Main \notin Strays
ASSUME CodeAssumption == Codes \subseteq 0..123
ASSUME DieAssumption == SupervisorsDie \in BOOLEAN

VARIABLES
    \* In the guest
    result,     \* <token>.json
    cancel,     \* <token>.cancel exists
    tasks,      \* live processes of the cgroup world-exec-<token>
    doomed,     \* those that were sent SIGKILL
    status,     \* wait status of Main once it is gone
    sup,        \* where each supervisor process is
    timedOut,   \* its timed_out variable
    expired,    \* the guest deadline has passed
    up,         \* the VM runs
    \* On the host
    host,       \* where `world exec` is
    client,     \* its `container exec` process runs
    answer,     \* the exit code it returned
    \* History
    spawned     \* times the command was started

guestVars == <<result, cancel, tasks, doomed, status, sup, timedOut, expired, up, spawned>>
hostVars == <<host, client, answer>>
execVars == <<guestVars, hostVars>>

Outcomes == {"exited", "timed_out", "cancelled"}
Results == [state : {"none", "starting", "running", "failed"} \cup Outcomes, code : Nat]
Unset == -100       \* no wait status, no answer yet
Killed == -9        \* wait status of a process that SIGKILL ended
Running == {"mkdir", "check", "spawn", "record", "poll", "reap", "drain",
            "fail", "finally"}

GuestInit ==
    /\ result = [state |-> "none", code |-> 0]
    /\ cancel = FALSE
    /\ tasks = {} /\ doomed = {} /\ status = Unset
    /\ sup = [s \in Launches |-> "off"]
    /\ timedOut = [s \in Launches |-> FALSE]
    /\ expired = FALSE
    /\ up = TRUE
    /\ host = "launch" /\ client = FALSE /\ answer = Unset
    /\ spawned = 0

SupGoto(s, label) == sup' = [sup EXCEPT ![s] = label]
Write(state, code) == result' = [state |-> state, code |-> code]

\* cgroup.kill
KillGroup == doomed' = tasks

-----------------------------------------------------------------------------
(* supervisor.py run                                                       *)

\* Mutant: the result file is opened for writing, whoever made it.
ClaimableAlways == TRUE
\* open('x') succeeds for one process only.
Claimable == result.state = "none"

Claim(s) ==
    /\ sup[s] = "claim"
    /\ \/ /\ Claimable
          /\ Write("starting", 0)
          /\ SupGoto(s, "mkdir")
       \/ /\ ~Claimable
          /\ SupGoto(s, "dead")
          /\ UNCHANGED result
    /\ UNCHANGED <<cancel, tasks, doomed, status, timedOut, expired, up, spawned, hostVars>>

\* Outside the try block: if this fails the result stays "starting".
MakeGroup(s) ==
    /\ sup[s] = "mkdir"
    /\ SupGoto(s, "check") \/ SupGoto(s, "dead")
    /\ UNCHANGED <<result, cancel, tasks, doomed, status, timedOut, expired, up,
                   spawned, hostVars>>

CheckCancel(s) ==
    /\ sup[s] = "check"
    /\ \/ /\ cancel
          /\ Write("cancelled", 124)
          /\ SupGoto(s, "finally")
       \/ /\ ~cancel
          /\ SupGoto(s, "spawn")
          /\ UNCHANGED result
    /\ UNCHANGED <<cancel, tasks, doomed, status, timedOut, expired, up, spawned, hostVars>>

\* Popen: the child enters the cgroup before it executes anything.
Spawn(s) ==
    /\ sup[s] = "spawn"
    /\ tasks' = tasks \cup {Main}
    /\ status' = Unset
    /\ spawned' = spawned + 1
    /\ SupGoto(s, "record")
    /\ UNCHANGED <<result, cancel, doomed, timedOut, expired, up, hostVars>>

Record(s) ==
    /\ sup[s] = "record"
    /\ Write("running", 0)
    /\ SupGoto(s, "poll")
    /\ UNCHANGED <<cancel, tasks, doomed, status, timedOut, expired, up, spawned, hostVars>>

\* Mutant: the poll loop does not look at the clock.
CancelOnly == cancel
StopRequested == cancel \/ expired

Poll(s) ==
    /\ sup[s] = "poll"
    /\ \/ /\ Main \notin tasks
          /\ UNCHANGED <<doomed, timedOut>>
       \/ /\ Main \in tasks /\ StopRequested
          /\ timedOut' = [timedOut EXCEPT ![s] = TRUE]
          /\ KillGroup
    /\ SupGoto(s, "reap")
    /\ UNCHANGED <<result, cancel, tasks, status, expired, up, spawned, hostVars>>

\* child.wait, then the second cgroup.kill that also ends detached children.
Reap(s) ==
    /\ sup[s] = "reap"
    /\ Main \notin tasks
    /\ KillGroup
    /\ SupGoto(s, "drain")
    /\ UNCHANGED <<result, cancel, tasks, status, timedOut, expired, up, spawned, hostVars>>

Outcome(s) ==
    IF timedOut[s]
    THEN [state |-> IF cancel THEN "cancelled" ELSE "timed_out", code |-> 124]
    ELSE [state |-> "exited", code |-> IF status >= 0 THEN status ELSE 128 - status]

\* Mutant: completion is reported without waiting for the cgroup to empty.
DrainedAlways == TRUE
\* cgroup.events says "populated 0".
Drained == tasks = {}

\* The outcome is written once the cgroup is empty; after 100 tries, not.
Drain(s) ==
    /\ sup[s] = "drain"
    /\ \/ /\ Drained
          /\ result' = Outcome(s)
          /\ SupGoto(s, "finally")
       \/ /\ tasks # {}
          /\ SupGoto(s, "fail")
          /\ UNCHANGED result
    /\ UNCHANGED <<cancel, tasks, doomed, status, timedOut, expired, up, spawned, hostVars>>

\* Anything in the try block may raise: Popen, a write, the cgroup files.
Raise(s) ==
    /\ sup[s] \in {"check", "spawn", "record", "poll", "reap", "drain"}
    /\ SupGoto(s, "fail")
    /\ UNCHANGED <<result, cancel, tasks, doomed, status, timedOut, expired, up,
                   spawned, hostVars>>

\* The except clause; writing "failed" may fail as well.
Except(s) ==
    /\ sup[s] = "fail"
    /\ Write("failed", 125) \/ UNCHANGED result
    /\ SupGoto(s, "finally")
    /\ UNCHANGED <<cancel, tasks, doomed, status, timedOut, expired, up, spawned, hostVars>>

\* The finally clause kills the group, waits for the child and removes the
\* group if it is empty.
Finally(s) ==
    /\ sup[s] = "finally"
    /\ KillGroup
    /\ SupGoto(s, "join")
    /\ UNCHANGED <<result, cancel, tasks, status, timedOut, expired, up, spawned, hostVars>>

Join(s) ==
    /\ sup[s] = "join"
    /\ Main \notin tasks
    /\ SupGoto(s, "dead")
    /\ UNCHANGED <<result, cancel, tasks, doomed, status, timedOut, expired, up,
                   spawned, hostVars>>

SupStep(s) ==
    \/ Claim(s) \/ MakeGroup(s) \/ CheckCancel(s) \/ Spawn(s) \/ Record(s) \/ Poll(s)
    \/ Reap(s) \/ Drain(s) \/ Except(s) \/ Finally(s) \/ Join(s)

-----------------------------------------------------------------------------
(* The command, time and failures in the guest                             *)

MainExits(c) ==
    /\ Main \in tasks
    /\ tasks' = tasks \ {Main} /\ doomed' = doomed \ {Main}
    /\ status' = c
    /\ UNCHANGED <<result, cancel, timedOut, sup, expired, up, spawned, hostVars>>

\* A process that was not killed forks; setsid does not leave the cgroup.
Fork(t) ==
    /\ tasks \ doomed # {}
    /\ t \notin tasks
    /\ tasks' = tasks \cup {t}
    /\ UNCHANGED <<result, cancel, doomed, status, timedOut, sup, expired, up, spawned,
                   hostVars>>

StrayExits(t) ==
    /\ t \in tasks
    /\ tasks' = tasks \ {t} /\ doomed' = doomed \ {t}
    /\ UNCHANGED <<result, cancel, status, timedOut, sup, expired, up, spawned, hostVars>>

\* SIGKILL takes effect.
Dies(t) ==
    /\ t \in doomed
    /\ tasks' = tasks \ {t} /\ doomed' = doomed \ {t}
    /\ status' = IF t = Main THEN Killed ELSE status
    /\ UNCHANGED <<result, cancel, timedOut, sup, expired, up, spawned, hostVars>>

DeadlinePasses ==
    /\ ~expired
    /\ \E s \in Launches : sup[s] \in {"poll", "reap", "drain"}
    /\ expired' = TRUE
    /\ UNCHANGED <<result, cancel, tasks, doomed, status, timedOut, sup, up, spawned,
                   hostVars>>

\* A supervisor is killed; "dead" is one that came to its end.
SupDies(s) ==
    /\ SupervisorsDie
    /\ sup[s] \notin {"off", "dead", "killed"}
    /\ SupGoto(s, "killed")
    /\ UNCHANGED <<result, cancel, tasks, doomed, status, timedOut, expired, up,
                   spawned, hostVars>>

\* The VM stops: its processes are gone, its files are not.
GuestVmStops ==
    /\ up /\ up' = FALSE
    /\ tasks' = {} /\ doomed' = {}
    /\ status' = IF Main \in tasks THEN Killed ELSE status
    /\ sup' = [s \in Launches |-> "dead"]
    /\ client' = FALSE
    /\ UNCHANGED <<result, cancel, timedOut, expired, spawned, host, answer>>

\* The provider starts the supervisor again for the same request.
Relaunch(s) ==
    /\ up /\ client /\ sup[s] = "off"
    /\ SupGoto(s, "claim")
    /\ UNCHANGED <<result, cancel, tasks, doomed, status, timedOut, expired, up,
                   spawned, hostVars>>

-----------------------------------------------------------------------------
(* `world exec` on the host                                                *)

\* A signal that came before the launch: nothing is executed.
HostEarlyCancel ==
    /\ host = "launch"
    /\ host' = "returned" /\ answer' = 124
    /\ UNCHANGED <<client, guestVars>>

HostLaunch ==
    /\ host = "launch"
    /\ host' = "wait" /\ client' = up
    /\ \/ up /\ \E s \in Launches : SupGoto(s, "claim")
       \/ ~up /\ UNCHANGED sup
    /\ UNCHANGED <<answer, result, cancel, tasks, doomed, status, timedOut, expired, up,
                   spawned>>

\* `container exec` ends with the supervisor, or because the connection broke.
ClientEnds ==
    /\ client /\ client' = FALSE
    /\ UNCHANGED <<host, answer, guestVars>>

HostWaited ==
    /\ host = "wait" /\ ~client
    /\ host' = "status"
    /\ UNCHANGED <<client, answer, guestVars>>

\* Mutant: only a signal ends the wait, and none need come.
InterruptedBySignal == cancel
\* The user's signal, or duration + 10 seconds.
Interrupted == TRUE

HostInterrupted ==
    /\ host = "wait" /\ Interrupted
    /\ host' = "cancel"
    /\ UNCHANGED <<client, answer, guestVars>>

\* supervisor.py cancel; the call may time out whether or not it got there.
HostCancel ==
    /\ host = "cancel"
    /\ \/ up /\ cancel' = TRUE /\ host' \in {"await", "error"}
       \/ UNCHANGED cancel /\ host' = "error"
    /\ UNCHANGED <<client, answer, result, tasks, doomed, status, sup, timedOut,
                   expired, up, spawned>>

\* Ten seconds for `container exec` to end, then it is killed.
HostAwait ==
    /\ host = "await"
    /\ host' = IF client THEN "error" ELSE "status"
    /\ client' = FALSE
    /\ UNCHANGED <<answer, guestVars>>

\* Mutant: the end of `container exec` is taken for the end of the command.
AcceptAny == TRUE
Accept == result.state \in Outcomes

\* supervisor.py status; only a recorded outcome is returned.
HostStatus ==
    /\ host = "status"
    /\ \/ up /\ Accept /\ answer' = result.code /\ host' = "returned"
       \/ ~(up /\ Accept) /\ host' = "error" /\ UNCHANGED answer
    /\ UNCHANGED <<client, guestVars>>

\* An error return or a kill.
HostFails ==
    /\ host \notin {"returned", "error"}
    /\ host' = "error" /\ client' = FALSE
    /\ UNCHANGED <<answer, guestVars>>

HostStep ==
    HostEarlyCancel \/ HostLaunch \/ HostWaited \/ HostInterrupted \/ HostCancel
        \/ HostAwait \/ HostStatus

-----------------------------------------------------------------------------
GuestNext ==
    \/ HostStep \/ HostFails \/ ClientEnds \/ GuestVmStops \/ DeadlinePasses
    \/ \E s \in Launches : SupStep(s) \/ Raise(s) \/ SupDies(s) \/ Relaunch(s)
    \/ \E c \in Codes : MainExits(c)
    \/ \E t \in Strays : Fork(t) \/ StrayExits(t)
    \/ \E t \in Strays \cup {Main} : Dies(t)

GuestSpec == GuestInit /\ [][GuestNext]_execVars

\* Processes are scheduled, SIGKILL takes effect, and time passes: HostStep
\* is never stuck, because each of its waits has a timer.  No exception need
\* be raised.
FairGuestSpec ==
    /\ GuestSpec
    /\ WF_execVars(HostStep)
    /\ WF_execVars(DeadlinePasses)
    /\ \A s \in Launches : WF_execVars(SupStep(s))
    /\ \A t \in Strays \cup {Main} : WF_execVars(Dies(t))

-----------------------------------------------------------------------------
(* Properties                                                              *)

\* Every variable has its type.
GuestTypeOK ==
    /\ result \in Results
    /\ cancel \in BOOLEAN /\ expired \in BOOLEAN /\ up \in BOOLEAN /\ client \in BOOLEAN
    /\ tasks \subseteq Strays \cup {Main}
    /\ doomed \subseteq tasks
    /\ status \in Codes \cup {Unset, Killed}
    /\ sup \in [Launches -> {"off", "claim", "join", "dead", "killed"} \cup Running]
    /\ timedOut \in [Launches -> BOOLEAN]
    /\ host \in {"launch", "wait", "cancel", "await", "status", "returned", "error"}
    /\ answer \in Nat \cup {Unset}
    /\ spawned \in Nat

\* When `world exec` returns an exit code, no process of the command is left
\* in the VM, however the connection, the signal and the deadline raced.
AnswerMeansGone == host = "returned" => tasks = {}

\* A code of the command's own is returned only if the command exited with
\* it: a kill, a lost VM or a lost connection is never reported as success.
AnswerIsTrue == answer \in Codes => status = answer

\* The command is reported cancelled only if somebody asked for it.
CancelledWasAsked == result.state = "cancelled" => cancel

\* A reported outcome is true: a code is the command's own, a cancellation was
\* asked for.
ReportsAreTrue == AnswerIsTrue /\ CancelledWasAsked

\* The supervisor that polls the command sees to it that every process of the
\* command ends, at the guest deadline at the latest, even if the host and its
\* connection are gone, the writes fail or the cgroup does not empty in time:
\* only if that supervisor is itself killed may some go on.
DeadlineEndsCommand ==
    \A s \in Launches : sup[s] = "poll" ~> tasks = {} \/ sup[s] = "killed"

\* `world exec` ends, whatever becomes of the connection and the guest.
HostEnds == <>(host \in {"returned", "error"})

\* Supervisor, command and host together implement one execution.
Exec == INSTANCE Execution WITH
            started <- spawned > 0,
            alive <- tasks # {},
            conclusion <- IF result.state \in Outcomes \cup {"failed"}
                          THEN result.state ELSE "none"

ExecSpec == Exec!Spec

=============================================================================
