----------------------------- MODULE Supervise -----------------------------
(***************************************************************************)
(* One sandboxed execution: `world network exec` and the native            *)
(* `world exec` (crates/world-runtime/src/run.rs; the Linux part of        *)
(* spawning and the PID namespace in linux.rs; the callers in silo.rs).    *)
(* The workload, the supervisor's select over cancellation, deadline and   *)
(* exit, the output forwarding tasks and the proxy run concurrently.       *)
(*                                                                         *)
(* On Linux the forked child is a wrapper that waits for the init of a new *)
(* PID namespace, which waits for the workload; elsewhere the child is the *)
(* workload.  A stray is a descendant that left the process group; one     *)
(* called a daemon also closed its output.  At most one runs at a time.  A *)
(* chunk stands for any piece of output.  Setup before exec (namespaces,   *)
(* mounts, landlock, seccomp, descriptors) succeeds or fails as a whole.   *)
(* A caller that reaps the child itself, and a recycled process-group ID,  *)
(* are left out.                                                           *)
(***************************************************************************)
EXTENDS Proxy

CONSTANTS
    Backends,   \* of "network", "silo" (Linux), "seatbelt", "inject" (macOS)
    MaxChunks   \* bound: chunks a workload writes to one stream

ASSUME SuperviseAssumption ==
    /\ Backends \subseteq {"network", "silo", "seatbelt", "inject"}
    /\ MaxChunks \in Nat

VARIABLES
    backend,
    pc,         \* where the supervisor is
    status,     \* what select chose: "exit", "none"; "" before
    result,     \* what the execution returns; "" before
    cancelled,  \* the caller's cancellation token
    late,       \* the deadline has passed
    alive,      \* processes of the execution
    doomed,     \* those sent SIGKILL
    reaped,     \* the child has been waited for
    confirmed,  \* the injected library wrote its acknowledgment
    wrote,      \* chunks written to each stream
    sent,       \* chunks its forwarding task passed on
    fwd         \* the forwarding task of each stream

procVars == <<alive, doomed, reaped, confirmed>>
outVars == <<wrote, sent, fwd>>
hostVars == <<pc, status, result>>
vars == <<proxyVars, procVars, outVars, hostVars, backend, cancelled, late>>

Streams == {"out", "err"}
PidNamespace == backend \in {"network", "silo"}
Proxied == backend \in {"network", "seatbelt"} /\ Allow # {}
NeedsAck == backend = "inject"
Child == IF PidNamespace THEN "wrapper" ELSE "workload"
Family == IF PidNamespace THEN {"wrapper", "init", "workload"} ELSE {"workload"}
Strays == {"stray", "daemon"}
Writers == alive \cap {"workload", "stray"}

TypeOK ==
    /\ ProxyTypeOK
    /\ backend \in Backends
    /\ pc \in {"prepare", "spawn", "serve", "select", "close", "join", "drain", "guard",
               "reap", "out", "err", "ack", "drop", "dropped", "done"}
    /\ status \in {"", "exit", "none"}
    /\ result \in {"", "code", "124", "error", "abandoned"}
    /\ cancelled \in BOOLEAN /\ late \in BOOLEAN
    /\ alive \subseteq {"wrapper", "init", "workload"} \cup Strays /\ doomed \subseteq alive
    /\ reaped \in BOOLEAN /\ confirmed \in BOOLEAN
    /\ {wrote, sent} \subseteq [Streams -> 0..MaxChunks]
    /\ \A s \in Streams : sent[s] <= wrote[s]
    /\ fwd \in [Streams -> {"off", "on", "eof", "error", "aborted"}]
    /\ reaped => Child \notin alive

Init ==
    /\ backend \in Backends
    /\ ProxyInit /\ (Proxied \/ dns = [h \in Names |-> Public])
    /\ pc = "prepare" /\ status = "" /\ result = ""
    /\ cancelled = FALSE /\ late = FALSE
    /\ alive = {} /\ doomed = {} /\ reaped = FALSE /\ confirmed = FALSE
    /\ wrote = [s \in Streams |-> 0] /\ sent = [s \in Streams |-> 0]
    /\ fwd = [s \in Streams |-> "off"]

-----------------------------------------------------------------------------
(* The environment and the workload's processes.                           *)

Unsupervised == <<proxyVars, hostVars, backend>>

CancelRequested ==
    /\ ~cancelled /\ cancelled' = TRUE
    /\ UNCHANGED <<Unsupervised, procVars, outVars, late>>

DeadlinePasses ==
    /\ ~late /\ late' = TRUE
    /\ UNCHANGED <<Unsupervised, procVars, outVars, cancelled>>

Fork(p) ==
    /\ "workload" \in alive /\ alive \cap Strays = {}
    /\ alive' = alive \cup {p}
    /\ UNCHANGED <<Unsupervised, outVars, doomed, reaped, confirmed, cancelled, late>>

\* The loader runs the library before the workload's own code.
Confirm ==
    /\ NeedsAck /\ "workload" \in alive /\ ~confirmed /\ confirmed' = TRUE
    /\ UNCHANGED <<Unsupervised, outVars, alive, doomed, reaped, cancelled, late>>

Write(s) ==
    /\ Writers # {} /\ wrote[s] < MaxChunks
    /\ wrote' = [wrote EXCEPT ![s] = @ + 1]
    /\ UNCHANGED <<Unsupervised, procVars, sent, fwd, cancelled, late>>

\* What a process waits for before it can exit by itself: the wrapper for the
\* init, the init for the workload.  A dying init kills the whole namespace and
\* is gone only after it.
Waits(p) ==
    CASE p = "wrapper" -> "init" \in alive
      [] p = "init" -> "workload" \in alive
      [] OTHER -> FALSE

Namespace == IF PidNamespace THEN {"workload"} \cup Strays ELSE {}

Dies(p) ==
    /\ p \in alive /\ (p \in doomed \/ ~Waits(p))
    /\ IF p = "init" /\ alive \cap Namespace # {}
       THEN doomed' = doomed \cup (alive \cap Namespace) /\ alive' = alive
       ELSE alive' = alive \ {p} /\ doomed' = doomed \ {p}
    /\ UNCHANGED <<Unsupervised, outVars, reaped, confirmed, cancelled, late>>

-----------------------------------------------------------------------------
(* forward(): one task copies each stream until its end or an error.       *)

Copy(s) ==
    /\ fwd[s] = "on" /\ sent[s] < wrote[s]
    /\ sent' = [sent EXCEPT ![s] = @ + 1]
    /\ UNCHANGED <<Unsupervised, procVars, wrote, fwd, cancelled, late>>

\* Mutant: the end is seen once nobody writes, whatever is still in the pipe.
AtEndEarly(s) == Writers = {}

AtEnd(s) == Writers = {} /\ sent[s] = wrote[s]

Eof(s) ==
    /\ fwd[s] = "on" /\ AtEnd(s)
    /\ fwd' = [fwd EXCEPT ![s] = "eof"]
    /\ UNCHANGED <<Unsupervised, procVars, wrote, sent, cancelled, late>>

CopyFails(s) ==
    /\ fwd[s] = "on" /\ sent[s] < wrote[s]
    /\ fwd' = [fwd EXCEPT ![s] = "error"]
    /\ UNCHANGED <<Unsupervised, procVars, wrote, sent, cancelled, late>>

-----------------------------------------------------------------------------
(* The supervisor.                                                         *)

At(from, to) == pc = from /\ pc' = to
Return(r) == pc' = "done" /\ result' = r

Expired == cancelled \/ late

\* The command, the timeout, the workdir or the way SIGCHLD is handled will not do.
Refuse == pc = "prepare" /\ Return("error") /\ UNCHANGED proxyVars

\* A proxy resolves its routes under the cancellation and deadline of the execution.
GivesUp == \/ Expired /\ Return("124") /\ UNCHANGED proxyVars
           \/ ~Expired /\ Refused /\ Return("error") /\ UNCHANGED proxyVars
Goes == pc' = "spawn" /\ UNCHANGED result
PrepareNetwork ==
    /\ pc = "prepare" /\ backend = "network"
    /\ \/ ~Proxied /\ Goes /\ UNCHANGED proxyVars
       \/ Proxied /\ ~Expired /\ Prepared /\ Goes
       \/ Proxied /\ GivesUp
\* On macOS it serves before there is a workload; what fails between the two (the
\* profile) drops it.
PrepareSeatbelt ==
    /\ pc = "prepare" /\ backend = "seatbelt"
    /\ \/ ~Proxied /\ Goes /\ UNCHANGED proxyVars
       \/ Proxied /\ ~Expired /\ Started /\ Goes
       \/ Proxied /\ ~Expired /\ Started /\ pc' = "drop" /\ result' = "error"
       \/ Proxied /\ GivesUp
\* The executable is found and fit to be injected, or (Linux) the holder's namespaces
\* are open.
PrepareNative ==
    /\ pc = "prepare" /\ backend \in {"silo", "inject"}
    /\ Goes /\ UNCHANGED proxyVars

Prepare ==
    /\ Refuse \/ PrepareNetwork \/ PrepareSeatbelt \/ PrepareNative
    /\ UNCHANGED <<procVars, outVars, status, backend, cancelled, late>>

\* linux::spawn / run::spawn: a failed setup or exec is reported and reaped, and a
\* proxy that serves already is closed.  The forwarding tasks start with the workload.
Serving == Proxied /\ backend = "seatbelt"
GoesNot(r) == pc' = (IF Serving THEN "close" ELSE "done") /\ result' = r
Spawn ==
    /\ pc = "spawn"
    /\ \/ /\ Expired /\ GoesNot("124") /\ UNCHANGED <<alive, fwd>>
       \/ /\ ~Expired /\ GoesNot("error") /\ UNCHANGED <<alive, fwd>>
       \/ /\ ~Expired /\ alive' = Family
          /\ fwd' = [s \in Streams |-> "on"]
          /\ pc' = IF Proxied /\ ~Serving THEN "serve" ELSE "select"
          /\ UNCHANGED result
    /\ UNCHANGED <<proxyVars, doomed, reaped, confirmed, wrote, sent, status, backend,
                   cancelled, late>>

\* The listeners made in the workload's namespace arrive (an IPv6 one if it can
\* be had), or the execution fails and drops its workload.
Start ==
    /\ pc = "serve"
    /\ \/ /\ \E ls \in SUBSET Listeners : ls # {} /\ Serve(ls)
          /\ pc' = "select" /\ UNCHANGED result
       \/ /\ pc' = "drop" /\ result' = "error" /\ UNCHANGED proxyVars
    /\ UNCHANGED <<procVars, outVars, status, backend, cancelled, late>>

\* The biased select: an unconfirmed injection (after two seconds), cancellation,
\* the deadline, the child's exit.
Exited == Child \notin alive

Select ==
    /\ pc = "select"
    /\ \/ /\ NeedsAck /\ ~confirmed /\ status' = "none" /\ UNCHANGED reaped
       \/ /\ Expired /\ status' = "none" /\ UNCHANGED reaped
       \/ /\ ~Expired /\ Exited /\ status' = "exit" /\ reaped' = TRUE
    /\ pc' = IF Proxied THEN "close" ELSE "guard"
    /\ UNCHANGED <<proxyVars, outVars, result, alive, doomed, confirmed, backend,
                   cancelled, late>>

\* Proxy::close
CloseCancel ==
    /\ At("close", "join") /\ Cancel
    /\ UNCHANGED <<procVars, outVars, status, result, backend, cancelled, late>>

CloseJoin ==
    /\ At("join", "drain") /\ Joined
    /\ UNCHANGED <<proxyVars, procVars, outVars, status, result, backend, cancelled, late>>

CloseWait ==
    /\ At("drain", IF result = "" THEN "guard" ELSE "done") /\ Drained
    /\ UNCHANGED <<proxyVars, procVars, outVars, status, result, backend, cancelled, late>>

\* Mutant: only the child is killed.
KillChild == doomed' = doomed \cup (alive \cap {Child})

\* The guard is dropped: the whole process group is killed.
KillGroup == doomed' = doomed \cup (alive \cap Family)

Guard ==
    /\ pc = "guard" /\ KillGroup
    /\ pc' = IF status = "none" THEN "reap" ELSE "out"
    /\ UNCHANGED <<proxyVars, outVars, alive, reaped, confirmed, status, result, backend,
                   cancelled, late>>

Reap ==
    /\ At("reap", "out") /\ Exited /\ reaped' = TRUE
    /\ UNCHANGED <<proxyVars, outVars, alive, doomed, confirmed, status, result, backend,
                   cancelled, late>>

\* The drain of one stream.  After an exit it waits for the end of the stream,
\* until cancellation or the deadline turns the execution into a 124; then, and
\* without an exit, it waits a second and aborts the task.
After(s) == IF s = "out" THEN "err" ELSE "ack"

Drain(s) ==
    /\ pc = s
    /\ \/ /\ status = "exit" /\ Expired
          /\ status' = "none" /\ UNCHANGED <<pc, result, fwd>>
       \/ /\ status = "exit" /\ ~Expired /\ fwd[s] = "eof"
          /\ pc' = After(s) /\ UNCHANGED <<status, result, fwd>>
       \/ /\ status = "exit" /\ ~Expired /\ fwd[s] = "error"
          /\ pc' = "dropped" /\ result' = "error" /\ UNCHANGED <<status, fwd>>
       \/ /\ status = "none" /\ pc' = After(s)
          /\ fwd' = [fwd EXCEPT ![s] = IF @ = "on" THEN "aborted" ELSE @]
          /\ UNCHANGED <<status, result>>
    /\ UNCHANGED <<proxyVars, procVars, wrote, sent, backend, cancelled, late>>

Answered == IF status = "exit" THEN "code" ELSE "124"

Finish ==
    /\ pc = "ack"
    /\ Return(IF NeedsAck /\ ~confirmed THEN "error" ELSE Answered)
    /\ UNCHANGED <<proxyVars, procVars, outVars, status, backend, cancelled, late>>

\* The caller drops the future at one of its awaits.
Awaits == {"prepare", "select", "join", "drain", "reap", "out", "err"}

Abandon ==
    /\ pc \in Awaits /\ pc' = "drop" /\ result' = "abandoned"
    /\ UNCHANGED <<proxyVars, procVars, outVars, status, backend, cancelled, late>>

\* The workload's guard and child are dropped: the group is killed and the child
\* is reaped; the forwarding tasks go on detached.
Drop ==
    /\ At("drop", "dropped") /\ KillGroup
    /\ UNCHANGED <<proxyVars, outVars, alive, reaped, confirmed, status, result, backend,
                   cancelled, late>>

\* A Linux child is waited for there and then, another one behind the caller's
\* back; the proxy is dropped last, which only cancels it.
Dropped ==
    /\ At("dropped", "done")
    /\ PidNamespace => Exited
    /\ reaped' = (reaped \/ (PidNamespace /\ fwd # [s \in Streams |-> "off"]))
    /\ Cancel
    /\ UNCHANGED <<outVars, alive, doomed, confirmed, status, result, backend,
                   cancelled, late>>

Host ==
    \/ Prepare \/ Spawn \/ Start \/ Select \/ CloseCancel \/ CloseJoin \/ CloseWait
    \/ Guard \/ Reap \/ Finish \/ Drop \/ Dropped
    \/ \E s \in Streams : Drain(s)

Others == <<procVars, outVars, hostVars, backend, cancelled, late>>

Terminated ==
    /\ pc = "done" /\ alive = {}
    /\ UNCHANGED vars

Next ==
    \/ Host \/ Abandon \/ Terminated
    \/ CancelRequested \/ DeadlinePasses \/ Confirm
    \/ \E p \in Strays : Fork(p)
    \/ \E p \in alive : Dies(p)
    \/ \E s \in Streams : Write(s) \/ Copy(s) \/ Eof(s) \/ CopyFails(s)
    \/ Proxied /\ ProxyStep /\ UNCHANGED Others
    \/ /\ Proxied /\ pc # "done" /\ UNCHANGED Others
       /\ \E h \in Names, a \in Addrs : Rebind(h, a)

Spec == Init /\ [][Next]_vars

\* The runtime polls its tasks, timers fire and the kernel delivers SIGKILL; the
\* workload, the consumer of its output and its peers owe nothing.
Fairness ==
    /\ WF_vars(Host) /\ WF_vars(DeadlinePasses)
    /\ WF_vars(Dies("wrapper")) /\ WF_vars(Dies("init"))
    /\ \A p \in {"wrapper", "init", "workload"} \cup Strays : WF_vars(p \in doomed /\ Dies(p))
    /\ \A l \in Listeners : WF_vars((Track(l) \/ LoopEnds(l)) /\ UNCHANGED Others)
    /\ \A c \in Conns : WF_vars(token /\ ServeEnds(c) /\ UNCHANGED Others)
    /\ WF_vars(token /\ (\E r \in relaying : RelayEnds(r)) /\ UNCHANGED Others)

FairSpec == Spec /\ Fairness

-----------------------------------------------------------------------------
\* An execution that reports its workload's exit has passed on every byte written
\* to either stream (run.rs:446-464: "retain every byte on successful exit").
CodeMeansComplete ==
    result = "code" => \A s \in Streams : sent[s] = wrote[s]

\* On Linux, when an exit is reported no process of the execution is left, those
\* that left its process group included (linux.rs:1046-1068).
CodeMeansGone ==
    result = "code" /\ PidNamespace => alive = {}

\* 124 is only answered to a cancellation or a passed deadline (an injected library
\* that confirms late, between the check and the kill, apart).
TimeoutIsReal == result = "124" => cancelled \/ late \/ NeedsAck

\* What is reported is what happened.
ResultIsTrue == CodeMeansComplete /\ CodeMeansGone /\ TimeoutIsReal

\* Once close has returned, no accept loop, connection or relay of the proxy is
\* left, and none starts again, although a connection may be accepted just as it
\* cancels and a request may start a relay after that (proxy.rs:155).
QuietAfterClose ==
    /\ Proxied
    /\ pc \in {"guard", "reap", "out", "err", "ack"} \/ (pc = "done" /\ result \in {"code", "124"})
    => Joined /\ Drained

\* An execution ends: the proxy's close, the kill, the reaping and the drain of the
\* output never wait for the workload, its strays or a stalled reader.  Whatever way
\* it ends, a dropped future included, nothing of its process group survives, and on
\* Linux nothing of its PID namespace.
SupervisionEnds ==
    <>[](pc = "done" /\ alive \subseteq IF PidNamespace THEN {} ELSE Strays)
=============================================================================
