----------------------------- MODULE HolderStart -----------------------------
(***************************************************************************)
(* One start of a namespace holder with its outbound network, and its      *)
(* stop (crates/world-runtime/src/linux.rs): the caller of setup, the      *)
(* holder it forks, the monitor the holder forks and the pasta process     *)
(* that the monitor runs, joined by three channels.                        *)
(*                                                                         *)
(*   report  holder -> caller: its PID, a status, the monitor's PID        *)
(*   ack     caller -> holder: "p" once pinned, "c" once recorded          *)
(*   life    holder -> monitor: a byte starts pasta, the end stops it      *)
(*                                                                         *)
(* The caller, the holder and the monitor may be killed at any point, and  *)
(* fail where their system calls may; pasta may end at any point.  pasta   *)
(* is ended by its monitor alone: killing that leaves it running.          *)
(* LinuxHolder has the registry, the record and the other clients around   *)
(* this; pidfds are available.                                             *)
(***************************************************************************)
EXTENDS Naturals, Sequences

VARIABLES
    subreaper,  \* the caller adopts the orphans of its descendants
    wants,      \* pasta is installed: setup asks for outbound network
    caller,     \* where setup, then teardown, stands
    egress,     \* what setup recorded: Holder.egress and Holder.monitor
    holder,     \* where the holder stands
    after,      \* what it does once its monitor is finished
    connected,  \* the holder keeps a life pipe
    monitor,    \* where the monitor stands
    pasta,      \* none, starting, up (network configured), exited, reaped
    report, ack, life,  \* bytes under way
    lifeOpen,   \* the holder has not closed its end of the life pipe
    \* History, read by the properties only
    orphaned    \* the monitor was killed while it watched pasta
startVars == <<subreaper, wants, caller, egress, holder, after, connected, monitor, pasta,
               report, ack, life, lifeOpen, orphaned>>

\* Where a process that has ended may be: unreaped, or gone.
Ended == {"exited", "killed"}
HolderGone == holder \in Ended \cup {"reaped"}
MonitorGone == monitor \in {"none", "exited", "reaped"}
CallerAlive == caller # "dead"
PastaRuns == pasta \in {"starting", "up"}
LifeEnds == HolderGone \/ ~lifeOpen

StartInit ==
    /\ subreaper \in BOOLEAN /\ wants \in BOOLEAN
    /\ caller = "pid" /\ egress = FALSE
    /\ holder = "pid" /\ after = "none" /\ connected = FALSE
    /\ monitor = "none" /\ pasta = "none"
    /\ report = <<>> /\ ack = <<>> /\ life = <<>> /\ lifeOpen = FALSE
    /\ orphaned = FALSE

-----------------------------------------------------------------------------
(* The channels                                                            *)

Caller(to) == caller' = to
\* The monitor has the holder's descriptors until it has moved its own in place.
ReportEnds == HolderGone /\ monitor # "setup" /\ report = <<>>
AckHeard == ~HolderGone \/ monitor = "setup"
\* "c" or "p" is there, or the caller has closed its end.
AckOpen == caller \in {"pid", "pin", "status", "monitor", "observe", "persist", "commit"}

-----------------------------------------------------------------------------
(* start_holder                                                            *)

kept == <<subreaper, wants, orphaned>>
held == <<holder, after, connected, monitor, pasta, life, lifeOpen>>

\* Mutant: the caller does not see that nobody is left to write.
NextStatusOnly ==
    /\ caller = "status" /\ report # <<>> /\ report' = Tail(report)
    /\ Caller(IF Head(report) = "error" THEN "reap" ELSE IF wants THEN "monitor" ELSE "observe")
    /\ UNCHANGED <<kept, held, egress, ack>>

\* Unreadable, or not pinned: the caller gives up and the holder sees the end.
NextPid ==
    /\ caller = "pid"
    /\ \/ report # <<>> /\ report' = Tail(report) /\ Caller("pin")
       \/ ReportEnds /\ Caller("failed") /\ UNCHANGED report
    /\ UNCHANGED <<kept, held, egress, ack>>
PinHolder ==
    /\ caller = "pin"
    /\ \/ AckHeard /\ ack' = Append(ack, "p") /\ Caller("status")
       \/ ~AckHeard /\ Caller("reap") /\ UNCHANGED ack
       \/ Caller("failed") /\ UNCHANGED ack
    /\ UNCHANGED <<kept, held, egress, report>>

AfterStatus(s) ==
    CASE s = "error" -> "reap"
      [] s = "ok" /\ wants -> "monitor"
      [] OTHER -> "observe"
NextStatus ==
    /\ caller = "status"
    /\ \/ report # <<>> /\ report' = Tail(report) /\ Caller(AfterStatus(Head(report)))
       \/ ReportEnds /\ Caller("reap") /\ UNCHANGED report
    /\ UNCHANGED <<kept, held, egress, ack>>
NextMonitor ==
    /\ caller = "monitor"
    /\ \/ report # <<>> /\ report' = Tail(report) /\ egress' = TRUE /\ Caller("observe")
       \/ ReportEnds /\ Caller("reap") /\ UNCHANGED <<report, egress>>
    /\ UNCHANGED <<kept, held, ack>>

\* live_start_time: a monitor that has exited means no network.
Observed == egress /\ ~MonitorGone
ObserveHolder ==
    /\ caller = "observe"
    /\ \/ ~HolderGone /\ egress' = Observed /\ Caller("persist")
       \/ egress' = FALSE /\ Caller("reap")
    /\ UNCHANGED <<kept, held, report, ack>>
\* setup writes holders.json, or gives the holder up (StartedHolder::kill).
PersistHolder ==
    /\ caller = "persist"
    /\ Caller("commit") \/ Caller("reap")
    /\ UNCHANGED <<kept, held, egress, report, ack>>
CommitHolder ==
    /\ caller = "commit"
    /\ IF AckHeard THEN ack' = Append(ack, "c") /\ Caller("done")
                   ELSE Caller("stale") /\ UNCHANGED ack
    /\ UNCHANGED <<kept, held, egress, report>>

\* reap_if_child: a caller that is not the subreaper has nothing to wait for.
\* Init reaps what no subreaper adopts.
Reaped == IF subreaper THEN "reaped" ELSE holder
ReapHolder(from, to) ==
    /\ caller = from
    /\ subreaper => HolderGone
    /\ holder' = IF HolderGone THEN Reaped ELSE holder
    /\ Caller(to)
    /\ UNCHANGED <<kept, egress, after, connected, monitor, pasta, report, ack, life, lifeOpen>>
ReapFailed == ReapHolder("reap", "failed")

-----------------------------------------------------------------------------
(* teardown: stop_holder, or reap_stale_holder for one that is gone        *)

Stop ==
    /\ caller \in {"done", "stale"}
    /\ holder' = IF HolderGone THEN holder ELSE "killed"
    /\ Caller(IF HolderGone THEN "staleMonitor" ELSE "stop")
    /\ UNCHANGED <<kept, egress, after, connected, monitor, pasta, report, ack, life, lifeOpen>>
StopReap == ReapHolder("stop", "stopMonitor") \/ ReapHolder("staleReap", "stopped")
\* The recorded monitor was adopted with the holder's death: waited for.
ReapMonitor ==
    /\ caller \in {"stopMonitor", "staleMonitor"}
    /\ (subreaper /\ egress) => MonitorGone
    /\ monitor' = IF subreaper /\ egress THEN "reaped" ELSE monitor
    /\ Caller(IF caller = "stopMonitor" THEN "stopped" ELSE "staleReap")
    /\ UNCHANGED <<kept, egress, holder, after, connected, pasta, report, ack, life, lifeOpen>>

-----------------------------------------------------------------------------
(* holder_process                                                          *)

mine == <<caller, egress, kept>>
Holder(to) == holder' = to

\* A write to a pipe that nobody reads kills: SIGPIPE has its default action.
Send(msg, to) ==
    /\ IF CallerAlive /\ caller # "failed"
         THEN report' = Append(report, msg) /\ Holder(to) ELSE Holder("killed") /\ UNCHANGED report
Silent == UNCHANGED <<report, ack>>
Net == <<monitor, pasta, life>>

SendPid ==
    /\ holder = "pid" /\ Send("pid", "pinned")
    /\ UNCHANGED <<mine, Net, after, connected, ack, lifeOpen>>

\* expect: one byte, or the end of the caller's side.
Pinned ==
    /\ holder = "pinned"
    /\ \/ ack # <<>> /\ ack' = Tail(ack)
          /\ (Holder(IF wants THEN "fork" ELSE "enter") \/ Holder("fail"))
       \/ ack = <<>> /\ ~AckOpen /\ Holder("exited") /\ UNCHANGED ack
    /\ UNCHANGED <<mine, Net, after, connected, report, lifeOpen>>

ForkPasta ==
    /\ holder = "fork"
    /\ \/ monitor' = "setup" /\ lifeOpen' = TRUE /\ Holder("enter")
       \/ Holder("fail") /\ UNCHANGED <<monitor, lifeOpen>>
    /\ UNCHANGED <<mine, pasta, life, after, connected, report, ack>>

\* finish_monitor, then what follows.
Finish(then) ==
    IF lifeOpen THEN lifeOpen' = FALSE /\ after' = then /\ Holder("finish")
                ELSE Holder(then) /\ UNCHANGED <<lifeOpen, after>>
\* Mutant: a failure after the fork leaves the monitor to itself.
FailStartedAlone == Holder("fail") /\ UNCHANGED <<lifeOpen, after>>
FailStarted == Finish("fail")

\* The namespaces and the private /tmp.
EnterNamespaces ==
    /\ holder = "enter"
    /\ \/ Holder(IF wants THEN "start" ELSE "status") /\ UNCHANGED <<lifeOpen, after>>
       \/ FailStarted
    /\ UNCHANGED <<mine, Net, connected>> /\ Silent

StartPasta ==
    /\ holder = "start"
    /\ IF MonitorGone THEN Holder("killed") /\ UNCHANGED life
       ELSE life' = Append(life, "start") /\ Holder("await")
    /\ UNCHANGED <<mine, monitor, pasta, after, connected, lifeOpen>> /\ Silent

\* Until the network is configured, the monitor has exited or 5 s have passed.
StopsWaiting == Finish("status")
AwaitPasta ==
    /\ holder = "await"
    /\ \/ pasta = "up" /\ Holder("bind") /\ UNCHANGED <<lifeOpen, after, monitor>>
       \/ pasta # "up" /\ StopsWaiting
          /\ monitor' = IF monitor = "exited" THEN "reaped" ELSE monitor
    /\ UNCHANGED <<mine, pasta, life, connected>> /\ Silent
BindResolv ==
    /\ holder = "bind"
    /\ \/ connected' = TRUE /\ Holder("status") /\ UNCHANGED <<lifeOpen, after>>
       \/ FailStarted /\ UNCHANGED connected
    /\ UNCHANGED <<mine, Net>> /\ Silent
FinishMonitor ==
    /\ holder = "finish" /\ monitor \in {"exited", "reaped"}
    /\ monitor' = "reaped" /\ Holder(after) /\ connected' = FALSE
    /\ UNCHANGED <<mine, pasta, life, after, lifeOpen>> /\ Silent

SendFailure ==
    /\ holder = "fail" /\ Send("error", "exited")
    /\ UNCHANGED <<mine, Net, after, connected, ack, lifeOpen>>
SendStatus ==
    /\ holder = "status"
    /\ IF wants /\ ~connected THEN Send("noegress", "recorded")
       ELSE Send("ok", IF connected THEN "monitor" ELSE "recorded")
    /\ UNCHANGED <<mine, Net, after, connected, ack, lifeOpen>>
SendMonitor ==
    /\ holder = "monitor" /\ Send("monitor", "recorded")
    /\ UNCHANGED <<mine, Net, after, connected, ack, lifeOpen>>

\* Without the record's "c" the holder could never be found: it ends.
Recorded ==
    /\ holder = "recorded"
    /\ \/ ack # <<>> /\ ack' = Tail(ack) /\ Holder("hold") /\ UNCHANGED <<lifeOpen, after>>
       \/ ack = <<>> /\ ~AckOpen /\ Finish("exited") /\ UNCHANGED ack
    /\ UNCHANGED <<mine, Net, connected, report>>
\* hold: SIGCHLD is ignored, so a monitor that exits leaves nothing.
HoldOn ==
    /\ holder = "hold" /\ monitor = "exited" /\ monitor' = "reaped"
    /\ UNCHANGED <<mine, holder, pasta, life, after, connected, lifeOpen>> /\ Silent

-----------------------------------------------------------------------------
(* pasta_monitor                                                           *)

theirs == <<mine, holder, after, connected, report, ack, lifeOpen>>
Exits == monitor' = "exited"

MonitorSetup ==
    /\ monitor = "setup"
    /\ monitor' = "wait" \/ Exits
    /\ UNCHANGED <<theirs, pasta, life>>
WaitByte ==
    /\ monitor = "wait"
    /\ \/ life # <<>> /\ life' = Tail(life) /\ monitor' = "fork"
       \/ life = <<>> /\ LifeEnds /\ Exits /\ UNCHANGED life
    /\ UNCHANGED <<theirs, pasta>>
RunPasta ==
    /\ monitor = "fork"
    /\ \/ pasta' = "starting" /\ monitor' = "watch"
       \/ Exits /\ UNCHANGED pasta
    /\ UNCHANGED <<theirs, life>>
\* Mutant: the monitor waits for pasta alone.
WatchPasta ==
    /\ monitor = "watch" /\ pasta = "exited" /\ pasta' = "reaped" /\ Exits
    /\ UNCHANGED <<theirs, life>>
Watch ==
    /\ monitor = "watch"
    /\ \/ LifeEnds /\ pasta' = "reaped" /\ Exits
       \/ pasta = "exited" /\ pasta' = "reaped" /\ Exits
    /\ UNCHANGED <<theirs, life>>

\* pasta configures the network, or hangs, and may end at any time.
Configure ==
    /\ pasta = "starting" /\ pasta' = "up"
    /\ UNCHANGED <<theirs, monitor, life>>
PastaExits ==
    /\ PastaRuns /\ pasta' = "exited"
    /\ UNCHANGED <<theirs, monitor, life>>

-----------------------------------------------------------------------------
(* Kills, and init                                                         *)

KillCaller ==
    /\ CallerAlive /\ caller \notin {"failed", "stopped"} /\ caller' = "dead"
    /\ UNCHANGED <<kept, held, egress, report, ack>>
KillHolder ==
    /\ ~HolderGone /\ holder' = "killed"
    /\ UNCHANGED <<mine, Net, after, connected, report, ack, lifeOpen>>
\* pasta is not told: nothing ties it to its monitor, or to the holder.
KillMonitor ==
    /\ monitor \in {"setup", "wait", "fork", "watch"} /\ monitor' = "exited"
    /\ orphaned' = (monitor = "watch")
    /\ UNCHANGED <<subreaper, wants, caller, egress, holder, after, connected, pasta,
                   report, ack, life, lifeOpen>>
\* Orphans whose parent is init, because no subreaper lives.
InitReaps ==
    /\ ~(subreaper /\ CallerAlive)
    /\ HolderGone
    /\ holder' = "reaped" /\ monitor' = IF monitor = "exited" THEN "reaped" ELSE monitor
    /\ <<holder', monitor'>> # <<holder, monitor>>
    /\ UNCHANGED <<mine, after, connected, pasta, report, ack, life, lifeOpen>>

CallerStep ==
    \/ NextPid \/ PinHolder \/ NextStatus \/ NextMonitor \/ ObserveHolder \/ PersistHolder
    \/ CommitHolder \/ ReapFailed \/ StopReap \/ ReapMonitor
HolderRuns ==
    \/ SendPid \/ Pinned \/ ForkPasta \/ EnterNamespaces \/ StartPasta \/ AwaitPasta \/ BindResolv
    \/ FinishMonitor \/ SendFailure \/ SendStatus \/ SendMonitor \/ Recorded \/ HoldOn
MonitorStep == MonitorSetup \/ WaitByte \/ RunPasta \/ Watch
Environment == Stop \/ Configure \/ PastaExits \/ KillCaller \/ KillHolder
    \/ KillMonitor \/ InitReaps

StartNext == CallerStep \/ HolderRuns \/ MonitorStep \/ Environment

\* Processes run.  Nothing makes pasta answer, or anybody ask for teardown.
Fairness == WF_startVars(CallerStep) /\ WF_startVars(HolderRuns) /\ WF_startVars(MonitorStep)
StartSpec == StartInit /\ [][StartNext]_startVars
FairSpec == StartSpec /\ Fairness

-----------------------------------------------------------------------------
(* Properties                                                              *)

StartTypeOK ==
    /\ subreaper \in BOOLEAN /\ wants \in BOOLEAN /\ egress \in BOOLEAN
    /\ connected \in BOOLEAN /\ lifeOpen \in BOOLEAN /\ orphaned \in BOOLEAN
    /\ caller \in {"pid", "pin", "status", "monitor", "observe", "persist", "commit", "done",
                   "stale", "reap", "failed", "stop", "stopMonitor", "staleMonitor",
                   "staleReap", "stopped", "dead"}
    /\ holder \in {"pid", "pinned", "fork", "enter", "start", "await", "bind", "finish", "fail",
                   "status", "monitor", "recorded", "hold", "exited", "killed", "reaped"}
    /\ after \in {"none", "fail", "status", "exited"}
    /\ monitor \in {"none", "setup", "wait", "fork", "watch", "exited", "reaped"}
    /\ pasta \in {"none", "starting", "up", "exited", "reaped"}
    /\ Len(report) <= 3 /\ Len(ack) <= 2 /\ Len(life) <= 1

\* A holder that ends by itself leaves no monitor: a caller that is a
\* subreaper would adopt it and has no record to reap it by.
NoUnrecordedMonitor == holder = "exited" => monitor \in {"none", "reaped"}

\* Once setup has recorded the workspace as loopback only, no pasta runs that
\* could connect it behind the record's back, except one whose monitor was killed.
LoopbackHasNoPasta ==
    (caller \in {"commit", "done"} /\ ~egress) => ~PastaRuns \/ orphaned

\* Once teardown returns to a subreaper, the holder, its recorded monitor and
\* pasta are gone, and nothing is left to reap; pasta goes with its monitor, so
\* only the kill of the monitor leaves it.
StopIsComplete ==
    (caller = "stopped" /\ subreaper) =>
        /\ holder = "reaped"
        /\ egress => monitor = "reaped"
        /\ ~PastaRuns \/ orphaned

\* What runs for a workspace is in its record, and teardown ends all of it, but
\* for a pasta whose monitor was killed.
ProcessesAreRecorded == NoUnrecordedMonitor /\ LoopbackHasNoPasta /\ StopIsComplete

\* setup returns, with the registry lock it holds: it never waits for a holder
\* that has ended or a pasta that does not answer; so does teardown.
CallerReturns ==
    (caller \notin {"done", "stale"}) ~> (caller \in {"done", "stale", "failed", "stopped", "dead"})

\* A holder that was never told of its record (no "c" was sent) ends by itself once
\* the caller has given up or was killed.  Once a holder is gone, however it came
\* to its end, its monitor ends, and pasta with it unless the monitor was killed.
Untold == \A i \in DOMAIN ack : ack[i] # "c"
NothingIsLeft ==
    /\ (caller \in {"failed", "dead"} /\ holder # "hold" /\ Untold) ~> HolderGone
    /\ HolderGone ~> (MonitorGone /\ (~PastaRuns \/ orphaned))
==============================================================================
