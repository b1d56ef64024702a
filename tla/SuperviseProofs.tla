--------------------------- MODULE SuperviseProofs ---------------------------
(***************************************************************************)
(* What the supervisor of an execution reports, and what is left of its    *)
(* proxy when it does, for any policy, listeners, connections and output.  *)
(***************************************************************************)
EXTENDS Supervise, TLAPS

-----------------------------------------------------------------------------
(* The invariant                                                           *)

\* The addresses a destination was resolved to are ones its policy authorizes.
RoutesAuthorized ==
    \A h \in DOMAIN routes : h \in Allow /\ \A a \in routes[h] : a = h \/ a \in Public

\* Until it serves, and once it was closed, the proxy has no loop and no task.
Quiet == Joined /\ Drained
QuietWhenClosed ==
    /\ Proxied /\ pc = "prepare" => Quiet
    /\ Proxied /\ pc = "spawn" /\ ~Serving => Quiet
    /\ Proxied /\ pc = "drain" => Joined
    /\ QuietAfterClose

\* What has been decided where.
Decided ==
    /\ pc \in {"prepare", "spawn", "serve", "select"} => status = ""
    /\ pc \in {"prepare", "spawn", "serve", "select", "guard", "reap", "out", "err", "ack"}
         => result = ""
    /\ pc \in {"close", "join", "drain"} => result \in {"124", "error"} \/ (result = "" /\ status # "")
    /\ pc \in {"guard", "reap", "out", "err", "ack"} => status # ""
    /\ pc \in {"drop", "dropped"} => result \in {"error", "abandoned"}

\* An execution is given up for a reason.
GivenUp ==
    /\ status = "none" => Expired \/ NeedsAck
    /\ result = "124" => Expired \/ NeedsAck

\* The end of a stream is seen once, when nobody can write to it again.
StreamsEnd ==
    /\ pc \in {"prepare", "spawn"} => \A s \in Streams : fwd[s] = "off"
    /\ \A s \in Streams : fwd[s] = "eof" => Writers = {} /\ sent[s] = wrote[s]
    /\ status = "exit" /\ pc = "err" => fwd["out"] = "eof"
    /\ status = "exit" /\ pc = "ack" => \A s \in Streams : fwd[s] = "eof"
    /\ result = "code" => \A s \in Streams : fwd[s] = "eof"

\* On Linux the wrapper outlives the init, and the init everybody else, until
\* the group is killed.
NamespaceEnds ==
    PidNamespace =>
      /\ "init" \notin alive => alive \cap Namespace = {}
      /\ pc \in {"prepare", "spawn", "serve", "select"} => "wrapper" \notin doomed
      /\ pc = "select" /\ "wrapper" \notin alive => "init" \notin alive
      /\ pc = "serve" /\ "wrapper" \notin alive => "init" \notin alive
      /\ status = "exit" => alive = {}
      /\ result = "code" => status = "exit"

\* Before the workload is spawned there is nothing to kill or to reap.
NotSpawned == pc \in {"prepare", "spawn"} => ~reaped /\ alive = {}

Inv == /\ TypeOK /\ NotSpawned /\ RoutesAuthorized /\ RelaysAuthorized /\ QuietWhenClosed
       /\ Decided /\ GivenUp /\ StreamsEnd /\ NamespaceEnds

-----------------------------------------------------------------------------
(* The steps                                                               *)

Processes == (\E p \in Strays : Fork(p)) \/ (\E p \in alive : Dies(p)) \/ Confirm
Output == \E s \in Streams : Write(s) \/ Copy(s) \/ Eof(s) \/ CopyFails(s)
Expiry == CancelRequested \/ DeadlinePasses
ProxyMoves ==
    Proxied /\ UNCHANGED Others /\ (ProxyStep \/ \E h \in Names, a \in Addrs : Rebind(h, a))

LEMMA StepCases ==
  ASSUME NEW P, [Next]_vars,
         Prepare => P, Spawn => P, Start => P, Select => P,
         CloseCancel => P, CloseJoin => P, CloseWait => P,
         Guard => P, Reap => P, (\E s \in Streams : Drain(s)) => P, Finish => P,
         Abandon => P, Drop => P, Dropped => P,
         Processes => P, Output => P, Expiry => P, ProxyMoves => P,
         UNCHANGED vars => P
  PROVE  P
  BY DEF Next, Host, Terminated, Processes, Output, Expiry, ProxyMoves

LEMMA Initial == Init => Inv
<1> SUFFICES ASSUME Init PROVE Inv
  OBVIOUS
<1>1. ProxyTypeOK
  <2>1. NoRoutes \in [{} -> SUBSET Addrs] /\ {} \in SUBSET (Names \cup Addrs)
    BY DEF NoRoutes
  <2>2. NoRoutes \in Routes
    BY <2>1 DEF Routes
  <2>3. dns \in [Names -> SUBSET Addrs]
    BY DEF Init, ProxyInit
  <2>4. loops \in [Listeners -> {"off", "accepting", "accepted"}]
    BY DEF Init, ProxyInit
  <2> QED
    BY <2>2, <2>3, <2>4 DEF Init, ProxyInit, ProxyTypeOK
<1>2. TypeOK
  <2>0. 0 \in 0..MaxChunks
    BY SuperviseAssumption
  <2>1. {wrote, sent} \subseteq [Streams -> 0..MaxChunks] /\ \A s \in Streams : sent[s] <= wrote[s]
    <3>1. \A s \in Streams : wrote[s] = 0 /\ sent[s] = 0 /\ sent[s] <= wrote[s]
      <4>1. wrote = [s \in Streams |-> 0] /\ sent = [s \in Streams |-> 0]
        BY Zenon DEF Init
      <4> QED
        BY <4>1
    <3>2. [s \in Streams |-> 0] \in [Streams -> 0..MaxChunks]
      BY <2>0
    <3> QED
      BY <3>1, <3>2 DEF Init
  <2>2. fwd \in [Streams -> {"off", "on", "eof", "error", "aborted"}]
    BY DEF Init
  <2>3. doomed \subseteq alive /\ (reaped => Child \notin alive) /\ reaped \in BOOLEAN
        /\ confirmed \in BOOLEAN /\ cancelled \in BOOLEAN /\ late \in BOOLEAN
    BY Zenon DEF Init
  <2>4. backend \in Backends /\ alive \subseteq {"wrapper", "init", "workload"} \cup Strays
    BY DEF Init
  <2> QED
    BY <1>1, <2>1, <2>2, <2>3, <2>4 DEF Init, TypeOK
<1>3. NotSpawned /\ RoutesAuthorized /\ RelaysAuthorized
  BY DEF Init, ProxyInit, NotSpawned, RoutesAuthorized, RelaysAuthorized, NoRoutes
<1>4. QuietWhenClosed
  BY DEF Init, ProxyInit, QuietWhenClosed, Quiet, Joined, Drained, QuietAfterClose
<1>5. Decided
  BY DEF Init, Decided
<1>8. GivenUp
  BY DEF Init, GivenUp
<1>6. StreamsEnd
  BY DEF Init, StreamsEnd
<1>7. NamespaceEnds
  BY DEF Init, NamespaceEnds
<1> QED
  BY <1>2, <1>3, <1>4, <1>5, <1>6, <1>7, <1>8 DEF Inv

-----------------------------------------------------------------------------
(* The proxy                                                               *)

LEMMA ResolvedRoutes ==
  ASSUME ProxyTypeOK, Resolved
  PROVE  routes' \in Routes /\ RoutesAuthorized'
<1>1. \A h \in Allow : Answer(h) \subseteq Addrs
  BY ProxyAssumption DEF Answer, ProxyTypeOK
<1>2. routes' \in [Allow -> SUBSET Addrs]
  BY <1>1 DEF Resolved
<1>3. routes' \in Routes
  BY <1>2, ProxyAssumption DEF Routes
<1>4. \A h \in Allow : \A a \in Answer(h) : a = h \/ a \in Public
  BY DEF Resolved, Usable, Answer
<1> QED
  BY <1>3, <1>4 DEF Resolved, RoutesAuthorized

LEMMA RouteAllowed ==
  ASSUME RoutesAuthorized, NEW h, NEW a \in Route(h)
  PROVE  h \in Allow /\ (a = h \/ a \in Public)
  BY DEF Route, RoutesAuthorized

LEMMA ProxyTypes ==
  ASSUME ProxyTypeOK, ProxyMoves
  PROVE  ProxyTypeOK'
<1>1. ASSUME NEW l \in Listeners, Accept(l) \/ Track(l) \/ AcceptFails(l) \/ LoopEnds(l)
      PROVE  ProxyTypeOK'
  BY <1>1 DEF Accept, Track, AcceptFails, LoopEnds, ProxyTypeOK, Free
<1>2. ASSUME NEW c \in serving, ServeEnds(c) PROVE ProxyTypeOK'
  BY <1>2 DEF ServeEnds, ProxyTypeOK
<1>3. ASSUME NEW r \in relaying, RelayEnds(r) PROVE ProxyTypeOK'
  BY <1>3 DEF RelayEnds, ProxyTypeOK
<1>4. ASSUME NEW c \in serving, NEW h \in Names \cup Addrs, Request(c, h) PROVE ProxyTypeOK'
  <2>1. PICK a \in Route(h) : relaying' = relaying \cup {[conn |-> c, host |-> h, addr |-> a]}
    BY <1>4 DEF Request
  <2>2. a \in Addrs /\ c \in Conns
    BY DEF Route, ProxyTypeOK, Routes
  <2>3. relaying' \subseteq Relay
    BY <2>1, <2>2 DEF ProxyTypeOK, Relay
  <2> QED
    BY <1>4, <2>3 DEF Request, ProxyTypeOK
<1>5. ASSUME NEW h \in Names, NEW a \in Addrs, Rebind(h, a) PROVE ProxyTypeOK'
  BY <1>5 DEF Rebind, ProxyTypeOK
<1> QED
  BY <1>1, <1>2, <1>3, <1>4, <1>5 DEF ProxyMoves, ProxyStep

LEMMA ProxyRelays ==
  ASSUME RoutesAuthorized, RelaysAuthorized, ProxyMoves
  PROVE  RoutesAuthorized' /\ RelaysAuthorized'
<1>1. routes' = routes
  BY DEF ProxyMoves, ProxyStep, Accept, Track, AcceptFails, LoopEnds, ServeEnds, Request,
         RelayEnds, Rebind
<1>2. ASSUME relaying' \subseteq relaying PROVE RelaysAuthorized'
  BY <1>2 DEF RelaysAuthorized
<1>3. ASSUME NEW c \in serving, NEW h \in Names \cup Addrs, Request(c, h) PROVE RelaysAuthorized'
  BY <1>3, RouteAllowed DEF Request, RelaysAuthorized
<1>4. RelaysAuthorized'
  BY <1>2, <1>3 DEF ProxyMoves, ProxyStep, Accept, Track, AcceptFails, LoopEnds, ServeEnds,
                    RelayEnds, Rebind
<1> QED
  BY <1>1, <1>4 DEF RoutesAuthorized

\* Without a loop no connection comes, without a connection no relay.
LEMMA ProxyStaysQuiet ==
  ASSUME ProxyTypeOK, ProxyMoves
  PROVE  (Joined => Joined') /\ (Quiet => Quiet')
<1>1. Joined => Joined'
  BY DEF ProxyMoves, ProxyStep, Accept, Track, AcceptFails, LoopEnds, ServeEnds, Request,
         RelayEnds, Rebind, Joined, ProxyTypeOK
<1>2. Quiet => Quiet'
  BY <1>1 DEF ProxyMoves, ProxyStep, Accept, Track, AcceptFails, LoopEnds, ServeEnds, Request,
              RelayEnds, Rebind, Quiet, Joined, Drained
<1> QED
  BY <1>1, <1>2

LEMMA Relays ==
  ASSUME Inv, [Next]_vars
  PROVE  RoutesAuthorized' /\ RelaysAuthorized'
<1> DEFINE Goal == RoutesAuthorized' /\ RelaysAuthorized'
<1>0. RoutesAuthorized /\ RelaysAuthorized /\ ProxyTypeOK
  BY DEF Inv, TypeOK
<1>1. ASSUME routes' = routes, relaying' = relaying PROVE Goal
  BY <1>0, <1>1 DEF RoutesAuthorized, RelaysAuthorized
<1>2. ASSUME Resolved, relaying' = relaying PROVE Goal
  BY <1>0, <1>2, ResolvedRoutes DEF RelaysAuthorized
<1>3. Prepare => Goal
  BY <1>1, <1>2 DEF Prepare, Refuse, PrepareNetwork, PrepareSeatbelt, PrepareNative, GivesUp,
                    Prepared, Started, proxyVars
<1>4. ProxyMoves => Goal
  BY <1>0, ProxyRelays
<1>5. Spawn \/ Select \/ CloseJoin \/ CloseWait \/ Guard \/ Reap \/ Finish \/ Abandon \/ Drop => Goal
  BY <1>1 DEF Spawn, Select, CloseJoin, CloseWait, Guard, Reap, Finish, Abandon, Drop, proxyVars
<1>6. Start \/ CloseCancel \/ Dropped => Goal
  BY <1>1 DEF Start, CloseCancel, Dropped, Serve, Cancel, proxyVars
<1>7. (\E s \in Streams : Drain(s)) => Goal
  BY <1>1 DEF Drain, proxyVars
<1>8. Processes \/ Output \/ Expiry => Goal
  BY <1>1 DEF Processes, Output, Expiry, Fork, Dies, Confirm, Write, Copy, Eof, CopyFails,
              CancelRequested, DeadlinePasses, Unsupervised, proxyVars
<1>9. UNCHANGED vars => Goal
  BY <1>1 DEF vars, proxyVars
<1> HIDE DEF Goal
<1>10. Goal
  BY <1>3, <1>4, <1>5, <1>6, <1>7, <1>8, <1>9, StepCases
<1> QED
  BY <1>10 DEF Goal

LEMMA Closes == ASSUME Inv, [Next]_vars PROVE QuietWhenClosed'
<1>1. QuietWhenClosed /\ ProxyTypeOK /\ Decided
  BY DEF Inv, TypeOK
<1>2. Prepare => QuietWhenClosed'
  BY <1>1 DEF Prepare, Refuse, PrepareNetwork, PrepareSeatbelt, PrepareNative, GivesUp, Goes,
              Return, Prepared, Started, Resolved, proxyVars, QuietWhenClosed, QuietAfterClose,
              Quiet, Joined, Drained, Proxied, Serving
<1>3. Spawn => QuietWhenClosed'
  BY <1>1 DEF Spawn, GoesNot, proxyVars, QuietWhenClosed, QuietAfterClose, Quiet, Joined,
              Drained, Proxied, Serving
<1>4. Start => QuietWhenClosed'
  BY <1>1 DEF Start, QuietWhenClosed, QuietAfterClose
<1>5. Select => QuietWhenClosed'
  BY <1>1 DEF Select, QuietWhenClosed, QuietAfterClose, Proxied
<1>6. CloseCancel => QuietWhenClosed'
  BY <1>1 DEF CloseCancel, At, QuietWhenClosed, QuietAfterClose
<1>7. CloseJoin => QuietWhenClosed'
  BY <1>1 DEF CloseJoin, At, QuietWhenClosed, QuietAfterClose, Joined, proxyVars
<1>8. CloseWait => QuietWhenClosed'
  BY <1>1 DEF CloseWait, At, QuietWhenClosed, QuietAfterClose, Joined, Drained, proxyVars, Proxied
<1>9. Guard \/ Reap \/ Finish => QuietWhenClosed'
  BY <1>1 DEF Guard, Reap, Finish, At, Return, QuietWhenClosed, QuietAfterClose, Joined, Drained,
              proxyVars, Proxied
<1>10. (\E s \in Streams : Drain(s)) => QuietWhenClosed'
  BY <1>1 DEF Drain, After, Streams, QuietWhenClosed, QuietAfterClose, Joined, Drained,
              proxyVars, Proxied
<1>11. Abandon \/ Drop => QuietWhenClosed'
  BY <1>1 DEF Abandon, Drop, At, QuietWhenClosed, QuietAfterClose
<1>12. Dropped => QuietWhenClosed'
  BY <1>1 DEF Dropped, At, QuietWhenClosed, QuietAfterClose, Decided
<1>13. ASSUME UNCHANGED <<proxyVars, hostVars, backend>> PROVE QuietWhenClosed'
  BY <1>1, <1>13 DEF proxyVars, hostVars, QuietWhenClosed, QuietAfterClose, Quiet, Joined,
                     Drained, Proxied, Serving
<1>14. Processes \/ Output \/ Expiry => QuietWhenClosed'
  BY <1>13 DEF Processes, Output, Expiry, Fork, Dies, Confirm, Write, Copy, Eof, CopyFails,
              CancelRequested, DeadlinePasses, Unsupervised
<1>15. ProxyMoves => QuietWhenClosed'
  <2> SUFFICES ASSUME ProxyMoves PROVE QuietWhenClosed'
    OBVIOUS
  <2>1. UNCHANGED <<pc, result, backend>>
    BY DEF ProxyMoves, Others, hostVars
  <2> QED
    BY <1>1, <2>1, ProxyStaysQuiet
    DEF QuietWhenClosed, QuietAfterClose, Quiet, Proxied, Serving
<1>16. UNCHANGED vars => QuietWhenClosed'
  BY <1>13 DEF vars
<1> QED
  BY <1>2, <1>3, <1>4, <1>5, <1>6, <1>7, <1>8, <1>9, <1>10, <1>11, <1>12, <1>14, <1>15,
     <1>16, StepCases

-----------------------------------------------------------------------------
(* The result                                                              *)

LEMMA Decides == ASSUME Inv, [Next]_vars PROVE Decided'
<1>1. /\ Decided
      /\ pc \in {"prepare", "spawn", "serve", "select", "close", "join", "drain", "guard",
                 "reap", "out", "err", "ack", "drop", "dropped", "done"}
      /\ status \in {"", "exit", "none"}
      /\ result \in {"", "code", "124", "error", "abandoned"}
  BY DEF Inv, TypeOK
<1> USE <1>1 DEF Decided
<1>2. Prepare => Decided'
  BY DEF Prepare, Refuse, PrepareNetwork, PrepareSeatbelt, PrepareNative, GivesUp, Goes, Return
<1>3. Spawn => Decided'
  BY DEF Spawn, GoesNot
<1>4. Start \/ Select => Decided'
  BY DEF Start, Select
<1>5. CloseCancel \/ CloseJoin \/ CloseWait => Decided'
  BY DEF CloseCancel, CloseJoin, CloseWait, At
<1>6. Guard \/ Reap => Decided'
  BY DEF Guard, Reap, At
<1>7. (\E s \in Streams : Drain(s)) => Decided'
  BY DEF Drain, After, Streams
<1>8. Finish => Decided'
  BY DEF Finish, Return, Answered
<1>9. Abandon \/ Drop \/ Dropped => Decided'
  BY DEF Abandon, Drop, Dropped, At, Awaits
<1>10. Processes \/ Output => Decided'
  BY DEF Processes, Output, Fork, Dies, Confirm, Write, Copy, Eof, CopyFails, Unsupervised, hostVars
<1>11. Expiry => Decided'
  BY DEF Expiry, CancelRequested, DeadlinePasses, Unsupervised, hostVars
<1>12. ProxyMoves => Decided'
  BY DEF ProxyMoves, Others, hostVars
<1>13. UNCHANGED vars => Decided'
  BY DEF vars, hostVars
<1> QED
  BY <1>2, <1>3, <1>4, <1>5, <1>6, <1>7, <1>8, <1>9, <1>10, <1>11, <1>12, <1>13, StepCases

\* Cancellation and a passed deadline stay.
LEMMA ExpiredStays == ASSUME Inv, [Next]_vars PROVE backend' = backend /\ (Expired => Expired')
<1> DEFINE Keeps == backend' = backend /\ UNCHANGED <<cancelled, late>>
           Goal == backend' = backend /\ (Expired => Expired')
<1>1. Keeps => Goal
  BY DEF Expired
<1>2. Prepare \/ Spawn \/ Start \/ Select \/ CloseCancel \/ CloseJoin \/ CloseWait => Goal
  BY <1>1 DEF Prepare, Spawn, Start, Select, CloseCancel, CloseJoin, CloseWait
<1>3. Guard \/ Reap \/ Finish \/ Abandon \/ Drop \/ Dropped => Goal
  BY <1>1 DEF Guard, Reap, Finish, Abandon, Drop, Dropped
<1>4. (\E s \in Streams : Drain(s)) => Goal
  BY <1>1 DEF Drain
<1>5. Processes \/ Output => Goal
  BY <1>1 DEF Processes, Output, Fork, Dies, Confirm, Write, Copy, Eof, CopyFails, Unsupervised
<1>6. Expiry => Goal
  BY Zenon DEF Expiry, CancelRequested, DeadlinePasses, Unsupervised, Expired
<1>7. ProxyMoves => Goal
  BY <1>1 DEF ProxyMoves, Others
<1>8. UNCHANGED vars => Goal
  BY <1>1 DEF vars
<1> HIDE DEF Goal
<1>9. Goal
  BY <1>2, <1>3, <1>4, <1>5, <1>6, <1>7, <1>8, StepCases
<1> QED
  BY <1>9 DEF Goal

LEMMA GivesUpRightly == ASSUME Inv, [Next]_vars PROVE GivenUp'
<1> DEFINE Reason == Expired \/ NeedsAck
           Goal == /\ status' = "none" => status = "none" \/ Reason
                   /\ result' = "124" => result = "124" \/ status = "none" \/ Reason
<1>1. Decided /\ status \in {"", "exit", "none"} /\ GivenUp
  BY DEF Inv, TypeOK
<1>2. Reason => Reason'
  BY ExpiredStays, Zenon DEF NeedsAck
<1>3. ASSUME status' = status, result' = result PROVE Goal
  BY <1>3
<1>4. Prepare => Goal
  BY DEF Prepare, Refuse, PrepareNetwork, PrepareSeatbelt, PrepareNative, GivesUp, Goes, Return
<1>5. Spawn => Goal
  BY DEF Spawn, GoesNot
<1>6. Start \/ Select => Goal
  BY DEF Start, Select
<1>7. CloseCancel \/ CloseJoin \/ CloseWait \/ Guard \/ Reap => Goal
  BY <1>3 DEF CloseCancel, CloseJoin, CloseWait, Guard, Reap
<1>8. (\E s \in Streams : Drain(s)) => Goal
  BY DEF Drain
<1>9. Finish => Goal
  BY <1>1 DEF Finish, Return, Answered, Decided
<1>10. Abandon \/ Drop \/ Dropped => Goal
  BY DEF Abandon, Drop, Dropped
<1>11. Processes \/ Output => Goal
  BY <1>3 DEF Processes, Output, Fork, Dies, Confirm, Write, Copy, Eof, CopyFails, Unsupervised, hostVars
<1>12. Expiry \/ ProxyMoves => Goal
  BY <1>3 DEF Expiry, CancelRequested, DeadlinePasses, Unsupervised, ProxyMoves, Others, hostVars
<1>13. UNCHANGED vars => Goal
  BY <1>3 DEF vars, hostVars
<1> HIDE DEF Goal
<1>14. Goal
  BY <1>4, <1>5, <1>6, <1>7, <1>8, <1>9, <1>10, <1>11, <1>12, <1>13, StepCases
<1> QED
  BY <1>1, <1>2, <1>14 DEF Goal, GivenUp

LEMMA Ends == ASSUME Inv, [Next]_vars PROVE StreamsEnd'
<1>1. StreamsEnd /\ Decided
  BY DEF Inv
<1>2. /\ fwd \in [Streams -> {"off", "on", "eof", "error", "aborted"}]
      /\ wrote \in [Streams -> 0..MaxChunks]
      /\ sent \in [Streams -> 0..MaxChunks]
      /\ status \in {"", "exit", "none"}
  BY DEF Inv, TypeOK
<1>3. Prepare => StreamsEnd'
  BY <1>1 DEF StreamsEnd, Decided, Prepare, Refuse, PrepareNetwork, PrepareSeatbelt,
              PrepareNative, GivesUp, Goes, Return, procVars, outVars, Writers
<1>4. Spawn => StreamsEnd'
  BY <1>1, <1>2 DEF StreamsEnd, Decided, Spawn, GoesNot, Writers
<1>5. ASSUME UNCHANGED <<alive, outVars>>, pc' \notin {"prepare", "spawn", "err", "ack"},
             result' # "code" \/ result' = result
      PROVE  StreamsEnd'
  BY <1>1, <1>5 DEF StreamsEnd, Writers, outVars
<1>6. Start \/ Select \/ CloseCancel \/ CloseJoin \/ CloseWait \/ Guard \/ Reap => StreamsEnd'
  BY <1>5 DEF Start, Select, CloseCancel, CloseJoin, CloseWait, Guard, Reap, At, procVars
<1>7. Abandon \/ Drop \/ Dropped => StreamsEnd'
  BY <1>5 DEF Abandon, Drop, Dropped, At, procVars
<1>8. ASSUME NEW s \in Streams, Drain(s) PROVE StreamsEnd'
  <2>1. UNCHANGED <<alive, wrote, sent>> /\ pc = s /\ result = ""
    BY <1>1, <1>8 DEF Drain, procVars, Decided, Streams
  <2>2. \A t \in Streams : fwd'[t] = "eof" <=> fwd[t] = "eof"
    BY <1>2, <1>8 DEF Drain
  <2>3. pc' \notin {"prepare", "spawn"} /\ result' # "code"
    BY <1>8, <2>1 DEF Drain, After, Streams
  <2>4. \A t \in Streams : fwd'[t] = "eof" => Writers' = {} /\ sent'[t] = wrote'[t]
    BY <1>1, <2>1, <2>2 DEF StreamsEnd, Writers
  <2>5. status' = "exit" /\ pc' = "err" => fwd'["out"] = "eof"
    BY <1>8, <2>1 DEF Drain, After, Streams
  <2>6. status' = "exit" /\ pc' = "ack" => \A t \in Streams : fwd'[t] = "eof"
    BY <1>1, <1>8, <2>1 DEF Drain, After, Streams, StreamsEnd
  <2> QED
    BY <2>3, <2>4, <2>5, <2>6 DEF StreamsEnd
<1>9. (\E s \in Streams : Drain(s)) => StreamsEnd'
  BY <1>8
<1>10. Finish => StreamsEnd'
  <2> SUFFICES ASSUME Finish PROVE StreamsEnd'
    OBVIOUS
  <2>1. UNCHANGED <<alive, outVars>> /\ pc = "ack" /\ pc' = "done" /\ status' = status
    BY DEF Finish, Return, procVars
  <2>2. result' = "code" => status = "exit"
    BY DEF Finish, Return, Answered
  <2> QED
    BY <1>1, <2>1, <2>2 DEF StreamsEnd, Writers, outVars
<1>11. Processes => StreamsEnd'
  <2> SUFFICES ASSUME Processes PROVE StreamsEnd'
    OBVIOUS
  <2>1. Writers = {} => Writers' = {}
    BY DEF Processes, Fork, Dies, Confirm, Writers, Strays
  <2>2. UNCHANGED <<hostVars, outVars>>
    BY DEF Processes, Fork, Dies, Confirm, Unsupervised
  <2> QED
    BY <1>1, <2>1, <2>2 DEF StreamsEnd, hostVars, outVars
<1>12. Output => StreamsEnd'
  <2> SUFFICES ASSUME NEW s \in Streams, Write(s) \/ Copy(s) \/ Eof(s) \/ CopyFails(s)
               PROVE  StreamsEnd'
    BY DEF Output
  <2>1. UNCHANGED <<alive, hostVars>>
    BY DEF Write, Copy, Eof, CopyFails, Unsupervised, procVars
  <2>2. CASE Write(s)
    <3>1. Writers # {} /\ UNCHANGED <<fwd, sent>>
      BY <2>2 DEF Write
    <3>2. \A t \in Streams : fwd[t] # "eof"
      BY <1>1, <3>1 DEF StreamsEnd
    <3> QED
      BY <1>1, <2>1, <3>1, <3>2 DEF StreamsEnd, hostVars
  <2>3. CASE Copy(s)
    <3>1. UNCHANGED <<fwd, wrote>> /\ fwd[s] # "eof"
      BY <2>3 DEF Copy
    <3>2. \A t \in Streams \ {s} : sent'[t] = sent[t]
      BY <1>2, <2>3 DEF Copy
    <3> QED
      BY <1>1, <2>1, <3>1, <3>2 DEF StreamsEnd, hostVars, Writers
  <2>4. CASE Eof(s)
    <3>1. Writers = {} /\ sent[s] = wrote[s] /\ fwd[s] = "on" /\ UNCHANGED <<wrote, sent>>
      BY <2>4 DEF Eof, AtEnd
    <3>2. \A t \in Streams : fwd'[t] = IF t = s THEN "eof" ELSE fwd[t]
      BY <1>2, <2>4 DEF Eof
    <3> QED
      BY <1>1, <2>1, <3>1, <3>2 DEF StreamsEnd, hostVars, Writers, Streams
  <2>5. CASE CopyFails(s)
    <3>1. fwd[s] = "on" /\ UNCHANGED <<wrote, sent>>
      BY <2>5 DEF CopyFails
    <3>2. \A t \in Streams : fwd'[t] = IF t = s THEN "error" ELSE fwd[t]
      BY <1>2, <2>5 DEF CopyFails
    <3> QED
      BY <1>1, <2>1, <3>1, <3>2 DEF StreamsEnd, hostVars, Writers, Streams
  <2> QED
    BY <2>2, <2>3, <2>4, <2>5
<1>13. ASSUME UNCHANGED <<alive, hostVars, outVars>> PROVE StreamsEnd'
  BY <1>1, <1>13 DEF StreamsEnd, hostVars, outVars, Writers
<1>14. Expiry \/ ProxyMoves => StreamsEnd'
  BY <1>13 DEF Expiry, CancelRequested, DeadlinePasses, Unsupervised, ProxyMoves, Others, procVars
<1>15. UNCHANGED vars => StreamsEnd'
  BY <1>13 DEF vars, procVars
<1> QED
  BY <1>3, <1>4, <1>6, <1>7, <1>9, <1>10, <1>11, <1>12, <1>14, <1>15, StepCases

LEMMA Namespaces == ASSUME Inv, [Next]_vars PROVE NamespaceEnds'
<1> SUFFICES ASSUME PidNamespace, backend' = backend PROVE NamespaceEnds'
  BY ExpiredStays DEF NamespaceEnds, PidNamespace
<1>1. /\ NamespaceEnds /\ Decided
      /\ alive \subseteq {"wrapper", "init", "workload"} \cup Strays /\ doomed \subseteq alive
  BY DEF Inv, TypeOK
<1>2. /\ Namespace = {"workload"} \cup Strays /\ Namespace' = Namespace /\ PidNamespace'
      /\ Child = "wrapper" /\ Family = {"wrapper", "init", "workload"}
  BY DEF Namespace, PidNamespace, Child, Family
<1> USE <1>1, <1>2 DEF NamespaceEnds, Decided
<1>3. Prepare => NamespaceEnds'
  BY DEF Prepare, Refuse, PrepareNetwork, PrepareSeatbelt, PrepareNative, GivesUp, Goes, Return, procVars
<1>4. Spawn => NamespaceEnds'
  BY DEF Spawn, GoesNot
<1>5. Start => NamespaceEnds'
  BY DEF Start, procVars
<1>6. Select => NamespaceEnds'
  BY DEF Select, Exited, Strays
<1>7. CloseCancel \/ CloseJoin \/ CloseWait => NamespaceEnds'
  BY DEF CloseCancel, CloseJoin, CloseWait, At, procVars
<1>8. Guard \/ Reap => NamespaceEnds'
  BY DEF Guard, Reap, At
<1>9. (\E s \in Streams : Drain(s)) => NamespaceEnds'
  BY DEF Drain, After, Streams, procVars
<1>10. Finish => NamespaceEnds'
  BY DEF Finish, Return, Answered, procVars
<1>11. Abandon \/ Drop \/ Dropped => NamespaceEnds'
  BY DEF Abandon, Drop, Dropped, At, procVars
<1>12. Processes => NamespaceEnds'
  <2>1. \A p \in Strays : Fork(p) => NamespaceEnds'
    BY DEF Fork, Unsupervised, hostVars
  <2>2. ASSUME NEW p \in alive, Dies(p) PROVE NamespaceEnds'
    <3>1. UNCHANGED hostVars
      BY <2>2 DEF Dies, Unsupervised
    <3>2. CASE p = "init" /\ alive \cap Namespace # {}
      BY <2>2, <3>1, <3>2 DEF Dies, hostVars, Strays
    <3>3. CASE ~(p = "init" /\ alive \cap Namespace # {})
      <4>1. alive' = alive \ {p} /\ doomed' = doomed \ {p}
        BY <2>2, <3>3 DEF Dies
      <4>2. p = "wrapper" /\ p \notin doomed => "init" \notin alive
        BY <2>2 DEF Dies, Waits
      <4>3. "init" \notin alive' => alive' \cap Namespace = {}
        BY <3>3, <4>1
      <4> QED
        BY <3>1, <4>1, <4>2, <4>3 DEF hostVars
    <3> QED
      BY <3>2, <3>3
  <2>3. Confirm => NamespaceEnds'
    BY DEF Confirm, Unsupervised, hostVars
  <2> QED
    BY <2>1, <2>2, <2>3 DEF Processes
<1>13. ASSUME UNCHANGED <<alive, doomed, hostVars>> PROVE NamespaceEnds'
  BY <1>13 DEF hostVars
<1>14. Output \/ Expiry \/ ProxyMoves => NamespaceEnds'
  BY <1>13 DEF Output, Expiry, Write, Copy, Eof, CopyFails, CancelRequested, DeadlinePasses,
               Unsupervised, ProxyMoves, Others, procVars
<1>15. UNCHANGED vars => NamespaceEnds'
  BY <1>13 DEF vars, procVars
<1> QED
  BY <1>3, <1>4, <1>5, <1>6, <1>7, <1>8, <1>9, <1>10, <1>11, <1>12, <1>14, <1>15, StepCases

-----------------------------------------------------------------------------
(* Types                                                                   *)

\* A step of the supervisor keeps the types of the proxy.
LEMMA ProxyTyped == ASSUME Inv, [Next]_vars PROVE ProxyTypeOK'
<1>1. ProxyTypeOK
  BY DEF Inv, TypeOK
<1>2. UNCHANGED proxyVars => ProxyTypeOK'
  BY <1>1 DEF proxyVars, ProxyTypeOK
<1>3. Cancel => ProxyTypeOK'
  BY <1>1 DEF Cancel, ProxyTypeOK
<1>4. Prepare => ProxyTypeOK'
  <2>1. Prepared \/ Started => ProxyTypeOK'
    BY <1>1, ResolvedRoutes DEF Prepared, Started, Listening, ProxyTypeOK
  <2> QED
    BY <1>2, <2>1 DEF Prepare, Refuse, PrepareNetwork, PrepareSeatbelt, PrepareNative, GivesUp
<1>5. Start => ProxyTypeOK'
  <2>1. \A ls \in SUBSET Listeners : Serve(ls) => ProxyTypeOK'
    BY <1>1 DEF Serve, Listening, ProxyTypeOK
  <2> QED
    BY <1>2, <2>1 DEF Start
<1>6. Spawn \/ Select \/ CloseJoin \/ CloseWait \/ Guard \/ Reap \/ Finish \/ Abandon \/ Drop => ProxyTypeOK'
  BY <1>2 DEF Spawn, Select, CloseJoin, CloseWait, Guard, Reap, Finish, Abandon, Drop
<1>7. CloseCancel \/ Dropped => ProxyTypeOK'
  BY <1>3 DEF CloseCancel, Dropped
<1>8. (\E s \in Streams : Drain(s)) => ProxyTypeOK'
  BY <1>2 DEF Drain
<1>9. Processes \/ Output \/ Expiry => ProxyTypeOK'
  BY <1>2 DEF Processes, Output, Expiry, Fork, Dies, Confirm, Write, Copy, Eof, CopyFails,
              CancelRequested, DeadlinePasses, Unsupervised
<1>10. ProxyMoves => ProxyTypeOK'
  BY <1>1, ProxyTypes
<1>11. UNCHANGED vars => ProxyTypeOK'
  BY <1>2 DEF vars
<1> QED
  BY <1>4, <1>5, <1>6, <1>7, <1>8, <1>9, <1>10, <1>11, StepCases

HostTypes ==
    /\ pc \in {"prepare", "spawn", "serve", "select", "close", "join", "drain", "guard",
               "reap", "out", "err", "ack", "drop", "dropped", "done"}
    /\ status \in {"", "exit", "none"}
    /\ result \in {"", "code", "124", "error", "abandoned"}

LEMMA HostTyped == ASSUME Inv, [Next]_vars PROVE HostTypes'
<1>1. HostTypes
  BY DEF Inv, TypeOK, HostTypes
<1> USE <1>1 DEF HostTypes
<1>2. Prepare => HostTypes'
  BY DEF Prepare, Refuse, PrepareNetwork, PrepareSeatbelt, PrepareNative, GivesUp, Goes, Return
<1>3. Spawn \/ Start \/ Select => HostTypes'
  BY DEF Spawn, GoesNot, Start, Select
<1>4. CloseCancel \/ CloseJoin \/ CloseWait \/ Guard \/ Reap => HostTypes'
  BY DEF CloseCancel, CloseJoin, CloseWait, Guard, Reap, At
<1>5. (\E s \in Streams : Drain(s)) => HostTypes'
  BY DEF Drain, After
<1>6. Finish \/ Abandon \/ Drop \/ Dropped => HostTypes'
  BY DEF Finish, Return, Answered, Abandon, Drop, Dropped, At
<1>7. UNCHANGED hostVars => HostTypes'
  BY DEF hostVars
<1>8. Processes \/ Output \/ Expiry \/ ProxyMoves => HostTypes'
  BY <1>7 DEF Processes, Output, Expiry, Fork, Dies, Confirm, Write, Copy, Eof, CopyFails,
              CancelRequested, DeadlinePasses, Unsupervised, ProxyMoves, Others
<1>9. UNCHANGED vars => HostTypes'
  BY <1>7 DEF vars
<1> QED
  BY <1>2, <1>3, <1>4, <1>5, <1>6, <1>8, <1>9, StepCases

OutputTypes ==
    /\ {wrote, sent} \subseteq [Streams -> 0..MaxChunks]
    /\ \A s \in Streams : sent[s] <= wrote[s]
    /\ fwd \in [Streams -> {"off", "on", "eof", "error", "aborted"}]

LEMMA OutputTyped == ASSUME Inv, [Next]_vars PROVE OutputTypes'
<1>1. /\ wrote \in [Streams -> 0..MaxChunks] /\ sent \in [Streams -> 0..MaxChunks]
      /\ \A s \in Streams : sent[s] <= wrote[s]
      /\ fwd \in [Streams -> {"off", "on", "eof", "error", "aborted"}]
  BY DEF Inv, TypeOK
<1>2. UNCHANGED outVars => OutputTypes'
  BY <1>1 DEF outVars, OutputTypes
<1>3. Prepare \/ Start \/ Select \/ CloseCancel \/ CloseJoin \/ CloseWait => OutputTypes'
  BY <1>2 DEF Prepare, Start, Select, CloseCancel, CloseJoin, CloseWait
<1>4. Guard \/ Reap \/ Finish \/ Abandon \/ Drop \/ Dropped => OutputTypes'
  BY <1>2 DEF Guard, Reap, Finish, Abandon, Drop, Dropped
<1>5. ASSUME UNCHANGED <<wrote, sent>>, fwd' \in [Streams -> {"off", "on", "eof", "error", "aborted"}]
      PROVE  OutputTypes'
  BY <1>1, <1>5 DEF OutputTypes
<1>6. Spawn => OutputTypes'
  <2>1. Spawn => fwd' \in [Streams -> {"off", "on", "eof", "error", "aborted"}]
    BY <1>1 DEF Spawn
  <2> QED
    BY <1>5, <2>1 DEF Spawn
<1>7. \A s \in Streams : Drain(s) \/ Eof(s) \/ CopyFails(s) => OutputTypes'
  <2>1. \A s \in Streams : Drain(s) \/ Eof(s) \/ CopyFails(s) =>
                             fwd' \in [Streams -> {"off", "on", "eof", "error", "aborted"}]
    BY <1>1 DEF Drain, Eof, CopyFails
  <2> QED
    BY <1>5, <2>1 DEF Drain, Eof, CopyFails
<1>8. ASSUME NEW s \in Streams, Write(s) PROVE OutputTypes'
  <2>1. wrote[s] + 1 \in 0..MaxChunks
    BY <1>1, <1>8, SuperviseAssumption DEF Write
  <2>2. wrote' \in [Streams -> 0..MaxChunks] /\ UNCHANGED <<sent, fwd>>
    BY <1>1, <1>8, <2>1 DEF Write
  <2>3. \A t \in Streams : wrote'[t] = wrote[t] \/ wrote'[t] = wrote[t] + 1
    BY <1>1, <1>8 DEF Write
  <2>4. \A t \in Streams : sent'[t] <= wrote'[t]
    <3> SUFFICES ASSUME NEW t \in Streams PROVE sent[t] <= wrote'[t]
      BY <2>2
    <3>1. sent[t] \in Nat /\ wrote[t] \in Nat /\ sent[t] <= wrote[t]
      BY <1>1, SuperviseAssumption
    <3> QED
      BY <2>3, <3>1
  <2> QED
    BY <1>1, <2>2, <2>4 DEF OutputTypes
<1>9. ASSUME NEW s \in Streams, Copy(s) PROVE OutputTypes'
  <2>1. /\ sent[s] + 1 \in 0..MaxChunks
        /\ sent[s] + 1 <= wrote[s]
    BY <1>1, <1>9, SuperviseAssumption DEF Copy
  <2>2. sent' \in [Streams -> 0..MaxChunks] /\ UNCHANGED <<wrote, fwd>>
    BY <1>1, <1>9, <2>1 DEF Copy
  <2>3. \A t \in Streams : sent'[t] <= wrote'[t]
    BY <1>1, <1>9, <2>1 DEF Copy
  <2> QED
    BY <1>1, <2>2, <2>3 DEF OutputTypes
<1>10. Output => OutputTypes'
  BY <1>7, <1>8, <1>9 DEF Output
<1>11. (\E s \in Streams : Drain(s)) => OutputTypes'
  BY <1>7
<1>12. Processes \/ Expiry \/ ProxyMoves => OutputTypes'
  BY <1>2 DEF Processes, Expiry, Fork, Dies, Confirm, CancelRequested, DeadlinePasses,
              ProxyMoves, Others
<1>13. UNCHANGED vars => OutputTypes'
  BY <1>2 DEF vars
<1> QED
  BY <1>3, <1>4, <1>6, <1>10, <1>11, <1>12, <1>13, StepCases

ProcessTypes ==
    /\ alive \subseteq {"wrapper", "init", "workload"} \cup Strays /\ doomed \subseteq alive
    /\ reaped => Child \notin alive
    /\ reaped \in BOOLEAN /\ confirmed \in BOOLEAN

LEMMA ProcessesTyped == ASSUME Inv, [Next]_vars PROVE ProcessTypes' /\ NotSpawned'
<1> DEFINE Goal == ProcessTypes' /\ NotSpawned'
<1>1. ProcessTypes /\ NotSpawned /\ NamespaceEnds /\ Decided
  BY DEF Inv, TypeOK, ProcessTypes
<1>2. Child' = Child
  BY ExpiredStays DEF Child, PidNamespace
<1>3. ASSUME UNCHANGED procVars, pc' \in {"prepare", "spawn"} => pc \in {"prepare", "spawn"}
      PROVE  Goal
  BY <1>1, <1>2, <1>3, Zenon DEF procVars, ProcessTypes, NotSpawned
<1>4. Prepare => Goal
  BY <1>3 DEF Prepare, Refuse, PrepareNetwork, PrepareSeatbelt, PrepareNative
<1>5. Start => Goal
  BY <1>3 DEF Start
<1>6. CloseCancel \/ CloseJoin \/ CloseWait \/ Finish \/ Abandon => Goal
  BY <1>3 DEF CloseCancel, CloseJoin, CloseWait, Finish, Return, Abandon, At
<1>7. (\E s \in Streams : Drain(s)) => Goal
  BY <1>3 DEF Drain, After
<1>8. Output \/ Expiry \/ ProxyMoves => Goal
  BY <1>3 DEF Output, Expiry, Write, Copy, Eof, CopyFails, CancelRequested, DeadlinePasses,
              Unsupervised, ProxyMoves, Others, hostVars
<1>9. UNCHANGED vars => Goal
  BY <1>3 DEF vars, hostVars
<1>10. ASSUME Spawn PROVE Goal
  <2>1. ~reaped /\ UNCHANGED <<reaped, doomed, confirmed>> /\ pc' \notin {"prepare", "spawn"}
    BY <1>1, <1>10 DEF Spawn, NotSpawned, GoesNot
  <2>2. alive' \in {{}, Family} /\ doomed' = {}
    BY <1>1, <1>10 DEF Spawn, NotSpawned, ProcessTypes
  <2> QED
    BY <1>1, <2>1, <2>2 DEF ProcessTypes, NotSpawned, Family
<1>11. ASSUME UNCHANGED <<alive, confirmed>>, doomed' \subseteq alive, pc' \notin {"prepare", "spawn"},
              reaped' = reaped \/ (reaped' \in BOOLEAN /\ Child \notin alive)
       PROVE  Goal
  BY <1>1, <1>2, <1>11 DEF ProcessTypes, NotSpawned
<1>12. Select \/ Reap => Goal
  BY <1>1, <1>11 DEF Select, Reap, Exited, At, ProcessTypes
<1>13. Guard \/ Drop => Goal
  BY <1>1, <1>11 DEF Guard, Drop, KillGroup, At, ProcessTypes
<1>14. ASSUME Dropped PROVE Goal
  <2>1. UNCHANGED <<alive, confirmed, doomed>> /\ pc' = "done"
    BY <1>14 DEF Dropped, At
  <2>2. reaped' = reaped \/ (reaped' \in BOOLEAN /\ Child \notin alive)
    BY <1>1, <1>14, Zenon DEF Dropped, Exited, ProcessTypes
  <2> QED
    BY <1>1, <1>11, <2>1, <2>2 DEF ProcessTypes
<1>15. ASSUME NEW p \in Strays, Fork(p) PROVE Goal
  <2>1. alive' = alive \cup {p} /\ UNCHANGED <<doomed, reaped, confirmed, pc>>
    BY <1>15 DEF Fork, Unsupervised, hostVars
  <2>2. p # Child
    BY <1>15 DEF Strays, Child
  <2>3. pc \notin {"prepare", "spawn"}
    BY <1>1, <1>15 DEF Fork, NotSpawned
  <2> QED
    BY <1>1, <1>2, <2>1, <2>2, <2>3 DEF ProcessTypes, NotSpawned
<1>16. ASSUME NEW p \in alive, Dies(p) PROVE Goal
  <2>1. alive' \subseteq alive /\ doomed' \subseteq alive' /\ UNCHANGED <<reaped, confirmed, pc>>
    BY <1>1, <1>16 DEF Dies, Unsupervised, hostVars, ProcessTypes
  <2> QED
    BY <1>1, <1>2, <2>1 DEF ProcessTypes, NotSpawned
<1>17. ASSUME Confirm PROVE Goal
  <2>1. UNCHANGED <<alive, doomed, reaped, pc>> /\ confirmed' = TRUE
    BY <1>17 DEF Confirm, Unsupervised, hostVars
  <2> QED
    BY <1>1, <1>2, <2>1 DEF ProcessTypes, NotSpawned
<1> HIDE DEF Goal
<1>18. Processes => Goal
  BY <1>15, <1>16, <1>17 DEF Processes
<1>19. Goal
  BY <1>4, <1>5, <1>6, <1>7, <1>8, <1>9, <1>10, <1>12, <1>13, <1>14, <1>18, StepCases
<1> QED
  BY <1>19 DEF Goal

LEMMA ExpiryTyped == ASSUME Inv, [Next]_vars PROVE cancelled' \in BOOLEAN /\ late' \in BOOLEAN
<1> DEFINE Goal == cancelled' \in BOOLEAN /\ late' \in BOOLEAN
<1>1. cancelled \in BOOLEAN /\ late \in BOOLEAN
  BY DEF Inv, TypeOK
<1>2. UNCHANGED <<cancelled, late>> => Goal
  BY <1>1, Zenon
<1>3. Prepare \/ Spawn \/ Start \/ Select \/ CloseCancel \/ CloseJoin \/ CloseWait => Goal
  BY <1>2 DEF Prepare, Spawn, Start, Select, CloseCancel, CloseJoin, CloseWait
<1>4. Guard \/ Reap \/ Finish \/ Abandon \/ Drop \/ Dropped => Goal
  BY <1>2 DEF Guard, Reap, Finish, Abandon, Drop, Dropped
<1>5. (\E s \in Streams : Drain(s)) => Goal
  BY <1>2 DEF Drain
<1>6. Processes \/ Output => Goal
  BY <1>2 DEF Processes, Output, Fork, Dies, Confirm, Write, Copy, Eof, CopyFails, Unsupervised
<1>7. Expiry => Goal
  BY <1>1, Zenon DEF Expiry, CancelRequested, DeadlinePasses, Unsupervised
<1>8. ProxyMoves => Goal
  BY <1>2 DEF ProxyMoves, Others
<1>9. UNCHANGED vars => Goal
  BY <1>2 DEF vars
<1> HIDE DEF Goal
<1>10. Goal
  BY <1>3, <1>4, <1>5, <1>6, <1>7, <1>8, <1>9, StepCases
<1> QED
  BY <1>10 DEF Goal

-----------------------------------------------------------------------------
(* The theorems                                                            *)

LEMMA Inductive == ASSUME Inv, [Next]_vars PROVE Inv'
<1>1. backend' \in Backends
  BY ExpiredStays DEF Inv, TypeOK
<1>2. TypeOK'
  BY <1>1, ProxyTyped, HostTyped, OutputTyped, ProcessesTyped, ExpiryTyped, Zenon
     DEF TypeOK, HostTypes, OutputTypes, ProcessTypes
<1> QED
  BY <1>2, ProcessesTyped, Relays, Closes, Decides, GivesUpRightly, Ends, Namespaces DEF Inv

LEMMA Holds == Spec => []Inv
<1>1. Inv /\ [Next]_vars => Inv'
  BY Inductive
<1> QED
  BY Initial, <1>1, PTL DEF Spec

\* Every variable keeps its type; an execution never passes on more of a stream than
\* was written to it.
THEOREM TypeCorrect == Spec => []TypeOK
<1>1. Inv => TypeOK
  BY DEF Inv
<1> QED
  BY Holds, <1>1, PTL

\* Whatever the interleaving of exit, deadline, cancellation, output and a dropped
\* future, an exit code is only reported with all of the output and, on Linux, of a
\* namespace that is empty, and 124 only if time or patience ran out (run.rs:446-464,
\* linux.rs:1046-1068).
THEOREM ResultsAreTrue == Spec => []ResultIsTrue
<1>1. ASSUME Inv PROVE ResultIsTrue
  <2>1. CodeMeansComplete
    BY <1>1 DEF Inv, StreamsEnd, CodeMeansComplete
  <2>2. CodeMeansGone
    BY <1>1 DEF Inv, NamespaceEnds, CodeMeansGone
  <2>3. TimeoutIsReal
    BY <1>1 DEF Inv, GivenUp, Expired, TimeoutIsReal
  <2> QED
    BY <2>1, <2>2, <2>3 DEF ResultIsTrue
<1>2. Inv => ResultIsTrue
  BY <1>1
<1> QED
  BY Holds, <1>2, PTL

\* For any number of listeners and connections, nothing of the proxy outlives its
\* close (proxy.rs:155).
THEOREM ClosesQuietly == Spec => []QuietAfterClose
<1>1. Inv => QuietAfterClose
  BY DEF Inv, QuietWhenClosed
<1> QED
  BY Holds, <1>1, PTL

\* Whatever DNS answers before, during and after the routes are resolved, every relay
\* goes to an address its policy authorizes (proxy.rs and netcfg.rs: a route is
\* resolved once and pinned).
THEOREM RelaysAreAuthorized == Spec => []RelaysAuthorized
<1>1. Inv => RelaysAuthorized
  BY DEF Inv
<1> QED
  BY Holds, <1>1, PTL
=============================================================================
