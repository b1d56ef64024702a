------------------------------- MODULE Proxy -------------------------------
(***************************************************************************)
(* The egress proxy of one execution (crates/world-runtime/src/proxy.rs)   *)
(* and the policy it serves (policy.rs).  Destinations are resolved once,  *)
(* when the proxy is prepared; one accept loop per listener hands          *)
(* connections to tracked tasks, whose requests may start further tracked  *)
(* tasks; `close` cancels, joins the loops and waits for the tasks.        *)
(*                                                                         *)
(* Headers, credentials' bytes and the bodies relayed are abstracted; the  *)
(* upstream servers are the environment.                                   *)
(***************************************************************************)
EXTENDS Naturals, FiniteSets

CONSTANTS
    Names,      \* canonical host names a policy or a request mentions
    Addrs,      \* addresses; a policy may also allow one literally
    Public,     \* those of them outside the special-purpose ranges
    Allow,      \* the policy's destinations
    Listeners,  \* the loopback listeners: IPv4 and, where there is one, IPv6
    Conns       \* bound: connections alive at one time

ASSUME ProxyAssumption ==
    /\ Public \subseteq Addrs /\ Allow \subseteq Names \cup Addrs
    /\ Names \cap Addrs = {}

VARIABLES
    dns,        \* what the host's resolver answers now
    routes,     \* `routes`: the addresses of each allowed destination
    token,      \* the proxy's cancellation token
    loops,      \* the accept loop of each listener
    serving,    \* tracked tasks that serve a connection
    relaying    \* tracked tasks that relay to a destination

proxyVars == <<dns, routes, token, loops, serving, relaying>>

Relay == [conn : Conns, host : Names \cup Addrs, addr : Addrs]
Routes == UNION {[hosts -> SUBSET Addrs] : hosts \in SUBSET (Names \cup Addrs)}
NoRoutes == [h \in {} |-> {}]

ProxyTypeOK ==
    /\ dns \in [Names -> SUBSET Addrs]
    /\ routes \in Routes
    /\ token \in BOOLEAN
    /\ loops \in [Listeners -> {"off", "accepting", "accepted"}]
    /\ serving \subseteq Conns /\ relaying \subseteq Relay

ProxyInit ==
    /\ dns \in [Names -> SUBSET Addrs]
    /\ routes = NoRoutes
    /\ token = FALSE
    /\ loops = [l \in Listeners |-> "off"]
    /\ serving = {} /\ relaying = {}

\* The environment: a name is made to resolve to another address.
Rebind(h, a) ==
    /\ dns' = [dns EXCEPT ![h] = {a}]
    /\ UNCHANGED <<routes, token, loops, serving, relaying>>

Answer(h) == IF h \in Addrs THEN {h} ELSE dns[h]

\* A literal address is authorized by itself; a name must resolve, and only to
\* public addresses.
Usable(h) == h \in Addrs \/ (dns[h] # {} /\ dns[h] \subseteq Public)

\* Proxy::prepare
Resolved == (\A h \in Allow : Usable(h)) /\ routes' = [h \in Allow |-> Answer(h)]
Prepared == Resolved /\ UNCHANGED <<dns, token, loops, serving, relaying>>

Refused == \E h \in Allow : ~Usable(h)

\* Prepared::serve, on the listeners the workload's namespace passed.
Listening(ls) == loops' = [l \in Listeners |-> IF l \in ls THEN "accepting" ELSE "off"]
Serve(ls) == Listening(ls) /\ UNCHANGED <<dns, routes, token, serving, relaying>>

\* Proxy::start: on listeners of the host's own, all of them.
Started == Resolved /\ Listening(Listeners) /\ UNCHANGED <<dns, token, serving, relaying>>

Free == Conns \ (serving \cup {r.conn : r \in relaying})

Accept(l) ==
    /\ loops[l] = "accepting" /\ ~token
    /\ loops' = [loops EXCEPT ![l] = "accepted"]
    /\ UNCHANGED <<dns, routes, token, serving, relaying>>

\* tasks.spawn: between the accept and this step, anything may be cancelled.
Track(l) ==
    /\ loops[l] = "accepted"
    /\ loops' = [loops EXCEPT ![l] = "accepting"]
    /\ \E c \in Free : serving' = serving \cup {c}
    /\ UNCHANGED <<dns, routes, token, relaying>>

\* An accept error ends the loop and cancels the whole proxy.
AcceptFails(l) ==
    /\ loops[l] = "accepting"
    /\ loops' = [loops EXCEPT ![l] = "off"] /\ token' = TRUE
    /\ UNCHANGED <<dns, routes, serving, relaying>>

LoopEnds(l) ==
    /\ loops[l] = "accepting" /\ token
    /\ loops' = [loops EXCEPT ![l] = "off"]
    /\ UNCHANGED <<dns, routes, token, serving, relaying>>

\* Mutant: the destination is resolved again.
RouteNow(h) == IF h \in DOMAIN routes THEN Answer(h) ELSE {}

\* The addresses a request for `h` may be connected to: none when the policy
\* does not name it.
Route(h) == IF h \in DOMAIN routes THEN routes[h] ELSE {}

\* handle/forward: an authorized request for a routed destination connects to one
\* of its addresses and spawns the task that relays (CONNECT) or drives the
\* upstream connection; any other request only gets an answer.  The connection's
\* task is not biased: it may get here after the token was cancelled.
Request(c, h) ==
    /\ c \in serving
    /\ \E a \in Route(h) :
         relaying' = relaying \cup {[conn |-> c, host |-> h, addr |-> a]}
    /\ UNCHANGED <<dns, routes, token, loops, serving>>

\* A task ends with its peers, or with the token.
ServeEnds(c) ==
    /\ c \in serving /\ serving' = serving \ {c}
    /\ UNCHANGED <<dns, routes, token, loops, relaying>>

RelayEnds(r) ==
    /\ r \in relaying /\ relaying' = relaying \ {r}
    /\ UNCHANGED <<dns, routes, token, loops, serving>>

Cancel == token' = TRUE /\ UNCHANGED <<dns, routes, loops, serving, relaying>>

\* Mutant: the loops are told to end, not awaited.
JoinedNot == token

\* close: every accept loop has been awaited.
Joined == \A l \in Listeners : loops[l] = "off"

\* close: the closed tracker has no task left.
Drained == serving = {} /\ relaying = {}

ProxyStep ==
    \/ \E l \in Listeners : Accept(l) \/ Track(l) \/ AcceptFails(l) \/ LoopEnds(l)
    \/ \E c \in serving : ServeEnds(c) \/ \E h \in Names \cup Addrs : Request(c, h)
    \/ \E r \in relaying : RelayEnds(r)

-----------------------------------------------------------------------------
\* Every relay goes to an address its policy authorizes, literally or as a public
\* address of an allowed name, whatever the resolver says when the request arrives
\* (proxy.rs:104-127, 243-262).
RelaysAuthorized ==
    \A r \in relaying : r.host \in Allow /\ (r.addr = r.host \/ r.addr \in Public)
=============================================================================
