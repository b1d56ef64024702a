------------------------------ MODULE Forward ------------------------------
(***************************************************************************)
(* Host access to the listeners of a Linux workspace                       *)
(* (crates/world-runtime/src/forward.rs).  Every `world exec` runs one     *)
(* forwarding task, which rescans the listening sockets of the network     *)
(* namespace it joined once a second and binds, on the workspace's one     *)
(* host address, the ports its own workload listens on.  Executions of one *)
(* workspace share that address, and `setup` may replace the namespace     *)
(* under them.                                                             *)
(*                                                                         *)
(* A socket's inode is never used twice, so the lookups a task remembers   *)
(* by inode stay unambiguous.  One scan reads both tables in one step.     *)
(* SO_REUSEPORT, descriptors passed from one execution to another, other   *)
(* programs binding the workspace's address, and a connector killed from   *)
(* outside are left out.                                                   *)
(***************************************************************************)
EXTENDS Naturals, FiniteSets

CONSTANTS
    Execs,      \* executions of the one workspace, numbered as they are spawned
    Ports,      \* TCP ports its workloads listen on
    MaxSocks,   \* bound: listening sockets made in a behaviour
    MaxSetups   \* bound: namespaces setup makes in a behaviour

ASSUME ForwardBounds ==
    /\ Execs \subseteq Nat
    /\ MaxSocks \in Nat /\ MaxSetups \in Nat \ {0}

VARIABLES
    holder,     \* the current holder's network namespace, 0 with no holder
    setups,     \* namespaces made so far
    ns,         \* the namespace an execution joined
    workload,   \* its workload
    socks,      \* listening sockets, inside the namespaces
    made,       \* listening sockets made so far: the last inode
    pc,         \* where its forwarding task is
    blind,      \* owner = None: the workload's PID namespace is not known
    table,      \* what this scan has read of /proc/<pid>/net/tcp{,6}
    ours,       \* `ours`: inodes looked up, and whether they are its own
    tasks       \* accept tasks: `active`, and aborted ones not yet dropped

env == <<holder, setups, workload, ns, socks, made>>
scan == <<pc, blind, table, ours>>
vars == <<env, scan, tasks>>

Inodes == 1..MaxSocks
Spaces == 1..MaxSetups
Sock == [inode : Inodes, ns : Spaces, port : Ports, v6 : BOOLEAN, owner : Execs]
Task == [exec : Execs, port : Ports, v6 : BOOLEAN, state : {"on", "dying"}]

TypeOK ==
    /\ holder \in 0..MaxSetups /\ setups \in 0..MaxSetups
    /\ ns \in [Execs -> 0..MaxSetups]
    /\ workload \in [Execs -> {"none", "running", "exited", "left"}]
    /\ socks \subseteq Sock /\ made \in 0..MaxSocks
    /\ pc \in [Execs -> {"off", "sleep", "own", "bind", "done"}]
    /\ blind \in [Execs -> BOOLEAN]
    /\ table \in [Execs -> SUBSET Sock]
    /\ \A e \in Execs : /\ DOMAIN ours[e] \subseteq Inodes
                        /\ \A i \in DOMAIN ours[e] : ours[e][i] \in BOOLEAN
    /\ tasks \subseteq Task
    /\ \A t, u \in tasks : t.port = u.port => t = u

Nothing == [i \in {} |-> FALSE]

Init ==
    /\ holder = 1 /\ setups = 1
    /\ ns = [e \in Execs |-> 0]
    /\ workload = [e \in Execs |-> "none"]
    /\ socks = {} /\ made = 0
    /\ pc = [e \in Execs |-> "off"]
    /\ blind = [e \in Execs |-> FALSE]
    /\ table = [e \in Execs |-> {}]
    /\ ours = [e \in Execs |-> Nothing]
    /\ tasks = {}

-----------------------------------------------------------------------------
(* The workspace: its holder, its executions, the servers they run.        *)

\* setup starts a holder, or replaces the one recorded.
Setup ==
    /\ setups < MaxSetups
    /\ setups' = setups + 1 /\ holder' = setups + 1
    /\ UNCHANGED <<workload, ns, socks, made, scan, tasks>>

Teardown ==
    /\ holder # 0 /\ holder' = 0
    /\ UNCHANGED <<setups, workload, ns, socks, made, scan, tasks>>

\* linux_exec opens the recorded holder's namespaces and spawns into them.
Spawn(e) ==
    /\ workload[e] = "none" /\ holder # 0
    /\ \A o \in Execs : o < e => workload[o] # "none"
    /\ ns' = [ns EXCEPT ![e] = holder]
    /\ workload' = [workload EXCEPT ![e] = "running"]
    /\ UNCHANGED <<holder, setups, socks, made, scan, tasks>>

Listen(e, p, six) ==
    /\ workload[e] = "running" /\ made < MaxSocks
    /\ ~ \E s \in socks : s.ns = ns[e] /\ s.port = p /\ s.v6 = six
    /\ made' = made + 1
    /\ socks' = socks \cup
         {[inode |-> made + 1, ns |-> ns[e], port |-> p, v6 |-> six, owner |-> e]}
    /\ UNCHANGED <<holder, setups, workload, ns, scan, tasks>>

Unlisten(s) ==
    /\ socks' = socks \ {s}
    /\ UNCHANGED <<holder, setups, workload, ns, made, scan, tasks>>

\* The workload ends, and its PID namespace with it.
Exit(e) ==
    /\ workload[e] = "running"
    /\ workload' = [workload EXCEPT ![e] = "exited"]
    /\ socks' = {s \in socks : s.owner # e}
    /\ UNCHANGED <<holder, setups, ns, made, scan, tasks>>

-----------------------------------------------------------------------------
(* One execution's forwarding.                                             *)

\* The PID namespace is read from the spawned process: one that has already
\* exited has none to read, and the task then takes every listener for its own.
Owner(e) == workload[e] = "exited"

\* linux_exec starts the connector and the task; the connector may fail to
\* join, which leaves the execution without forwarding.
Launch(e) ==
    /\ workload[e] \in {"running", "exited"} /\ pc[e] = "off"
    /\ \/ /\ pc' = [pc EXCEPT ![e] = "sleep"]
          /\ blind' = [blind EXCEPT ![e] = Owner(e)]
       \/ /\ pc' = [pc EXCEPT ![e] = "done"]
          /\ UNCHANGED blind
    /\ UNCHANGED <<env, table, ours, tasks>>

\* run::wait has returned: linux_exec drops the Forwarding.
Leave(e) ==
    /\ workload[e] = "exited" /\ pc[e] # "off"
    /\ workload' = [workload EXCEPT ![e] = "left"]
    /\ UNCHANGED <<holder, setups, ns, socks, made, scan, tasks>>

\* AbortOnDrop: the task ends, and its host listener closes, some time later.
Aborted(ts) == (tasks \ ts) \cup {[t EXCEPT !.state = "dying"] : t \in ts}

Active(e) == {t \in tasks : t.exec = e /\ t.state = "on"}

\* The future is gone: its accept tasks are aborted, its connector ended.
End(e) ==
    /\ pc' = [pc EXCEPT ![e] = "done"]
    /\ table' = [table EXCEPT ![e] = {}]
    /\ ours' = [ours EXCEPT ![e] = Nothing]
    /\ tasks' = Aborted(Active(e))
    /\ UNCHANGED <<env, blind>>

\* The Forwarding was dropped: the task ends at its next await, and only there.
Stop(e) == workload[e] = "left" /\ pc[e] = "sleep" /\ End(e)

\* Mutant: the holder is only compared with none.
ReplacedNever(e) == holder # 0 /\ ns[e] = 0

Replaced(e) == holder # 0 /\ holder # ns[e]

\* The timer has fired: `current` is compared with the namespace joined.
Due(e) == pc[e] = "sleep" /\ workload[e] # "left"

Retire(e) == Due(e) /\ Replaced(e) /\ End(e)

\* listeners(): of two sockets on one port the IPv4 one wins.
Winning(found) == {s \in found : s.v6 => ~ \E o \in found : o.port = s.port /\ ~o.v6}

\* The tables are read through the connector, in the namespace it joined.
Here(e) == {s \in socks : s.ns = ns[e]}

Read(e) ==
    /\ Due(e) /\ ~Replaced(e)
    /\ pc' = [pc EXCEPT ![e] = "own"]
    /\ table' = [table EXCEPT ![e] = Winning(Here(e))]
    /\ UNCHANGED <<env, blind, ours, tasks>>

\* Mutant: any process having the socket open counts.
OwnedAny(e, s) == s \in socks

\* owned(): some process of the workload's PID namespace has it open now.
Owned(e, s) == s \in socks /\ s.owner = e

\* Each listener is looked up once; inodes no longer listed are forgotten.
LookUp(e) ==
    /\ pc[e] = "own" /\ pc' = [pc EXCEPT ![e] = "bind"]
    /\ ours' = [ours EXCEPT ![e] =
         [i \in {s.inode : s \in table[e]} |->
            IF i \in DOMAIN @ THEN @[i]
            ELSE blind[e] \/ \E s \in table[e] : s.inode = i /\ Owned(e, s)]]
    /\ UNCHANGED <<env, blind, table, tasks>>

Wanted(e) == {s \in table[e] : ours[e][s.inode]}

\* A task goes on while its port is wanted, with the same target.
Kept(e) ==
    {t \in Active(e) : \E s \in Wanted(e) : s.port = t.port /\ s.v6 = t.v6}

\* bind_host fails while any listener, even an aborted one, still has the port.
Free(p) == \A t \in tasks : t.port # p

Bound(e) ==
    {[exec |-> e, port |-> s.port, v6 |-> s.v6, state |-> "on"] :
        s \in {s \in Wanted(e) : Free(s.port)}}

Bind(e) ==
    /\ pc[e] = "bind" /\ pc' = [pc EXCEPT ![e] = "sleep"]
    /\ tasks' = Aborted(Active(e) \ Kept(e)) \cup Bound(e)
    /\ table' = [table EXCEPT ![e] = {}]
    /\ UNCHANGED <<env, blind, ours>>

\* The executor drops an aborted task, which closes its listener.
Freed(t) ==
    /\ t.state = "dying" /\ tasks' = tasks \ {t}
    /\ UNCHANGED <<env, scan>>

Scan(e) == Retire(e) \/ Read(e) \/ LookUp(e) \/ Bind(e)

Next ==
    \/ Setup \/ Teardown
    \/ \E e \in Execs :
         \/ Spawn(e) \/ Exit(e) \/ Launch(e) \/ Leave(e) \/ Stop(e)
         \/ Scan(e)
         \/ \E p \in Ports, six \in BOOLEAN : Listen(e, p, six)
    \/ \E s \in socks : Unlisten(s)
    \/ \E t \in tasks : Freed(t)

Spec == Init /\ [][Next]_vars

\* The executor polls every task: a scan goes on and the timer fires, an aborted
\* task is dropped; run::wait ends within the execution's deadline.
Fairness ==
    /\ \A e \in Execs : WF_vars(Scan(e)) /\ WF_vars(Stop(e)) /\ WF_vars(Leave(e))
    /\ \A e \in Execs : WF_vars(Launch(e))
    /\ WF_vars(\E t \in tasks : Freed(t))

FairSpec == Spec /\ Fairness

-----------------------------------------------------------------------------
\* relay(): a connection an accept task takes goes to whatever listens on its
\* target, in the namespace its connector joined, at that moment.
Relays(t, s) == s.ns = ns[t.exec] /\ s.port = t.port /\ s.v6 = t.v6

\* A scan only takes for its own the servers of its own workload, whatever closed,
\* reopened or changed hands since it read the tables; an execution that could not
\* tell its own (owner = None) is left out.  forward.rs:457-463.
OwnForwardsOnly ==
    \A e \in Execs : pc[e] = "bind" /\ ~blind[e] => \A s \in Wanted(e) : s.owner = e

\* A host connection can reach another execution's server only until the forwarding
\* execution's next scan has looked that server up: from then on the port is dropped.
ForeignOnlyUnseen ==
    \A t \in tasks, s \in socks :
        Relays(t, s) /\ t.state = "on" /\ s.inode \in DOMAIN ours[t.exec] =>
            ours[t.exec][s.inode] \/ pc[t.exec] = "bind"

\* What is forwarded is an execution's own, except for what it cannot have seen.
ForwardsAreOwn == OwnForwardsOnly /\ ForeignOnlyUnseen

\* The port of a winning listener of the current namespace is forwarded by the
\* execution that runs it.
Serves(e, s) ==
    /\ workload[e] = "running" /\ holder = ns[e] /\ pc[e] \notin {"off", "done"}
    /\ s \in Winning(Here(e)) /\ s.owner = e

Forwards(e, p) == \E t \in tasks : t.exec = e /\ t.port = p /\ t.state = "on"

Reachable == \A e \in Execs, s \in socks : Serves(e, s) => Forwards(e, s.port)

\* An execution of a replaced namespace has given up every port.
Retired ==
    \A e \in Execs : pc[e] # "off" /\ Replaced(e) =>
        pc[e] = "done" /\ \A t \in tasks : t.exec # e

\* No port stays open on the host with nobody listening in the namespace.
NoneStale ==
    \A t \in tasks : \E s \in socks : s.ns = ns[t.exec] /\ s.port = t.port

\* Forwarding always settles again: every server of the current namespace is
\* reachable through its own execution, whoever had the address's port before (an
\* ended execution, one of a replaced namespace, its own forward of the other
\* family), and no forward outlives its reason.  forward.rs:419-520.
ForwardingSettles == []<>(Reachable /\ Retired /\ NoneStale)
=============================================================================
