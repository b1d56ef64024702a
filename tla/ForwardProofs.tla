---------------------------- MODULE ForwardProofs ----------------------------
(***************************************************************************)
(* What Forward promises of the ports it binds, for any executions, ports, *)
(* sockets and replacements of the workspace's namespace.                  *)
(***************************************************************************)
EXTENDS Forward, TLAPS

Seen == socks \cup UNION {table[e] : e \in Execs}

\* An inode is given once, also among the sockets a scan still remembers.
InodesAreOnce ==
    /\ \A s \in Seen : s.inode \in 1..made
    /\ \A s, u \in Seen : s.inode = u.inode => s = u

\* A namespace has one listener per port and family; so has what was read of it.
OneListener ==
    /\ \A s, u \in socks : s.ns = u.ns /\ s.port = u.port /\ s.v6 = u.v6 => s = u
    /\ \A e \in Execs : \A s, u \in table[e] : s.port = u.port => s = u

\* What a task remembers was looked up, and rightly; and by the time it binds
\* it is about the sockets of this scan.
Remembered ==
    /\ DOMAIN ours = Execs
    /\ \A e \in Execs :
         /\ DOMAIN ours[e] \subseteq 1..made
         /\ pc[e] = "off" => ours[e] = Nothing
         /\ pc[e] = "bind" => DOMAIN ours[e] = {s.inode : s \in table[e]}
         /\ ~blind[e] => \A i \in DOMAIN ours[e] :
                           ours[e][i] => \A s \in Seen : s.inode = i => s.owner = e

\* A workload that was started is in a namespace; only then is there a task.
Joined ==
    \A e \in Execs :
       /\ workload[e] # "none" => ns[e] # 0
       /\ workload[e] = "none" => pc[e] = "off"

Inv == TypeOK /\ Joined /\ InodesAreOnce /\ OneListener /\ Remembered /\ ForeignOnlyUnseen

-----------------------------------------------------------------------------
(* The operators of a scan                                                 *)

LEMMA SeenHas == \A e \in Execs : \A s \in table[e] : s \in Seen
  BY DEF Seen

LEMMA AbortedType ==
  ASSUME tasks \subseteq Task, NEW ts \in SUBSET tasks
  PROVE  /\ Aborted(ts) \subseteq Task
         /\ \A t \in Aborted(ts) : t.state = "on" => t \in tasks /\ t \notin ts
         /\ \A t \in Aborted(ts) : \E u \in tasks : u.port = t.port
  BY DEF Aborted, Task

LEMMA AbortedPorts ==
  ASSUME tasks \subseteq Task, NEW ts \in SUBSET tasks,
         \A t, u \in tasks : t.port = u.port => t = u
  PROVE  \A t, u \in Aborted(ts) : t.port = u.port => t = u
  BY DEF Aborted, Task

-----------------------------------------------------------------------------
LEMMA Initial == Init => Inv
<1> SUFFICES ASSUME Init PROVE Inv
  OBVIOUS
<1>1. TypeOK
  BY ForwardBounds DEF Init, TypeOK, Nothing
<1>2. Seen = {}
  BY DEF Init, Seen
<1>3. Joined /\ InodesAreOnce /\ OneListener /\ Remembered /\ ForeignOnlyUnseen
  BY <1>2 DEF Init, Joined, InodesAreOnce, OneListener, Remembered, ForeignOnlyUnseen, Nothing
<1> QED
  BY <1>1, <1>3 DEF Inv

-----------------------------------------------------------------------------
(* The steps, one by one                                                   *)

LEMMA StepCases ==
  ASSUME NEW P,
         Setup => P, Teardown => P,
         \A e \in Execs : Spawn(e) => P,
         \A e \in Execs : Exit(e) => P,
         \A e \in Execs : Launch(e) => P,
         \A e \in Execs : Leave(e) => P,
         \A e \in Execs : Stop(e) => P,
         \A e \in Execs : Retire(e) => P,
         \A e \in Execs : Read(e) => P,
         \A e \in Execs : LookUp(e) => P,
         \A e \in Execs : Bind(e) => P,
         \A e \in Execs, p \in Ports, six \in BOOLEAN : Listen(e, p, six) => P,
         \A s \in socks : Unlisten(s) => P,
         \A t \in tasks : Freed(t) => P,
         UNCHANGED vars => P,
         [Next]_vars
  PROVE  P
  BY DEF Next, Scan

\* End, in Stop and Retire, and the steps that only touch the environment.
LEMMA BoundType ==
  ASSUME TypeOK, NEW e \in Execs
  PROVE  /\ Bound(e) \subseteq Task
         /\ \A t \in Bound(e) :
              /\ t.exec = e
              /\ \E s \in Wanted(e) : s.port = t.port /\ s.v6 = t.v6
              /\ \A u \in tasks : u.port # t.port
  BY DEF Bound, Wanted, Free, Task, Sock, TypeOK

LEMMA BoundPorts ==
  ASSUME TypeOK, OneListener, NEW e \in Execs
  PROVE  \A t, u \in Bound(e) : t.port = u.port => t = u
<1> SUFFICES ASSUME NEW t \in Bound(e), NEW u \in Bound(e), t.port = u.port
             PROVE  t = u
  OBVIOUS
<1>1. PICK s \in table[e] : t = [exec |-> e, port |-> s.port, v6 |-> s.v6, state |-> "on"]
  BY DEF Bound, Wanted
<1>2. PICK r \in table[e] : u = [exec |-> e, port |-> r.port, v6 |-> r.v6, state |-> "on"]
  BY DEF Bound, Wanted
<1>3. s.port = r.port
  BY <1>1, <1>2
<1> QED
  BY <1>1, <1>2, <1>3 DEF OneListener

LEMMA Typed == ASSUME Inv, [Next]_vars PROVE TypeOK'
<1> USE DEF Inv
<1>1. Setup => TypeOK'
  BY ForwardBounds DEF Setup, TypeOK, scan
<1>2. Teardown => TypeOK'
  <2>1. 0 \in 0..MaxSetups
    BY ForwardBounds
  <2> QED
    BY <2>1 DEF Teardown, TypeOK, scan
<1>3. \A e \in Execs : Spawn(e) => TypeOK'
  BY DEF Spawn, TypeOK, scan
<1>4. \A e \in Execs : Exit(e) => TypeOK'
  BY DEF Exit, TypeOK, scan
<1>5. \A e \in Execs : Launch(e) => TypeOK'
  BY DEF Launch, TypeOK, env, Owner
<1>6. \A e \in Execs : Leave(e) => TypeOK'
  BY DEF Leave, TypeOK, scan
<1>7. ASSUME NEW e \in Execs, End(e) PROVE TypeOK'
  <2>1. Active(e) \in SUBSET tasks
    BY DEF Active
  <2>2. tasks' \subseteq Task /\ \A t, u \in tasks' : t.port = u.port => t = u
    BY <1>7, <2>1, AbortedType, AbortedPorts DEF End, TypeOK
  <2>3. \A f \in Execs : /\ DOMAIN ours'[f] \subseteq Inodes
                        /\ \A i \in DOMAIN ours'[f] : ours'[f][i] \in BOOLEAN
    BY <1>7 DEF End, TypeOK, Remembered, Nothing
  <2> QED
    BY <1>7, <2>2, <2>3 DEF End, TypeOK, env
<1>8. \A e \in Execs : Stop(e) => TypeOK'
  BY <1>7 DEF Stop
<1>9. \A e \in Execs : Retire(e) => TypeOK'
  BY <1>7 DEF Retire
<1>10. \A e \in Execs : Read(e) => TypeOK'
  <2> SUFFICES ASSUME NEW e \in Execs, Read(e) PROVE TypeOK'
    OBVIOUS
  <2>1. Winning(Here(e)) \subseteq Sock
    BY DEF Winning, Here, TypeOK
  <2> QED
    BY <2>1 DEF Read, TypeOK, env
<1>11. \A e \in Execs : LookUp(e) => TypeOK'
  <2> SUFFICES ASSUME NEW e \in Execs, LookUp(e) PROVE TypeOK'
    OBVIOUS
  <2>1. \A f \in Execs : DOMAIN ours'[f] \subseteq Inodes
    BY DEF LookUp, TypeOK, Remembered, Sock
  <2>2. \A f \in Execs : \A i \in DOMAIN ours'[f] : ours'[f][i] \in BOOLEAN
    BY DEF LookUp, TypeOK, Remembered
  <2> QED
    BY <2>1, <2>2 DEF LookUp, TypeOK, env
<1>12. \A e \in Execs : Bind(e) => TypeOK'
  <2> SUFFICES ASSUME NEW e \in Execs, Bind(e) PROVE TypeOK'
    OBVIOUS
  <2> DEFINE gone == Active(e) \ Kept(e)
  <2>1. gone \in SUBSET tasks
    BY DEF Active
  <2>2. /\ Aborted(gone) \subseteq Task
        /\ \A t \in Aborted(gone) : \E u \in tasks : u.port = t.port
        /\ \A t, u \in Aborted(gone) : t.port = u.port => t = u
    BY <2>1, AbortedType, AbortedPorts DEF TypeOK
  <2>3. tasks' = Aborted(gone) \cup Bound(e)
    BY DEF Bind
  <2>4. tasks' \subseteq Task
    BY <2>2, <2>3, BoundType
  <2>5. \A t \in Bound(e) : \A u \in Aborted(gone) : u.port # t.port
    <3>1. \A t \in Bound(e) : \A u \in tasks : u.port # t.port
      BY BoundType
    <3> HIDE DEF gone
    <3> QED
      BY <2>2, <3>1
  <2>6. \A t, u \in Bound(e) : t.port = u.port => t = u
    BY BoundPorts
  <2>7. \A t, u \in tasks' : t.port = u.port => t = u
    <3> HIDE DEF gone
    <3> QED
      BY <2>2, <2>3, <2>5, <2>6
  <2> QED
    BY <2>4, <2>7 DEF Bind, TypeOK, env
<1>13. \A e \in Execs, p \in Ports, six \in BOOLEAN : Listen(e, p, six) => TypeOK'
  <2> SUFFICES ASSUME NEW e \in Execs, NEW p \in Ports, NEW six \in BOOLEAN, Listen(e, p, six)
               PROVE  TypeOK'
    OBVIOUS
  <2>1. made' \in 1..MaxSocks /\ made' = made + 1
    BY ForwardBounds DEF Listen, TypeOK
  <2>2. ns[e] \in Spaces
    <3>1. ns[e] # 0
      BY DEF Listen, Joined
    <3>2. ns[e] \in 0..MaxSetups
      BY DEF TypeOK
    <3> QED
      BY <3>1, <3>2, ForwardBounds DEF Spaces
  <2>3. socks' \subseteq Sock
    BY <2>1, <2>2 DEF Listen, TypeOK, Sock, Inodes
  <2> QED
    BY <2>1, <2>3, ForwardBounds DEF Listen, TypeOK, scan
<1>14. \A s \in socks : Unlisten(s) => TypeOK'
  BY DEF Unlisten, TypeOK, scan
<1>15. \A t \in tasks : Freed(t) => TypeOK'
  BY DEF Freed, TypeOK, scan, env
<1>16. UNCHANGED vars => TypeOK'
  BY DEF TypeOK, vars, env, scan
<1> HIDE DEF Inv
<1> QED
  BY <1>1, <1>2, <1>3, <1>4, <1>5, <1>6, <1>8, <1>9, <1>10, <1>11, <1>12, <1>13, <1>14,
     <1>15, <1>16, StepCases

LEMMA InNamespaces == ASSUME Inv, [Next]_vars PROVE Joined'
<1>1. \A e \in Execs : Spawn(e) => Joined'
  BY DEF Spawn, Joined, Inv, TypeOK, scan
<1>2. \A e \in Execs : Exit(e) \/ Leave(e) => Joined'
  BY DEF Exit, Leave, Joined, Inv, TypeOK, scan
<1>3. workload' = workload /\ ns' = ns /\ pc' = pc => Joined'
  BY DEF Inv, Joined
<1>4. Setup \/ Teardown => Joined'
  BY <1>3 DEF Setup, Teardown, scan
<1>5. \A e \in Execs : Launch(e) => Joined'
  BY DEF Launch, Joined, Inv, TypeOK, env
<1>6. \A e \in Execs : Stop(e) \/ Retire(e) \/ Read(e) \/ LookUp(e) \/ Bind(e) => Joined'
  BY DEF Stop, Retire, Read, LookUp, Bind, End, Due, Joined, Inv, TypeOK, env
<1>7. \A e \in Execs, p \in Ports, six \in BOOLEAN : Listen(e, p, six) => Joined'
  BY <1>3 DEF Listen, scan
<1>8. (\A s \in socks : Unlisten(s) => Joined') /\ (\A t \in tasks : Freed(t) => Joined')
  BY <1>3 DEF Unlisten, Freed, env, scan
<1>9. UNCHANGED vars => Joined'
  BY <1>3 DEF vars, env, scan
<1> QED
  BY <1>1, <1>2, <1>4, <1>5, <1>6, <1>7, <1>8, <1>9, StepCases

\* Only Listen makes a socket; a scan reads those there are.
LEMMA SeenGrows ==
  ASSUME Inv, [Next]_vars
  PROVE  \/ Seen' \subseteq Seen /\ socks' \subseteq socks /\ made' = made
         \/ \E e \in Execs, p \in Ports, six \in BOOLEAN : Listen(e, p, six)
<1> DEFINE P == \/ Seen' \subseteq Seen /\ socks' \subseteq socks /\ made' = made
                \/ \E e \in Execs, p \in Ports, six \in BOOLEAN : Listen(e, p, six)
           Keeps == socks' \subseteq socks /\ made' = made /\ table' = table
<1>1. Keeps => P
  BY DEF Seen
<1>2. Setup \/ Teardown => P
  BY <1>1 DEF Setup, Teardown, scan
<1>3. \A e \in Execs : Spawn(e) \/ Exit(e) \/ Launch(e) \/ Leave(e) \/ LookUp(e) => P
  BY <1>1 DEF Spawn, Exit, Launch, Leave, LookUp, scan, env
<1>4. ASSUME NEW e \in Execs, env' = env, NEW read, table' = [table EXCEPT ![e] = read],
             read \subseteq socks
      PROVE  P
  <2>1. \A f \in Execs : table'[f] \subseteq table[f] \cup socks
    BY <1>4 DEF Inv, TypeOK
  <2>2. socks' = socks /\ made' = made
    BY <1>4 DEF env
  <2> QED
    BY <2>1, <2>2 DEF Seen
<1>5. \A e \in Execs : Stop(e) \/ Retire(e) \/ Bind(e) => P
  BY <1>4 DEF Stop, Retire, Bind, End
<1>6. \A e \in Execs : Read(e) => P
  BY <1>4 DEF Read, Winning, Here
<1>7. (\A s \in socks : Unlisten(s) => P) /\ (\A t \in tasks : Freed(t) => P)
  BY <1>1 DEF Unlisten, Freed, env, scan
<1>8. UNCHANGED vars => P
  BY <1>1 DEF vars, env, scan
<1>9. \A e \in Execs, p \in Ports, six \in BOOLEAN : Listen(e, p, six) => P
  OBVIOUS
<1> HIDE DEF P
<1>10. P
  BY <1>2, <1>3, <1>5, <1>6, <1>7, <1>8, <1>9, StepCases
<1> QED
  BY <1>10 DEF P

LEMMA Once == ASSUME Inv, [Next]_vars PROVE InodesAreOnce'
<1>1. CASE Seen' \subseteq Seen /\ made' = made
  BY <1>1 DEF Inv, InodesAreOnce
<1>2. ASSUME NEW e \in Execs, NEW p \in Ports, NEW six \in BOOLEAN, Listen(e, p, six)
      PROVE  InodesAreOnce'
  <2> DEFINE new == [inode |-> made + 1, ns |-> ns[e], port |-> p, v6 |-> six, owner |-> e]
  <2>1. Seen' \subseteq Seen \cup {new}
    BY <1>2 DEF Listen, Seen, scan
  <2>2. made \in Nat /\ made' = made + 1
    BY <1>2, ForwardBounds DEF Listen, Inv, TypeOK
  <2>3. \A s \in Seen : s.inode \in 1..made
    BY DEF Inv, InodesAreOnce
  <2>4. \A s \in Seen' : s.inode \in 1..made'
    BY <2>1, <2>2, <2>3
  <2>5. \A s \in Seen : s.inode # new.inode
    BY <2>2, <2>3
  <2>6. \A s, u \in Seen' : s.inode = u.inode => s = u
    <3> HIDE DEF new
    <3> QED
      BY <2>1, <2>5 DEF Inv, InodesAreOnce
  <2> QED
    BY <2>4, <2>6 DEF InodesAreOnce
<1> QED
  BY <1>1, <1>2, SeenGrows

LEMMA Listeners == ASSUME Inv, [Next]_vars PROVE OneListener'
<1> DEFINE Sockets == \A s, u \in socks : s.ns = u.ns /\ s.port = u.port /\ s.v6 = u.v6 => s = u
           Tables == \A e \in Execs : \A s, u \in table[e] : s.port = u.port => s = u
<1>1. Sockets /\ Tables
  BY DEF Inv, OneListener
<1>2. Sockets'
  <2>1. CASE socks' \subseteq socks
    BY <1>1, <2>1
  <2>2. ASSUME NEW e \in Execs, NEW p \in Ports, NEW six \in BOOLEAN, Listen(e, p, six)
        PROVE  Sockets'
    BY <1>1, <2>2 DEF Listen
  <2> QED
    BY <2>1, <2>2, SeenGrows
<1>3. Tables'
  <2>1. UNCHANGED table => Tables'
    BY <1>1
  <2>2. Setup \/ Teardown => Tables'
    BY <2>1 DEF Setup, Teardown, scan
  <2>3. \A e \in Execs : Spawn(e) \/ Exit(e) \/ Launch(e) \/ Leave(e) \/ LookUp(e) => Tables'
    BY <2>1 DEF Spawn, Exit, Launch, Leave, LookUp, scan, env
  <2>4. \A e \in Execs : Stop(e) \/ Retire(e) \/ Bind(e) => Tables'
    BY <1>1 DEF Stop, Retire, Bind, End, Inv, TypeOK
  <2>5. \A e \in Execs : Read(e) => Tables'
    <3> SUFFICES ASSUME NEW e \in Execs, Read(e) PROVE Tables'
      OBVIOUS
    <3>1. \A s \in Here(e) : s \in Sock
      BY DEF Here, Inv, TypeOK
    <3>2. \A s, u \in Winning(Here(e)) : s.port = u.port => s = u
      BY <1>1, <3>1 DEF Winning, Here, Sock
    <3> QED
      BY <1>1, <3>2 DEF Read, Inv, TypeOK
  <2>6. \A e \in Execs, p \in Ports, six \in BOOLEAN : Listen(e, p, six) => Tables'
    BY <2>1 DEF Listen, scan
  <2>7. (\A s \in socks : Unlisten(s) => Tables') /\ (\A t \in tasks : Freed(t) => Tables')
    BY <2>1 DEF Unlisten, Freed, scan
  <2>8. UNCHANGED vars => Tables'
    BY <2>1 DEF vars, scan
  <2> HIDE DEF Tables
  <2> QED
    BY <2>2, <2>3, <2>4, <2>5, <2>6, <2>7, <2>8, StepCases
<1> QED
  BY <1>2, <1>3 DEF OneListener

\* Scans remember what is true of every socket that has the inode.
LEMMA Remembers == ASSUME Inv, [Next]_vars PROVE Remembered'
<1> DEFINE Mem(e) == /\ DOMAIN ours[e] \subseteq 1..made
                     /\ pc[e] = "off" => ours[e] = Nothing
                     /\ pc[e] = "bind" => DOMAIN ours[e] = {s.inode : s \in table[e]}
                     /\ ~blind[e] => \A i \in DOMAIN ours[e] :
                                       ours[e][i] => \A s \in Seen : s.inode = i => s.owner = e
           Same(e) == /\ ours'[e] = ours[e] /\ table'[e] = table[e] /\ blind'[e] = blind[e]
                      /\ pc'[e] = pc[e]
           Less == Seen' \subseteq Seen /\ made' = made
<1>1. DOMAIN ours = Execs /\ \A e \in Execs : Mem(e)
  BY DEF Inv, Remembered
<1>2. ASSUME Less, NEW e \in Execs, Same(e) PROVE Mem(e)'
  BY <1>1, <1>2
<1>3. ASSUME Less, DOMAIN ours' = Execs, \A e \in Execs : Same(e) \/ Mem(e)'
      PROVE  Remembered'
  <2>1. \A e \in Execs : Mem(e)'
    BY <1>2, <1>3
  <2> QED
    BY <1>3, <2>1 DEF Remembered
<1>4. ASSUME Less, UNCHANGED scan PROVE Remembered'
  <2>1. \A e \in Execs : Same(e)
    BY <1>4 DEF scan
  <2>2. DOMAIN ours' = Execs
    BY <1>1, <1>4 DEF scan
  <2> HIDE DEF Same, Mem, Less
  <2> QED
    BY <1>3, <1>4, <2>1, <2>2
<1>5. ASSUME NEW e \in Execs, NEW p \in Ports, NEW six \in BOOLEAN, Listen(e, p, six)
      PROVE  Remembered'
  <2> DEFINE new == [inode |-> made + 1, ns |-> ns[e], port |-> p, v6 |-> six, owner |-> e]
  <2>1. Seen' \subseteq Seen \cup {new}
    BY <1>5 DEF Listen, Seen, scan
  <2>2. made \in Nat /\ made' = made + 1
    BY <1>5, ForwardBounds DEF Listen, Inv, TypeOK
  <2>3. UNCHANGED scan
    BY <1>5 DEF Listen
  <2>4. ASSUME NEW f \in Execs PROVE Mem(f)'
    <3>1. DOMAIN ours[f] \subseteq 1..made' /\ new.inode \notin DOMAIN ours[f]
      BY <1>1, <2>2
    <3>2. ~blind[f] => \A i \in DOMAIN ours[f] :
             ours[f][i] => \A s \in Seen' : s.inode = i => s.owner = f
      <4> HIDE DEF new
      <4> QED
        BY <1>1, <2>1, <3>1
    <3> QED
      BY <1>1, <2>3, <3>1, <3>2 DEF scan
  <2>5. DOMAIN ours' = Execs
    BY <1>1, <2>3 DEF scan
  <2> QED
    BY <2>4, <2>5 DEF Remembered
<1> SUFFICES ASSUME Less PROVE Remembered'
  BY <1>5, SeenGrows
<1>6. Setup \/ Teardown => Remembered'
  BY <1>4 DEF Setup, Teardown
<1>7. \A e \in Execs : Spawn(e) \/ Exit(e) \/ Leave(e) => Remembered'
  BY <1>4 DEF Spawn, Exit, Leave
<1>8. \A e \in Execs : Launch(e) => Remembered'
  <2> SUFFICES ASSUME NEW e \in Execs, Launch(e) PROVE Remembered'
    OBVIOUS
  <2>1. ours[e] = Nothing /\ ours' = ours
    BY <1>1 DEF Launch
  <2>2. pc'[e] \in {"sleep", "done"}
    BY DEF Launch, Inv, TypeOK
  <2>3. Mem(e)'
    BY <2>1, <2>2 DEF Nothing
  <2>4. \A f \in Execs \ {e} : Same(f)
    BY DEF Launch, Inv, TypeOK
  <2> HIDE DEF Mem, Same, Less
  <2> QED
    BY <1>1, <1>3, <2>1, <2>3, <2>4
<1>9. ASSUME NEW e \in Execs, End(e) PROVE Remembered'
  <2>1. ours'[e] = Nothing /\ pc'[e] = "done" /\ DOMAIN ours' = Execs
    BY <1>1, <1>9 DEF End, Inv, TypeOK
  <2>2. Mem(e)'
    BY <2>1 DEF Nothing
  <2>3. \A f \in Execs \ {e} : Same(f)
    BY <1>1, <1>9 DEF End, Inv, TypeOK
  <2> HIDE DEF Mem, Same, Less
  <2> QED
    BY <1>3, <2>1, <2>2, <2>3
<1>10. \A e \in Execs : Stop(e) \/ Retire(e) => Remembered'
  BY <1>9 DEF Stop, Retire
<1>11. \A e \in Execs : Read(e) => Remembered'
  <2> SUFFICES ASSUME NEW e \in Execs, Read(e) PROVE Remembered'
    OBVIOUS
  <2>1. ours' = ours /\ blind' = blind /\ pc'[e] = "own"
    BY DEF Read, Inv, TypeOK
  <2>2. Mem(e)'
    BY <1>1, <2>1
  <2>3. \A f \in Execs \ {e} : Same(f)
    BY DEF Read, Inv, TypeOK
  <2> HIDE DEF Mem, Same, Less
  <2> QED
    BY <1>1, <1>3, <2>1, <2>2, <2>3
<1>12. \A e \in Execs : LookUp(e) => Remembered'
  <2> SUFFICES ASSUME NEW e \in Execs, LookUp(e) PROVE Remembered'
    OBVIOUS
  <2> DEFINE known == {s.inode : s \in table[e]}
  <2>1. /\ DOMAIN ours' = Execs /\ DOMAIN ours'[e] = known
        /\ \A i \in known : ours'[e][i] =
             IF i \in DOMAIN ours[e] THEN ours[e][i]
             ELSE blind[e] \/ \E s \in table[e] : s.inode = i /\ Owned(e, s)
    BY <1>1 DEF LookUp
  <2>2. blind' = blind /\ table' = table /\ pc'[e] = "bind" /\ made' = made
    BY DEF LookUp, Inv, TypeOK, env
  <2>3. known \subseteq 1..made
    BY SeenHas DEF Inv, InodesAreOnce
  <2>4. ASSUME ~blind[e], NEW i \in known, ours'[e][i], NEW s \in Seen, s.inode = i
        PROVE  s.owner = e
    <3>1. CASE i \in DOMAIN ours[e]
      BY <1>1, <2>1, <2>4, <3>1
    <3>2. CASE i \notin DOMAIN ours[e]
      <4>1. PICK u \in table[e] : u.inode = i /\ Owned(e, u)
        BY <2>1, <2>4, <3>2
      <4>2. u = s
        BY <2>4, <4>1, SeenHas DEF Inv, InodesAreOnce
      <4> QED
        BY <4>1, <4>2 DEF Owned
    <3> QED
      BY <3>1, <3>2
  <2>5. Mem(e)'
    BY <2>1, <2>2, <2>3, <2>4
  <2>6. \A f \in Execs \ {e} : Same(f)
    BY <1>1 DEF LookUp, Inv, TypeOK
  <2> HIDE DEF Mem, Same, Less
  <2> QED
    BY <1>3, <2>1, <2>5, <2>6
<1>13. \A e \in Execs : Bind(e) => Remembered'
  <2> SUFFICES ASSUME NEW e \in Execs, Bind(e) PROVE Remembered'
    OBVIOUS
  <2>1. ours' = ours /\ blind' = blind /\ pc'[e] = "sleep"
    BY DEF Bind, Inv, TypeOK
  <2>2. Mem(e)'
    BY <1>1, <2>1
  <2>3. \A f \in Execs \ {e} : Same(f)
    BY DEF Bind, Inv, TypeOK
  <2> HIDE DEF Mem, Same, Less
  <2> QED
    BY <1>1, <1>3, <2>1, <2>2, <2>3
<1>14. \A e \in Execs, p \in Ports, six \in BOOLEAN : Listen(e, p, six) => Remembered'
  BY <1>5
<1>15. (\A s \in socks : Unlisten(s) => Remembered') /\ (\A t \in tasks : Freed(t) => Remembered')
  BY <1>4 DEF Unlisten, Freed
<1>16. UNCHANGED vars => Remembered'
  BY <1>4 DEF vars
<1> HIDE DEF Mem, Same, Less
<1> QED
  BY <1>6, <1>7, <1>8, <1>10, <1>11, <1>12, <1>13, <1>14, <1>15, <1>16, StepCases

\* A port that is kept over a bind is one whose listener was found to be its own.
LEMMA Foreign == ASSUME Inv, [Next]_vars PROVE ForeignOnlyUnseen'
<1> DEFINE Ok(t, s) == Relays(t, s) /\ t.state = "on" /\ s.inode \in DOMAIN ours[t.exec] =>
                         ours[t.exec][s.inode] \/ pc[t.exec] = "bind"
           On(t) == t \in tasks /\ t.state = "on" /\ t.exec \in Execs
           Knows(e) == ours'[e] = ours[e] /\ pc'[e] = pc[e] /\ ns'[e] = ns[e]
           Goal == ForeignOnlyUnseen'
<1>1. \A t \in tasks, s \in socks : Ok(t, s)
  BY DEF Inv, ForeignOnlyUnseen
<1>2. \A t \in tasks : t.exec \in Execs
  BY DEF Inv, TypeOK, Task
<1>3. \A t \in tasks' : t.exec \in Execs
  BY Typed DEF TypeOK, Task
<1>4. ASSUME socks' \subseteq socks, \A t \in tasks' : t.state = "on" => t \in tasks,
             \A t \in tasks' : t.state = "on" => Knows(t.exec) \/ ours'[t.exec] = Nothing
      PROVE  Goal
  <2> SUFFICES ASSUME NEW t \in tasks', NEW s \in socks', t.state = "on", Relays(t, s)',
                      s.inode \in DOMAIN ours'[t.exec]
               PROVE  ours'[t.exec][s.inode] \/ pc'[t.exec] = "bind"
    BY DEF ForeignOnlyUnseen
  <2>1. Knows(t.exec)
    BY <1>4 DEF Nothing
  <2>2. Relays(t, s)
    BY <2>1 DEF Relays
  <2> QED
    BY <1>1, <1>4, <2>1, <2>2
<1>5. ASSUME UNCHANGED <<scan, tasks, ns>>, socks' \subseteq socks PROVE Goal
  <2>1. \A e \in Execs : Knows(e)
    BY <1>5 DEF scan
  <2> HIDE DEF Goal, Knows
  <2> QED
    BY <1>2, <1>4, <1>5, <2>1
<1>6. Setup \/ Teardown => Goal
  BY <1>5 DEF Setup, Teardown
<1>7. \A e \in Execs : Exit(e) \/ Leave(e) => Goal
  BY <1>5 DEF Exit, Leave
<1>8. \A e \in Execs : Spawn(e) => Goal
  <2> SUFFICES ASSUME NEW e \in Execs, Spawn(e) PROVE Goal
    OBVIOUS
  <2>1. ours'[e] = Nothing
    BY DEF Spawn, Inv, Remembered, Joined, scan
  <2>2. \A f \in Execs \ {e} : Knows(f)
    BY DEF Spawn, Inv, TypeOK, scan
  <2>3. socks' = socks /\ tasks' = tasks
    BY DEF Spawn
  <2> HIDE DEF Goal, Knows
  <2> QED
    BY <1>2, <1>4, <2>1, <2>2, <2>3
<1>9. \A e \in Execs : Launch(e) => Goal
  <2> SUFFICES ASSUME NEW e \in Execs, Launch(e) PROVE Goal
    OBVIOUS
  <2>1. ours'[e] = Nothing
    BY DEF Launch, Inv, Remembered
  <2>2. \A f \in Execs \ {e} : Knows(f)
    BY DEF Launch, Inv, TypeOK, env
  <2>3. socks' = socks /\ tasks' = tasks
    BY DEF Launch, env
  <2> HIDE DEF Goal, Knows
  <2> QED
    BY <1>2, <1>4, <2>1, <2>2, <2>3
<1>10. ASSUME NEW e \in Execs, End(e) PROVE Goal
  <2>1. ours'[e] = Nothing
    BY <1>10 DEF End, Inv, Remembered
  <2>2. \A f \in Execs \ {e} : Knows(f)
    BY <1>10 DEF End, Inv, TypeOK, Remembered, env
  <2>3. socks' = socks
    BY <1>10 DEF End, env
  <2>4. \A t \in tasks' : t.state = "on" => t \in tasks
    BY <1>10, AbortedType DEF End, Active, Inv, TypeOK
  <2> HIDE DEF Goal, Knows
  <2> QED
    BY <1>2, <1>4, <2>1, <2>2, <2>3, <2>4
<1>11. \A e \in Execs : Stop(e) \/ Retire(e) => Goal
  BY <1>10 DEF Stop, Retire
<1>12. ASSUME NEW e \in Execs, socks' = socks, tasks' = tasks, ns' = ns,
              \A f \in Execs \ {e} : Knows(f),
              pc'[e] = "bind" \/ (ours'[e] = ours[e] /\ pc[e] # "bind")
       PROVE  Goal
  <2> SUFFICES ASSUME NEW t \in tasks, NEW s \in socks, t.state = "on", Relays(t, s),
                      s.inode \in DOMAIN ours'[t.exec]
               PROVE  ours'[t.exec][s.inode] \/ pc'[t.exec] = "bind"
    BY <1>12 DEF ForeignOnlyUnseen, Relays
  <2>1. CASE t.exec = e
    BY <1>1, <1>12, <2>1
  <2>2. CASE t.exec # e
    BY <1>1, <1>2, <1>12, <2>2
  <2> QED
    BY <2>1, <2>2
<1>13. \A e \in Execs : Read(e) => Goal
  <2> SUFFICES ASSUME NEW e \in Execs, Read(e) PROVE Goal
    OBVIOUS
  <2>1. socks' = socks /\ tasks' = tasks /\ ns' = ns /\ ours' = ours /\ pc[e] = "sleep"
    BY DEF Read, Due, env
  <2>2. \A f \in Execs \ {e} : Knows(f)
    BY DEF Read, Inv, TypeOK, env
  <2> HIDE DEF Goal, Knows
  <2> QED
    BY <1>12, <2>1, <2>2
<1>14. \A e \in Execs : LookUp(e) => Goal
  <2> SUFFICES ASSUME NEW e \in Execs, LookUp(e) PROVE Goal
    OBVIOUS
  <2>1. socks' = socks /\ tasks' = tasks /\ ns' = ns /\ pc'[e] = "bind"
    BY DEF LookUp, Inv, TypeOK, env
  <2>2. \A f \in Execs \ {e} : Knows(f)
    BY DEF LookUp, Inv, TypeOK, Remembered, env
  <2> HIDE DEF Goal, Knows
  <2> QED
    BY <1>12, <2>1, <2>2
<1>15. \A e \in Execs : Bind(e) => Goal
  <2> SUFFICES ASSUME NEW e \in Execs, Bind(e) PROVE Goal
    OBVIOUS
  <2>1. socks' = socks /\ ns' = ns /\ ours' = ours /\ pc[e] = "bind"
    BY DEF Bind, env
  <2>2. \A f \in Execs \ {e} : Knows(f)
    BY DEF Bind, Inv, TypeOK, env
  <2> DEFINE gone == Active(e) \ Kept(e)
  <2>3. \A t \in Aborted(gone) : t.state = "on" => t \in tasks /\ t \notin gone
    BY AbortedType DEF Active, Inv, TypeOK
  <2>4. \A t \in tasks' : t.state = "on" =>
           \/ t.exec # e /\ t \in tasks
           \/ t.exec = e /\ \E w \in Wanted(e) : w.port = t.port /\ w.v6 = t.v6
    <3> SUFFICES ASSUME NEW t \in tasks', t.state = "on"
                 PROVE  \/ t.exec # e /\ t \in tasks
                        \/ t.exec = e /\ \E w \in Wanted(e) : w.port = t.port /\ w.v6 = t.v6
      OBVIOUS
    <3>1. t \in Aborted(gone) \/ t \in Bound(e)
      BY DEF Bind
    <3>2. CASE t \in Bound(e)
      BY <3>2, BoundType DEF Inv
    <3>3. CASE t \in Aborted(gone)
      <4>1. t \in tasks /\ t \notin gone
        BY <2>3, <3>3
      <4>2. t.exec # e \/ t \in Kept(e)
        BY <4>1 DEF Active
      <4> QED
        BY <4>1, <4>2 DEF Kept, Active
    <3> QED
      BY <3>1, <3>2, <3>3
  <2> SUFFICES ASSUME NEW t \in tasks', NEW s \in socks, t.state = "on", Relays(t, s),
                      s.inode \in DOMAIN ours[t.exec]
               PROVE  ours[t.exec][s.inode] \/ pc'[t.exec] = "bind"
    BY <2>1 DEF ForeignOnlyUnseen, Relays
  <2>5. CASE t.exec # e
    BY <1>1, <1>2, <2>2, <2>4, <2>5
  <2>6. CASE t.exec = e
    <3>1. PICK w \in Wanted(e) : w.port = t.port /\ w.v6 = t.v6
      BY <2>4, <2>6
    <3>2. DOMAIN ours[e] = {u.inode : u \in table[e]}
      BY <2>1 DEF Inv, Remembered
    <3>3. PICK u \in table[e] : u.inode = s.inode
      BY <2>6, <3>2
    <3>4. u = s
      BY <3>3 DEF Inv, InodesAreOnce, Seen
    <3>5. w \in table[e] /\ ours[e][w.inode] /\ s.port = w.port
      BY <3>1 DEF Wanted, Relays
    <3>6. w = s
      BY <3>4, <3>5 DEF Inv, OneListener
    <3> QED
      BY <2>6, <3>5, <3>6
  <2> QED
    BY <2>5, <2>6
<1>16. \A e \in Execs, p \in Ports, six \in BOOLEAN : Listen(e, p, six) => Goal
  <2> SUFFICES ASSUME NEW e \in Execs, NEW p \in Ports, NEW six \in BOOLEAN, Listen(e, p, six)
               PROVE  Goal
    OBVIOUS
  <2> DEFINE new == [inode |-> made + 1, ns |-> ns[e], port |-> p, v6 |-> six, owner |-> e]
  <2>1. socks' = socks \cup {new} /\ UNCHANGED <<scan, tasks, ns>>
    BY DEF Listen
  <2>2. made + 1 \notin 1..made /\ new.inode = made + 1
    BY ForwardBounds DEF Inv, TypeOK
  <2>3. \A t \in tasks : new.inode \notin DOMAIN ours[t.exec]
    BY <1>2, <2>2 DEF Inv, Remembered
  <2> HIDE DEF new
  <2>4. ours' = ours /\ pc' = pc /\ tasks' = tasks /\ ns' = ns
    BY <2>1 DEF scan
  <2> QED
    BY <1>1, <2>1, <2>3, <2>4 DEF ForeignOnlyUnseen, Relays
<1>17. \A s \in socks : Unlisten(s) => Goal
  BY <1>5 DEF Unlisten
<1>18. \A t \in tasks : Freed(t) => Goal
  <2> SUFFICES ASSUME NEW t \in tasks, Freed(t) PROVE Goal
    OBVIOUS
  <2>1. tasks' \subseteq tasks /\ socks' = socks /\ \A e \in Execs : Knows(e)
    BY DEF Freed, env, scan
  <2> HIDE DEF Goal, Knows
  <2> QED
    BY <1>2, <1>4, <2>1
<1>19. UNCHANGED vars => Goal
  BY <1>5 DEF vars, env
<1> HIDE DEF Goal
<1>20. Goal
  BY <1>6, <1>7, <1>8, <1>9, <1>11, <1>13, <1>14, <1>15, <1>16, <1>17, <1>18, <1>19, StepCases
<1> QED
  BY <1>20 DEF Goal

-----------------------------------------------------------------------------
(* The theorems                                                            *)

LEMMA Inductive == ASSUME Inv, [Next]_vars PROVE Inv'
  BY Typed, InNamespaces, Once, Listeners, Remembers, Foreign DEF Inv

LEMMA OwnWhenBinding == Inv => OwnForwardsOnly
<1> SUFFICES ASSUME Inv, NEW e \in Execs, pc[e] = "bind", ~blind[e], NEW s \in Wanted(e)
             PROVE  s.owner = e
  BY DEF OwnForwardsOnly
<1>1. s \in table[e] /\ ours[e][s.inode] /\ s.inode \in DOMAIN ours[e]
  BY DEF Wanted, Inv, Remembered
<1> QED
  BY <1>1, SeenHas DEF Inv, Remembered

LEMMA Holds == Spec => []Inv
<1>1. Inv /\ [Next]_vars => Inv'
  BY Inductive
<1> QED
  BY Initial, <1>1, PTL DEF Spec

\* Every variable keeps its type; no port of the workspace's address is held by
\* two accept tasks (bind_host, forward.rs).
THEOREM TypeCorrect == Spec => []TypeOK
<1>1. Inv => TypeOK
  BY DEF Inv
<1> QED
  BY Holds, <1>1, PTL

\* forward() binds only ports its own workload listens on, and a port reaches
\* another execution's server only until the next scan has looked that server
\* up, for any number of executions, sockets and replaced namespaces.
THEOREM ForwardsOwn == Spec => []ForwardsAreOwn
<1>1. Inv => ForwardsAreOwn
  BY OwnWhenBinding DEF Inv, ForwardsAreOwn
<1> QED
  BY Holds, <1>1, PTL
=============================================================================
