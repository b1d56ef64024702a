-------------------------- MODULE TempRootsProofs --------------------------
(***************************************************************************)
(* TLAPS proofs about TempRoots, for any registries, ids, addresses and    *)
(* processes.  Inv is inductive: the lock makes a process the only one     *)
(* that works on its registry, the exclusive creation of the marker makes  *)
(* it the only one that writes it, and a workspace that runs is the one    *)
(* its root's marker names.                                                *)
(***************************************************************************)
EXTENDS TempRoots, TLAPS

\* What the variables of a process hold at each of its steps.
Shape ==
    \A c \in Clients :
        /\ pc[c] # "idle" => at[c] \in States /\ id[c] \in Ids
        /\ pc[c] = "idle" => cand[c] = 0
        /\ pc[c] \in Claiming \cup {"run"} => cand[c] \in Ips
        /\ pc[c] = "create" => task[c] = "create"
        /\ pc[c] \in {"get", "get_lock"} => task[c] = "get"
        /\ pc[c] \in Claiming => task[c] \in {"create", "get", "own"}
        /\ pc[c] = "peek" /\ task[c] = "own" => aim[c] = "move"

\* A process that works on a registry holds its lock.
LockHeld == \A c \in Clients : pc[c] \in Claiming => lock[at[c]] = c

\* Meanwhile the registry is what the process read, except that get took its
\* own entry out of the copy.
WorldsCurrent ==
    \A c \in Clients : pc[c] \in Claiming =>
        /\ \A i \in Ids : i # id[c] => worlds[c][i] = reg[at[c]][i]
        /\ task[c] # "get" => worlds[c] = reg[at[c]]

\* An entry that get or owned_temp_root relies on is there.
EntryThere ==
    \A c \in Clients :
        /\ pc[c] = "get_lock" => Entry(c) # None
        /\ pc[c] = "own" => Entry(c) # None /\ Entry(c).root = "some"
        /\ pc[c] \in Claiming /\ task[c] = "own" =>
              Entry(c) # None /\ Entry(c).root = "some"
        /\ pc[c] \in Claiming /\ task[c] # "own" =>
              Entry(c) = None \/ Entry(c).root = "none"

\* The address a process tries belongs to no other workspace of its registry.
CandFree ==
    \A c \in Clients : pc[c] \in Claiming =>
        \A i \in Ids : i # id[c] /\ reg[at[c]][i] # None =>
            reg[at[c]][i].ip # cand[c]

\* Outside the loop of allocate the process tries the recorded address.
CandRecorded ==
    \A c \in Clients : pc[c] \in Claiming /\ aim[c] = "keep" =>
        Entry(c) # None /\ cand[c] = Entry(c).ip

\* The creator of a marker is the only one to write it.
WriterAlone ==
    \A c \in Clients : pc[c] = "write" =>
        /\ marker[cand[c]] = Blank
        /\ \A d \in Clients : pc[d] = "write" /\ cand[d] = cand[c] => c = d

\* A root that is about to be recorded, or in use, is marked.
Marked ==
    \A c \in Clients : pc[c] \in {"save", "run"} => marker[cand[c]] = <<at[c], id[c]>>

\* owned_temp_root looks for another address because its own is taken.
Moving ==
    \A c \in Clients : pc[c] \in Claiming /\ task[c] = "own" /\ aim[c] = "move" =>
        marker[Entry(c).ip] # <<at[c], id[c]>> /\ cand[c] # Entry(c).ip

\* Only the workspace that records it gets as far as marking an old root.
LegacyClaims ==
    \A c \in Clients :
        pc[c] \in {"make", "mark"} /\ cand[c] \in legacy /\ marker[cand[c]] = None =>
            task[c] = "own" /\ aim[c] = "keep"

Inv ==
    /\ TypeOK
    /\ Shape
    /\ LockHeld
    /\ WorldsCurrent
    /\ EntryThere
    /\ CandFree
    /\ CandRecorded
    /\ AddressesDiffer
    /\ WriterAlone
    /\ Marked
    /\ Moving
    /\ LegacyClaims

-----------------------------------------------------------------------------

(* The steps of a process, split at every IF and every disjunction.        *)

Leaves(c) == Exit(c) /\ UNCHANGED <<reg, rootVars>>

Proceeds(c) ==
    /\ pc[c] \in {"get", "get_lock"}
    /\ Entry(c) # None
    /\ \/ Entry(c).root = "some" /\ Goto(c, "own")
       \/ Entry(c).root # "some" /\ Goto(c, "get_lock")
    /\ UNCHANGED <<reg, lock, rootVars, at, id, task, worlds, cand, aim>>

Locks(c) == LockFree(c) /\ Acquire(c) /\ UNCHANGED <<reg, rootVars, at, id>>

CreateScans(c) ==
    /\ pc[c] = "create" /\ Entry(c) = None
    /\ Locks(c)
    /\ Scan(c, reg[at[c]], 0)
    /\ worlds' = [worlds EXCEPT ![c] = reg[at[c]]]
    /\ UNCHANGED task

CreateRetains(c) ==
    /\ pc[c] = "create" /\ Entry(c) # None /\ Entry(c).root = "none"
    /\ Locks(c)
    /\ Retain(c, "peek")
    /\ worlds' = [worlds EXCEPT ![c] = reg[at[c]]]
    /\ UNCHANGED task

GetRetains(c) ==
    /\ pc[c] = "get_lock" /\ Entry(c).root = "none"
    /\ Locks(c)
    /\ Retain(c, "peek")
    /\ worlds' = [worlds EXCEPT ![c] = [reg[at[c]] EXCEPT ![id[c]] = None]]
    /\ UNCHANGED task

Advances(c) ==
    /\ \/ pc[c] = "peek" /\ Unmarked(cand[c])
       \/ pc[c] = "mark" /\ marker[cand[c]] # None /\ ~Mine(c)
    /\ Scan(c, worlds[c], After(c))
    /\ UNCHANGED <<reg, lock, rootVars, at, id, task, worlds>>

Peeks(c) ==
    /\ pc[c] = "peek" /\ ~Unmarked(cand[c])
    /\ Goto(c, "make")
    /\ UNCHANGED <<reg, lock, rootVars, at, id, task, worlds, cand, aim>>

Creates(c) ==
    /\ pc[c] = "mark" /\ marker[cand[c]] = None
    /\ marker' = [marker EXCEPT ![cand[c]] = Blank]
    /\ Goto(c, "write")
    /\ UNCHANGED <<reg, lock, dir, legacy, at, id, task, worlds, cand, aim>>

Confirms(c) ==
    /\ pc[c] = "mark" /\ Mine(c)
    /\ Held(c)
    /\ UNCHANGED <<reg, rootVars>>

SaveEntry(c) ==
    /\ pc[c] = "save"
    /\ reg' = [reg EXCEPT ![at[c]] =
                    [worlds[c] EXCEPT ![id[c]] = [ip |-> cand[c], root |-> "some"]]]
    /\ Unlock(c)
    /\ UNCHANGED rootVars

SaveExits(c) == task[c] = "create" /\ SaveEntry(c) /\ Exit(c)

SaveGets(c) ==
    /\ task[c] = "get" /\ SaveEntry(c)
    /\ Goto(c, "own")
    /\ cand' = [cand EXCEPT ![c] = 0]
    /\ UNCHANGED <<at, id, task, worlds, aim>>

SaveRuns(c) ==
    /\ task[c] = "own" /\ SaveEntry(c)
    /\ Goto(c, "run")
    /\ UNCHANGED <<at, id, task, worlds, cand, aim>>

Case(c) ==
    \/ Begin(c) \/ Leaves(c) \/ Proceeds(c) \/ CreateScans(c) \/ CreateRetains(c)
    \/ GetRetains(c) \/ OwnLock(c) \/ Advances(c) \/ Peeks(c) \/ Make(c) \/ Creates(c)
    \/ Confirms(c) \/ WriteOwner(c) \/ SaveExits(c) \/ SaveGets(c) \/ SaveRuns(c)

\* Every step of a process is one of these.
LEMMA Cases ==
  ASSUME Shape, EntryThere, NEW c \in Clients,
         Begin(c) \/ Step(c) \/ Done(c) \/ Fail(c)
  PROVE  Case(c)
<1> USE DEF Case
<1>1. CASE Begin(c)
  BY <1>1
<1>2. CASE CreateLock(c)
  BY <1>2 DEF CreateLock, Leaves, CreateScans, CreateRetains, Locks
<1>3. CASE GetRead(c)
  BY <1>3 DEF GetRead, Leaves, Proceeds
<1>4. CASE GetLock(c)
  BY <1>4 DEF GetLock, Proceeds, GetRetains, Locks, Shape, EntryThere
<1>5. CASE OwnLock(c)
  BY <1>5
<1>6. CASE Peek(c)
  BY <1>6 DEF Peek, Taken, Advances, Leaves, Peeks
<1>7. CASE Make(c)
  BY <1>7
<1>8. CASE Mark(c)
  BY <1>8 DEF Mark, Taken, Advances, Leaves, Creates, Confirms, rootVars
<1>9. CASE WriteOwner(c)
  BY <1>9
<1>10. CASE Save(c)
  BY <1>10 DEF Save, SaveExits, SaveGets, SaveRuns, SaveEntry, Exit
<1>11. CASE Done(c) \/ Fail(c)
  BY <1>11 DEF Done, Fail, Leaves
<1> QED
  BY <1>1, <1>2, <1>3, <1>4, <1>5, <1>6, <1>7, <1>8, <1>9, <1>10, <1>11 DEF Step

-----------------------------------------------------------------------------
\* An owner's name is neither of the two markers that name nobody.
LEMMA OwnerValues ==
  \A s \in States, i \in Ids : <<s, i>> # None /\ <<s, i>> # Blank
  BY ValueAssumption DEF Workspaces

\* Held moves the process on and gives back no lock but its own.
LEMMA HeldTypes ==
  ASSUME TypeOK, NEW c \in Clients, Held(c)
  PROVE  pc' \in [Clients -> Labels] /\ lock' \in [States -> Clients \cup {None}]
<1>1. CASE Goto(c, "run") /\ Unlock(c)
  BY <1>1 DEF TypeOK, Goto, Unlock, Labels, Claiming
<1>2. CASE Goto(c, "save") /\ UNCHANGED lock
  BY <1>2 DEF TypeOK, Goto, Labels, Claiming
<1> QED
  BY <1>1, <1>2 DEF Held

\* Every step keeps the types.
LEMMA TypeNext ==
  ASSUME TypeOK, Shape, EntryThere, [Next]_vars
  PROVE  TypeOK'
<1> USE IpAssumption, ValueAssumption
    DEF TypeOK, Shape, EntryThere, Labels, Entries, Workspaces, Empty, Ips, Entry,
        Claiming, rootVars
<1>1. ASSUME NEW c \in Clients, Begin(c) PROVE TypeOK'
  BY <1>1 DEF Begin, Goto
<1>2. ASSUME NEW c \in Clients, Leaves(c) PROVE TypeOK'
  BY <1>2 DEF Leaves, Exit, Unlock, Goto
<1>3. ASSUME NEW c \in Clients, Proceeds(c) PROVE TypeOK'
  BY <1>3 DEF Proceeds, Goto
<1>4. ASSUME NEW c \in Clients, CreateScans(c) PROVE TypeOK'
  BY <1>4 DEF CreateScans, Locks, LockFree, Acquire, Scan, Free, Pool, Used, Goto
<1>5. ASSUME NEW c \in Clients, CreateRetains(c) PROVE TypeOK'
  BY <1>5 DEF CreateRetains, Locks, LockFree, Acquire, Retain, Goto
<1>6. ASSUME NEW c \in Clients, GetRetains(c) PROVE TypeOK'
  BY <1>6 DEF GetRetains, Locks, LockFree, Acquire, Retain, Goto
<1>7. ASSUME NEW c \in Clients, OwnLock(c) PROVE TypeOK'
  BY <1>7 DEF OwnLock, LockFree, Acquire, Retain, Goto
<1>8. ASSUME NEW c \in Clients, Advances(c) PROVE TypeOK'
  BY <1>8 DEF Advances, After, Scan, Free, Pool, Used, Unmarked, Mine, RootOwner,
     Goto
<1>9. ASSUME NEW c \in Clients, Peeks(c) PROVE TypeOK'
  BY <1>9 DEF Peeks, Unmarked, Goto
<1>10. ASSUME NEW c \in Clients, Make(c) PROVE TypeOK'
  <2>1. cand[c] \in Ips
    BY <1>10 DEF Make
  <2>2. dir' \subseteq Ips /\ legacy' \subseteq dir'
    BY <1>10, <2>1 DEF Make
  <2>3. pc' \in [Clients -> Labels]
    BY <1>10 DEF Make, Goto
  <2> QED
    BY <1>10, <2>2, <2>3 DEF Make
<1>11. ASSUME NEW c \in Clients, Creates(c) PROVE TypeOK'
  BY <1>11 DEF Creates, Goto
<1>12. ASSUME NEW c \in Clients, Confirms(c) PROVE TypeOK'
  <2>1. Held(c)
    BY <1>12 DEF Confirms
  <2>2. pc' \in [Clients -> Labels] /\ lock' \in [States -> Clients \cup {None}]
    BY <2>1, HeldTypes
  <2> QED
    BY <1>12, <2>1, <2>2 DEF Confirms, Held
<1>13. ASSUME NEW c \in Clients, WriteOwner(c) PROVE TypeOK'
  <2>1. Held(c)
    BY <1>13 DEF WriteOwner
  <2>2. pc' \in [Clients -> Labels] /\ lock' \in [States -> Clients \cup {None}]
    BY <2>1, HeldTypes
  <2>3. marker' \in [Ips -> Workspaces \cup {None, Blank}]
    BY <1>13 DEF WriteOwner, RootOwner
  <2> QED
    BY <1>13, <2>1, <2>2, <2>3 DEF WriteOwner, Held
<1>14. ASSUME NEW c \in Clients, SaveExits(c) PROVE TypeOK'
  BY <1>14 DEF SaveExits, SaveEntry, Exit, Unlock, Goto
<1>15. ASSUME NEW c \in Clients, SaveGets(c) PROVE TypeOK'
  BY <1>15 DEF SaveGets, SaveEntry, Unlock, Goto
<1>16. ASSUME NEW c \in Clients, SaveRuns(c) PROVE TypeOK'
  BY <1>16 DEF SaveRuns, SaveEntry, Unlock, Goto
<1>17. ASSUME NEW i \in Ips, RemoveRoot(i) PROVE TypeOK'
  BY <1>17 DEF RemoveRoot, clientVars
<1>18. CASE UNCHANGED vars
  BY <1>18 DEF vars, rootVars, clientVars
<1> QED
  BY <1>1, <1>2, <1>3, <1>4, <1>5, <1>6, <1>7, <1>8, <1>9, <1>10, <1>11, <1>12,
     <1>13, <1>14, <1>15, <1>16, <1>17, <1>18, Cases, Zenon DEF Next, Case

\* A process is given its workspace and its address before it needs them.
LEMMA ShapeNext ==
  ASSUME TypeOK, Shape, EntryThere, [Next]_vars
  PROVE  Shape'
<1> USE IpAssumption, ValueAssumption
    DEF TypeOK, Shape, EntryThere, Labels, Entries, Ips, Entry, Claiming, rootVars
<1>1. ASSUME NEW c \in Clients, Begin(c) PROVE Shape'
  BY <1>1 DEF Begin, Goto
<1>2. ASSUME NEW c \in Clients, Leaves(c) PROVE Shape'
  BY <1>2 DEF Leaves, Exit, Unlock, Goto
<1>3. ASSUME NEW c \in Clients, Proceeds(c) PROVE Shape'
  BY <1>3 DEF Proceeds, Goto
<1>4. ASSUME NEW c \in Clients, CreateScans(c) PROVE Shape'
  BY <1>4 DEF CreateScans, Locks, LockFree, Acquire, Scan, Free, Pool, Used, Goto
<1>5. ASSUME NEW c \in Clients, CreateRetains(c) PROVE Shape'
  BY <1>5 DEF CreateRetains, Locks, LockFree, Acquire, Retain, Goto
<1>6. ASSUME NEW c \in Clients, GetRetains(c) PROVE Shape'
  BY <1>6 DEF GetRetains, Locks, LockFree, Acquire, Retain, Goto
<1>7. ASSUME NEW c \in Clients, OwnLock(c) PROVE Shape'
  BY <1>7 DEF OwnLock, LockFree, Acquire, Retain, Goto
<1>8. ASSUME NEW c \in Clients, Advances(c) PROVE Shape'
  BY <1>8 DEF Advances, After, Scan, Free, Pool, Used, Unmarked, Mine, RootOwner,
     Goto
<1>9. ASSUME NEW c \in Clients, Peeks(c) PROVE Shape'
  BY <1>9 DEF Peeks, Unmarked, Goto
<1>10. ASSUME NEW c \in Clients, Make(c) PROVE Shape'
  BY <1>10 DEF Make, Goto
<1>11. ASSUME NEW c \in Clients, Creates(c) PROVE Shape'
  BY <1>11 DEF Creates, Goto
<1>12. ASSUME NEW c \in Clients, Confirms(c) PROVE Shape'
  BY <1>12 DEF Confirms, Mine, RootOwner, Held, Unlock, Goto
<1>13. ASSUME NEW c \in Clients, WriteOwner(c) PROVE Shape'
  BY <1>13 DEF WriteOwner, RootOwner, Held, Unlock, Goto
<1>14. ASSUME NEW c \in Clients, SaveExits(c) PROVE Shape'
  BY <1>14 DEF SaveExits, SaveEntry, Exit, Unlock, Goto
<1>15. ASSUME NEW c \in Clients, SaveGets(c) PROVE Shape'
  BY <1>15 DEF SaveGets, SaveEntry, Unlock, Goto
<1>16. ASSUME NEW c \in Clients, SaveRuns(c) PROVE Shape'
  BY <1>16 DEF SaveRuns, SaveEntry, Unlock, Goto
<1>17. ASSUME NEW i \in Ips, RemoveRoot(i) PROVE Shape'
  BY <1>17 DEF RemoveRoot, clientVars
<1>18. CASE UNCHANGED vars
  BY <1>18 DEF vars, rootVars, clientVars
<1> QED
  BY <1>1, <1>2, <1>3, <1>4, <1>5, <1>6, <1>7, <1>8, <1>9, <1>10, <1>11, <1>12,
     <1>13, <1>14, <1>15, <1>16, <1>17, <1>18, Cases DEF Next, Case

\* A lock that is held is neither taken nor given back by another process.
LEMMA LockNext ==
  ASSUME TypeOK, Shape, LockHeld, EntryThere, [Next]_vars
  PROVE  LockHeld'
<1> USE IpAssumption, ValueAssumption
    DEF TypeOK, Shape, LockHeld, EntryThere, Labels, Entry, Claiming, rootVars
<1>1. ASSUME NEW c \in Clients, Begin(c) PROVE LockHeld'
  BY <1>1 DEF Begin, Goto
<1>2. ASSUME NEW c \in Clients, Leaves(c) PROVE LockHeld'
  BY <1>2 DEF Leaves, Exit, Unlock, Goto
<1>3. ASSUME NEW c \in Clients, Proceeds(c) PROVE LockHeld'
  BY <1>3 DEF Proceeds, Goto
<1>4. ASSUME NEW c \in Clients, CreateScans(c) PROVE LockHeld'
  BY <1>4 DEF CreateScans, Locks, LockFree, Acquire, Scan, Free, Pool, Used, Goto
<1>5. ASSUME NEW c \in Clients, CreateRetains(c) PROVE LockHeld'
  BY <1>5 DEF CreateRetains, Locks, LockFree, Acquire, Retain, Goto
<1>6. ASSUME NEW c \in Clients, GetRetains(c) PROVE LockHeld'
  BY <1>6 DEF GetRetains, Locks, LockFree, Acquire, Retain, Goto
<1>7. ASSUME NEW c \in Clients, OwnLock(c) PROVE LockHeld'
  BY <1>7 DEF OwnLock, LockFree, Acquire, Retain, Goto
<1>8. ASSUME NEW c \in Clients, Advances(c) PROVE LockHeld'
  BY <1>8 DEF Advances, After, Scan, Free, Pool, Used, Unmarked, Mine, RootOwner,
     Goto
<1>9. ASSUME NEW c \in Clients, Peeks(c) PROVE LockHeld'
  BY <1>9 DEF Peeks, Unmarked, Goto
<1>10. ASSUME NEW c \in Clients, Make(c) PROVE LockHeld'
  BY <1>10 DEF Make, Goto
<1>11. ASSUME NEW c \in Clients, Creates(c) PROVE LockHeld'
  BY <1>11 DEF Creates, Goto
<1>12. ASSUME NEW c \in Clients, Confirms(c) PROVE LockHeld'
  BY <1>12 DEF Confirms, Mine, RootOwner, Held, Unlock, Goto
<1>13. ASSUME NEW c \in Clients, WriteOwner(c) PROVE LockHeld'
  BY <1>13 DEF WriteOwner, RootOwner, Held, Unlock, Goto
<1>14. ASSUME NEW c \in Clients, SaveExits(c) PROVE LockHeld'
  BY <1>14 DEF SaveExits, SaveEntry, Exit, Unlock, Goto
<1>15. ASSUME NEW c \in Clients, SaveGets(c) PROVE LockHeld'
  BY <1>15 DEF SaveGets, SaveEntry, Unlock, Goto
<1>16. ASSUME NEW c \in Clients, SaveRuns(c) PROVE LockHeld'
  BY <1>16 DEF SaveRuns, SaveEntry, Unlock, Goto
<1>17. ASSUME NEW i \in Ips, RemoveRoot(i) PROVE LockHeld'
  BY <1>17 DEF RemoveRoot, clientVars
<1>18. CASE UNCHANGED vars
  BY <1>18 DEF vars, rootVars, clientVars
<1> QED
  BY <1>1, <1>2, <1>3, <1>4, <1>5, <1>6, <1>7, <1>8, <1>9, <1>10, <1>11, <1>12,
     <1>13, <1>14, <1>15, <1>16, <1>17, <1>18, Cases DEF Next, Case

\* Nobody writes a registry whose lock a process holds.
LEMMA WorldsNext ==
  ASSUME TypeOK, Shape, LockHeld, WorldsCurrent, EntryThere, [Next]_vars
  PROVE  WorldsCurrent'
<1> USE IpAssumption, ValueAssumption
    DEF TypeOK, Shape, LockHeld, WorldsCurrent, EntryThere, Labels, Entry, Claiming,
        rootVars
<1>1. ASSUME NEW c \in Clients, Begin(c) PROVE WorldsCurrent'
  BY <1>1 DEF Begin, Goto
<1>2. ASSUME NEW c \in Clients, Leaves(c) PROVE WorldsCurrent'
  BY <1>2 DEF Leaves, Exit, Unlock, Goto
<1>3. ASSUME NEW c \in Clients, Proceeds(c) PROVE WorldsCurrent'
  BY <1>3 DEF Proceeds, Goto
<1>4. ASSUME NEW c \in Clients, CreateScans(c) PROVE WorldsCurrent'
  BY <1>4 DEF CreateScans, Locks, LockFree, Acquire, Scan, Free, Pool, Used, Goto
<1>5. ASSUME NEW c \in Clients, CreateRetains(c) PROVE WorldsCurrent'
  BY <1>5 DEF CreateRetains, Locks, LockFree, Acquire, Retain, Goto
<1>6. ASSUME NEW c \in Clients, GetRetains(c) PROVE WorldsCurrent'
  BY <1>6 DEF GetRetains, Locks, LockFree, Acquire, Retain, Goto
<1>7. ASSUME NEW c \in Clients, OwnLock(c) PROVE WorldsCurrent'
  BY <1>7 DEF OwnLock, LockFree, Acquire, Retain, Goto
<1>8. ASSUME NEW c \in Clients, Advances(c) PROVE WorldsCurrent'
  BY <1>8 DEF Advances, After, Scan, Free, Pool, Used, Unmarked, Mine, RootOwner,
     Goto
<1>9. ASSUME NEW c \in Clients, Peeks(c) PROVE WorldsCurrent'
  BY <1>9 DEF Peeks, Unmarked, Goto
<1>10. ASSUME NEW c \in Clients, Make(c) PROVE WorldsCurrent'
  BY <1>10 DEF Make, Goto
<1>11. ASSUME NEW c \in Clients, Creates(c) PROVE WorldsCurrent'
  BY <1>11 DEF Creates, Goto
<1>12. ASSUME NEW c \in Clients, Confirms(c) PROVE WorldsCurrent'
  BY <1>12 DEF Confirms, Mine, RootOwner, Held, Unlock, Goto
<1>13. ASSUME NEW c \in Clients, WriteOwner(c) PROVE WorldsCurrent'
  BY <1>13 DEF WriteOwner, RootOwner, Held, Unlock, Goto
<1>14. ASSUME NEW c \in Clients, SaveExits(c) PROVE WorldsCurrent'
  BY <1>14 DEF SaveExits, SaveEntry, Exit, Unlock, Goto
<1>15. ASSUME NEW c \in Clients, SaveGets(c) PROVE WorldsCurrent'
  BY <1>15 DEF SaveGets, SaveEntry, Unlock, Goto
<1>16. ASSUME NEW c \in Clients, SaveRuns(c) PROVE WorldsCurrent'
  BY <1>16 DEF SaveRuns, SaveEntry, Unlock, Goto
<1>17. ASSUME NEW i \in Ips, RemoveRoot(i) PROVE WorldsCurrent'
  BY <1>17 DEF RemoveRoot, clientVars
<1>18. CASE UNCHANGED vars
  <2>1. UNCHANGED <<reg, marker, pc, at, id, task, worlds, cand>>
    BY <1>18, Zenon DEF vars, rootVars, clientVars
  <2> HIDE DEF TypeOK, Shape, EntryThere, LockHeld
  <2> QED
    BY <2>1 DEF WorldsCurrent
<1> QED
  BY <1>1, <1>2, <1>3, <1>4, <1>5, <1>6, <1>7, <1>8, <1>9, <1>10, <1>11, <1>12,
     <1>13, <1>14, <1>15, <1>16, <1>17, <1>18, Cases DEF Next, Case

\* Entries stay, and stay rooted.
LEMMA EntryNext ==
  ASSUME TypeOK, Shape, LockHeld, WorldsCurrent, EntryThere, [Next]_vars
  PROVE  EntryThere'
<1> USE IpAssumption, ValueAssumption
    DEF TypeOK, Shape, LockHeld, WorldsCurrent, EntryThere, Labels, Entries,
        Workspaces, Entry, Claiming, rootVars
<1>1. ASSUME NEW c \in Clients, Begin(c) PROVE EntryThere'
  BY <1>1 DEF Begin, Goto
<1>2. ASSUME NEW c \in Clients, Leaves(c) PROVE EntryThere'
  BY <1>2 DEF Leaves, Exit, Unlock, Goto
<1>3. ASSUME NEW c \in Clients, Proceeds(c) PROVE EntryThere'
  BY <1>3 DEF Proceeds, Goto
<1>4. ASSUME NEW c \in Clients, CreateScans(c) PROVE EntryThere'
  BY <1>4 DEF CreateScans, Locks, LockFree, Acquire, Scan, Free, Pool, Used, Goto
<1>5. ASSUME NEW c \in Clients, CreateRetains(c) PROVE EntryThere'
  BY <1>5 DEF CreateRetains, Locks, LockFree, Acquire, Retain, Goto
<1>6. ASSUME NEW c \in Clients, GetRetains(c) PROVE EntryThere'
  BY <1>6 DEF GetRetains, Locks, LockFree, Acquire, Retain, Goto
<1>7. ASSUME NEW c \in Clients, OwnLock(c) PROVE EntryThere'
  BY <1>7 DEF OwnLock, LockFree, Acquire, Retain, Goto
<1>8. ASSUME NEW c \in Clients, Advances(c) PROVE EntryThere'
  BY <1>8 DEF Advances, After, Scan, Free, Pool, Used, Unmarked, Mine, RootOwner,
     Goto
<1>9. ASSUME NEW c \in Clients, Peeks(c) PROVE EntryThere'
  BY <1>9 DEF Peeks, Unmarked, Goto
<1>10. ASSUME NEW c \in Clients, Make(c) PROVE EntryThere'
  BY <1>10 DEF Make, Goto
<1>11. ASSUME NEW c \in Clients, Creates(c) PROVE EntryThere'
  BY <1>11 DEF Creates, Goto
<1>12. ASSUME NEW c \in Clients, Confirms(c) PROVE EntryThere'
  BY <1>12 DEF Confirms, Mine, RootOwner, Held, Unlock, Goto
<1>13. ASSUME NEW c \in Clients, WriteOwner(c) PROVE EntryThere'
  BY <1>13 DEF WriteOwner, RootOwner, Held, Unlock, Goto
<1>14. ASSUME NEW c \in Clients, SaveExits(c) PROVE EntryThere'
  BY <1>14 DEF SaveExits, SaveEntry, Exit, Unlock, Goto
<1>15. ASSUME NEW c \in Clients, SaveGets(c) PROVE EntryThere'
  BY <1>15 DEF SaveGets, SaveEntry, Unlock, Goto
<1>16. ASSUME NEW c \in Clients, SaveRuns(c) PROVE EntryThere'
  BY <1>16 DEF SaveRuns, SaveEntry, Unlock, Goto
<1>17. ASSUME NEW i \in Ips, RemoveRoot(i) PROVE EntryThere'
  BY <1>17 DEF RemoveRoot, clientVars
<1>18. CASE UNCHANGED vars
  BY <1>18 DEF vars, rootVars, clientVars
<1> QED
  BY <1>1, <1>2, <1>3, <1>4, <1>5, <1>6, <1>7, <1>8, <1>9, <1>10, <1>11, <1>12,
     <1>13, <1>14, <1>15, <1>16, <1>17, <1>18, Cases, Zenon DEF Next, Case

\* allocate skips the addresses of the registry.
LEMMA FreeNext ==
  ASSUME TypeOK, Shape, LockHeld, WorldsCurrent, EntryThere, CandFree,
         AddressesDiffer, [Next]_vars
  PROVE  CandFree'
<1> USE IpAssumption, ValueAssumption
    DEF TypeOK, Shape, LockHeld, WorldsCurrent, EntryThere, CandFree,
        AddressesDiffer, Labels, Entries, Distinct, Entry, Claiming, rootVars
<1>1. ASSUME NEW c \in Clients, Begin(c) PROVE CandFree'
  BY <1>1 DEF Begin, Goto
<1>2. ASSUME NEW c \in Clients, Leaves(c) PROVE CandFree'
  BY <1>2 DEF Leaves, Exit, Unlock, Goto
<1>3. ASSUME NEW c \in Clients, Proceeds(c) PROVE CandFree'
  BY <1>3 DEF Proceeds, Goto
<1>4. ASSUME NEW c \in Clients, CreateScans(c) PROVE CandFree'
  BY <1>4 DEF CreateScans, Locks, LockFree, Acquire, Scan, Free, Pool, Used, Goto
<1>5. ASSUME NEW c \in Clients, CreateRetains(c) PROVE CandFree'
  BY <1>5 DEF CreateRetains, Locks, LockFree, Acquire, Retain, Goto
<1>6. ASSUME NEW c \in Clients, GetRetains(c) PROVE CandFree'
  BY <1>6 DEF GetRetains, Locks, LockFree, Acquire, Retain, Goto
<1>7. ASSUME NEW c \in Clients, OwnLock(c) PROVE CandFree'
  BY <1>7 DEF OwnLock, LockFree, Acquire, Retain, Goto
<1>8. ASSUME NEW c \in Clients, Advances(c) PROVE CandFree'
  BY <1>8 DEF Advances, After, Scan, Free, Pool, Used, Unmarked, Mine, RootOwner,
     Goto
<1>9. ASSUME NEW c \in Clients, Peeks(c) PROVE CandFree'
  BY <1>9 DEF Peeks, Unmarked, Goto
<1>10. ASSUME NEW c \in Clients, Make(c) PROVE CandFree'
  BY <1>10 DEF Make, Goto
<1>11. ASSUME NEW c \in Clients, Creates(c) PROVE CandFree'
  BY <1>11 DEF Creates, Goto
<1>12. ASSUME NEW c \in Clients, Confirms(c) PROVE CandFree'
  BY <1>12 DEF Confirms, Mine, RootOwner, Held, Unlock, Goto
<1>13. ASSUME NEW c \in Clients, WriteOwner(c) PROVE CandFree'
  BY <1>13 DEF WriteOwner, RootOwner, Held, Unlock, Goto
<1>14. ASSUME NEW c \in Clients, SaveExits(c) PROVE CandFree'
  BY <1>14 DEF SaveExits, SaveEntry, Exit, Unlock, Goto
<1>15. ASSUME NEW c \in Clients, SaveGets(c) PROVE CandFree'
  BY <1>15 DEF SaveGets, SaveEntry, Unlock, Goto
<1>16. ASSUME NEW c \in Clients, SaveRuns(c) PROVE CandFree'
  BY <1>16 DEF SaveRuns, SaveEntry, Unlock, Goto
<1>17. ASSUME NEW i \in Ips, RemoveRoot(i) PROVE CandFree'
  BY <1>17 DEF RemoveRoot, clientVars
<1>18. CASE UNCHANGED vars
  BY <1>18 DEF vars, rootVars, clientVars
<1> QED
  BY <1>1, <1>2, <1>3, <1>4, <1>5, <1>6, <1>7, <1>8, <1>9, <1>10, <1>11, <1>12,
     <1>13, <1>14, <1>15, <1>16, <1>17, <1>18, Cases DEF Next, Case

\* fill_temp_root and owned_temp_root begin with the recorded address.
LEMMA RecordedNext ==
  ASSUME TypeOK, Shape, LockHeld, WorldsCurrent, EntryThere, CandRecorded,
         [Next]_vars
  PROVE  CandRecorded'
<1> USE IpAssumption, ValueAssumption
    DEF TypeOK, Shape, LockHeld, WorldsCurrent, EntryThere, CandRecorded, Labels,
        Entries, Workspaces, Entry, Claiming, rootVars
<1>1. ASSUME NEW c \in Clients, Begin(c) PROVE CandRecorded'
  BY <1>1 DEF Begin, Goto
<1>2. ASSUME NEW c \in Clients, Leaves(c) PROVE CandRecorded'
  BY <1>2 DEF Leaves, Exit, Unlock, Goto
<1>3. ASSUME NEW c \in Clients, Proceeds(c) PROVE CandRecorded'
  BY <1>3 DEF Proceeds, Goto
<1>4. ASSUME NEW c \in Clients, CreateScans(c) PROVE CandRecorded'
  BY <1>4 DEF CreateScans, Locks, LockFree, Acquire, Scan, Free, Pool, Used, Goto
<1>5. ASSUME NEW c \in Clients, CreateRetains(c) PROVE CandRecorded'
  BY <1>5 DEF CreateRetains, Locks, LockFree, Acquire, Retain, Goto
<1>6. ASSUME NEW c \in Clients, GetRetains(c) PROVE CandRecorded'
  BY <1>6 DEF GetRetains, Locks, LockFree, Acquire, Retain, Goto
<1>7. ASSUME NEW c \in Clients, OwnLock(c) PROVE CandRecorded'
  BY <1>7 DEF OwnLock, LockFree, Acquire, Retain, Goto
<1>8. ASSUME NEW c \in Clients, Advances(c) PROVE CandRecorded'
  BY <1>8 DEF Advances, After, Scan, Free, Pool, Used, Unmarked, Mine, RootOwner,
     Goto
<1>9. ASSUME NEW c \in Clients, Peeks(c) PROVE CandRecorded'
  BY <1>9 DEF Peeks, Unmarked, Goto
<1>10. ASSUME NEW c \in Clients, Make(c) PROVE CandRecorded'
  BY <1>10 DEF Make, Goto
<1>11. ASSUME NEW c \in Clients, Creates(c) PROVE CandRecorded'
  BY <1>11 DEF Creates, Goto
<1>12. ASSUME NEW c \in Clients, Confirms(c) PROVE CandRecorded'
  BY <1>12 DEF Confirms, Mine, RootOwner, Held, Unlock, Goto
<1>13. ASSUME NEW c \in Clients, WriteOwner(c) PROVE CandRecorded'
  BY <1>13 DEF WriteOwner, RootOwner, Held, Unlock, Goto
<1>14. ASSUME NEW c \in Clients, SaveExits(c) PROVE CandRecorded'
  BY <1>14 DEF SaveExits, SaveEntry, Exit, Unlock, Goto
<1>15. ASSUME NEW c \in Clients, SaveGets(c) PROVE CandRecorded'
  BY <1>15 DEF SaveGets, SaveEntry, Unlock, Goto
<1>16. ASSUME NEW c \in Clients, SaveRuns(c) PROVE CandRecorded'
  BY <1>16 DEF SaveRuns, SaveEntry, Unlock, Goto
<1>17. ASSUME NEW i \in Ips, RemoveRoot(i) PROVE CandRecorded'
  BY <1>17 DEF RemoveRoot, clientVars
<1>18. CASE UNCHANGED vars
  BY <1>18 DEF vars, rootVars, clientVars
<1> QED
  BY <1>1, <1>2, <1>3, <1>4, <1>5, <1>6, <1>7, <1>8, <1>9, <1>10, <1>11, <1>12,
     <1>13, <1>14, <1>15, <1>16, <1>17, <1>18, Cases DEF Next, Case

\* A saved address is new to its registry.
LEMMA DifferNext ==
  ASSUME TypeOK, Shape, LockHeld, WorldsCurrent, CandFree, AddressesDiffer,
         EntryThere, [Next]_vars
  PROVE  AddressesDiffer'
<1> USE IpAssumption, ValueAssumption
    DEF TypeOK, Shape, LockHeld, WorldsCurrent, CandFree, AddressesDiffer,
        EntryThere, Labels, Entries, Distinct, Entry, Claiming, rootVars
<1>1. ASSUME NEW c \in Clients, Begin(c) PROVE AddressesDiffer'
  BY <1>1 DEF Begin, Goto
<1>2. ASSUME NEW c \in Clients, Leaves(c) PROVE AddressesDiffer'
  BY <1>2 DEF Leaves, Exit, Unlock, Goto
<1>3. ASSUME NEW c \in Clients, Proceeds(c) PROVE AddressesDiffer'
  BY <1>3 DEF Proceeds, Goto
<1>4. ASSUME NEW c \in Clients, CreateScans(c) PROVE AddressesDiffer'
  BY <1>4 DEF CreateScans, Locks, LockFree, Acquire, Scan, Free, Pool, Used, Goto
<1>5. ASSUME NEW c \in Clients, CreateRetains(c) PROVE AddressesDiffer'
  BY <1>5 DEF CreateRetains, Locks, LockFree, Acquire, Retain, Goto
<1>6. ASSUME NEW c \in Clients, GetRetains(c) PROVE AddressesDiffer'
  BY <1>6 DEF GetRetains, Locks, LockFree, Acquire, Retain, Goto
<1>7. ASSUME NEW c \in Clients, OwnLock(c) PROVE AddressesDiffer'
  BY <1>7 DEF OwnLock, LockFree, Acquire, Retain, Goto
<1>8. ASSUME NEW c \in Clients, Advances(c) PROVE AddressesDiffer'
  BY <1>8 DEF Advances, After, Scan, Free, Pool, Used, Unmarked, Mine, RootOwner,
     Goto
<1>9. ASSUME NEW c \in Clients, Peeks(c) PROVE AddressesDiffer'
  BY <1>9 DEF Peeks, Unmarked, Goto
<1>10. ASSUME NEW c \in Clients, Make(c) PROVE AddressesDiffer'
  BY <1>10 DEF Make, Goto
<1>11. ASSUME NEW c \in Clients, Creates(c) PROVE AddressesDiffer'
  BY <1>11 DEF Creates, Goto
<1>12. ASSUME NEW c \in Clients, Confirms(c) PROVE AddressesDiffer'
  BY <1>12 DEF Confirms, Mine, RootOwner, Held, Unlock, Goto
<1>13. ASSUME NEW c \in Clients, WriteOwner(c) PROVE AddressesDiffer'
  BY <1>13 DEF WriteOwner, RootOwner, Held, Unlock, Goto
<1>14. ASSUME NEW c \in Clients, SaveExits(c) PROVE AddressesDiffer'
  BY <1>14 DEF SaveExits, SaveEntry, Exit, Unlock, Goto
<1>15. ASSUME NEW c \in Clients, SaveGets(c) PROVE AddressesDiffer'
  BY <1>15 DEF SaveGets, SaveEntry, Unlock, Goto
<1>16. ASSUME NEW c \in Clients, SaveRuns(c) PROVE AddressesDiffer'
  BY <1>16 DEF SaveRuns, SaveEntry, Unlock, Goto
<1>17. ASSUME NEW i \in Ips, RemoveRoot(i) PROVE AddressesDiffer'
  BY <1>17 DEF RemoveRoot, clientVars
<1>18. CASE UNCHANGED vars
  BY <1>18 DEF vars, rootVars, clientVars
<1> QED
  BY <1>1, <1>2, <1>3, <1>4, <1>5, <1>6, <1>7, <1>8, <1>9, <1>10, <1>11, <1>12,
     <1>13, <1>14, <1>15, <1>16, <1>17, <1>18, Cases DEF Next, Case

\* create_new has one winner.
LEMMA WriterNext ==
  ASSUME TypeOK, Shape, WriterAlone, EntryThere, [Next]_vars
  PROVE  WriterAlone'
<1> USE IpAssumption, ValueAssumption
    DEF TypeOK, Shape, WriterAlone, EntryThere, Labels, Ips, Entry, Claiming,
        rootVars
<1>1. ASSUME NEW c \in Clients, Begin(c) PROVE WriterAlone'
  BY <1>1 DEF Begin, Goto
<1>2. ASSUME NEW c \in Clients, Leaves(c) PROVE WriterAlone'
  BY <1>2 DEF Leaves, Exit, Unlock, Goto
<1>3. ASSUME NEW c \in Clients, Proceeds(c) PROVE WriterAlone'
  BY <1>3 DEF Proceeds, Goto
<1>4. ASSUME NEW c \in Clients, CreateScans(c) PROVE WriterAlone'
  BY <1>4 DEF CreateScans, Locks, LockFree, Acquire, Scan, Free, Pool, Used, Goto
<1>5. ASSUME NEW c \in Clients, CreateRetains(c) PROVE WriterAlone'
  BY <1>5 DEF CreateRetains, Locks, LockFree, Acquire, Retain, Goto
<1>6. ASSUME NEW c \in Clients, GetRetains(c) PROVE WriterAlone'
  BY <1>6 DEF GetRetains, Locks, LockFree, Acquire, Retain, Goto
<1>7. ASSUME NEW c \in Clients, OwnLock(c) PROVE WriterAlone'
  BY <1>7 DEF OwnLock, LockFree, Acquire, Retain, Goto
<1>8. ASSUME NEW c \in Clients, Advances(c) PROVE WriterAlone'
  BY <1>8 DEF Advances, After, Scan, Free, Pool, Used, Unmarked, Mine, RootOwner,
     Goto
<1>9. ASSUME NEW c \in Clients, Peeks(c) PROVE WriterAlone'
  BY <1>9 DEF Peeks, Unmarked, Goto
<1>10. ASSUME NEW c \in Clients, Make(c) PROVE WriterAlone'
  BY <1>10 DEF Make, Goto
<1>11. ASSUME NEW c \in Clients, Creates(c) PROVE WriterAlone'
  BY <1>11 DEF Creates, Goto
<1>12. ASSUME NEW c \in Clients, Confirms(c) PROVE WriterAlone'
  BY <1>12 DEF Confirms, Mine, RootOwner, Held, Unlock, Goto
<1>13. ASSUME NEW c \in Clients, WriteOwner(c) PROVE WriterAlone'
  BY <1>13 DEF WriteOwner, RootOwner, Held, Unlock, Goto
<1>14. ASSUME NEW c \in Clients, SaveExits(c) PROVE WriterAlone'
  BY <1>14 DEF SaveExits, SaveEntry, Exit, Unlock, Goto
<1>15. ASSUME NEW c \in Clients, SaveGets(c) PROVE WriterAlone'
  BY <1>15 DEF SaveGets, SaveEntry, Unlock, Goto
<1>16. ASSUME NEW c \in Clients, SaveRuns(c) PROVE WriterAlone'
  BY <1>16 DEF SaveRuns, SaveEntry, Unlock, Goto
<1>17. ASSUME NEW i \in Ips, RemoveRoot(i) PROVE WriterAlone'
  BY <1>17 DEF RemoveRoot, clientVars
<1>18. CASE UNCHANGED vars
  BY <1>18 DEF vars, rootVars, clientVars
<1> QED
  BY <1>1, <1>2, <1>3, <1>4, <1>5, <1>6, <1>7, <1>8, <1>9, <1>10, <1>11, <1>12,
     <1>13, <1>14, <1>15, <1>16, <1>17, <1>18, Cases DEF Next, Case

\* A written marker stays as long as its root is used.
LEMMA MarkedNext ==
  ASSUME TypeOK, Shape, WriterAlone, Marked, EntryThere, [Next]_vars
  PROVE  Marked'
<1> USE IpAssumption, ValueAssumption
    DEF TypeOK, Shape, WriterAlone, Marked, EntryThere, Labels, Ips, Entry,
        Claiming, rootVars
<1>1. ASSUME NEW c \in Clients, Begin(c) PROVE Marked'
  BY <1>1 DEF Begin, Goto
<1>2. ASSUME NEW c \in Clients, Leaves(c) PROVE Marked'
  BY <1>2 DEF Leaves, Exit, Unlock, Goto
<1>3. ASSUME NEW c \in Clients, Proceeds(c) PROVE Marked'
  BY <1>3 DEF Proceeds, Goto
<1>4. ASSUME NEW c \in Clients, CreateScans(c) PROVE Marked'
  BY <1>4 DEF CreateScans, Locks, LockFree, Acquire, Scan, Free, Pool, Used, Goto
<1>5. ASSUME NEW c \in Clients, CreateRetains(c) PROVE Marked'
  BY <1>5 DEF CreateRetains, Locks, LockFree, Acquire, Retain, Goto
<1>6. ASSUME NEW c \in Clients, GetRetains(c) PROVE Marked'
  BY <1>6 DEF GetRetains, Locks, LockFree, Acquire, Retain, Goto
<1>7. ASSUME NEW c \in Clients, OwnLock(c) PROVE Marked'
  BY <1>7 DEF OwnLock, LockFree, Acquire, Retain, Goto
<1>8. ASSUME NEW c \in Clients, Advances(c) PROVE Marked'
  BY <1>8 DEF Advances, After, Scan, Free, Pool, Used, Unmarked, Mine, RootOwner,
     Goto
<1>9. ASSUME NEW c \in Clients, Peeks(c) PROVE Marked'
  BY <1>9 DEF Peeks, Unmarked, Goto
<1>10. ASSUME NEW c \in Clients, Make(c) PROVE Marked'
  BY <1>10 DEF Make, Goto
<1>11. ASSUME NEW c \in Clients, Creates(c) PROVE Marked'
  <2> SUFFICES ASSUME NEW d \in Clients, pc'[d] \in {"save", "run"}
               PROVE  marker'[cand'[d]] = <<at'[d], id'[d]>>
    OBVIOUS
  <2>1. d # c /\ pc[d] \in {"save", "run"} /\ cand'[d] = cand[d]
    BY <1>11 DEF Creates, Goto
  <2>2. at[d] \in States /\ id[d] \in Ids /\ marker[cand[d]] = <<at[d], id[d]>>
    BY <2>1
  <2>3. <<at[d], id[d]>> # None
    BY <2>2, OwnerValues
  <2>4. cand[d] # cand[c]
    BY <1>11, <2>2, <2>3 DEF Creates
  <2> QED
    BY <1>11, <2>1, <2>2, <2>4 DEF Creates
<1>12. ASSUME NEW c \in Clients, Confirms(c) PROVE Marked'
  BY <1>12 DEF Confirms, Mine, RootOwner, Held, Unlock, Goto
<1>13. ASSUME NEW c \in Clients, WriteOwner(c) PROVE Marked'
  <2> SUFFICES ASSUME NEW d \in Clients, pc'[d] \in {"save", "run"}
               PROVE  marker'[cand'[d]] = <<at'[d], id'[d]>>
    OBVIOUS
  <2>1. CASE d = c
    BY <1>13, <2>1 DEF WriteOwner, RootOwner, Held
  <2>2. CASE d # c
    <3>1. pc[d] \in {"save", "run"} /\ cand'[d] = cand[d]
      BY <1>13, <2>2 DEF WriteOwner, Held, Goto
    <3>2. at[d] \in States /\ id[d] \in Ids /\ marker[cand[d]] = <<at[d], id[d]>>
      BY <3>1
    <3>3. <<at[d], id[d]>> # Blank
      BY <3>2, OwnerValues
    <3>4. cand[d] # cand[c]
      BY <1>13, <3>2, <3>3 DEF WriteOwner
    <3> QED
      BY <1>13, <3>1, <3>2, <3>4 DEF WriteOwner, Held
  <2> QED
    BY <2>1, <2>2
<1>14. ASSUME NEW c \in Clients, SaveExits(c) PROVE Marked'
  BY <1>14 DEF SaveExits, SaveEntry, Exit, Unlock, Goto
<1>15. ASSUME NEW c \in Clients, SaveGets(c) PROVE Marked'
  BY <1>15 DEF SaveGets, SaveEntry, Unlock, Goto
<1>16. ASSUME NEW c \in Clients, SaveRuns(c) PROVE Marked'
  BY <1>16 DEF SaveRuns, SaveEntry, Unlock, Goto
<1>17. ASSUME NEW i \in Ips, RemoveRoot(i) PROVE Marked'
  BY <1>17 DEF RemoveRoot, clientVars
<1>18. CASE UNCHANGED vars
  <2>1. UNCHANGED <<reg, marker, pc, at, id, task, worlds, cand>>
    BY <1>18, Zenon DEF vars, rootVars, clientVars
  <2> HIDE DEF TypeOK, Shape, EntryThere, WriterAlone
  <2> QED
    BY <2>1 DEF Marked
<1> QED
  BY <1>1, <1>2, <1>3, <1>4, <1>5, <1>6, <1>7, <1>8, <1>9, <1>10, <1>11, <1>12,
     <1>13, <1>14, <1>15, <1>16, <1>17, <1>18, Cases DEF Next, Case

\* The root that was found taken does not become the workspace's again meanwhile.
LEMMA MovingNext ==
  ASSUME TypeOK, Shape, LockHeld, WorldsCurrent, EntryThere, CandRecorded, Moving,
         [Next]_vars
  PROVE  Moving'
<1>1. ASSUME NEW c \in Clients, Begin(c) PROVE Moving'
  <2> SUFFICES ASSUME NEW d \in Clients, pc'[d] \in Claiming, task'[d] = "own",
                      aim'[d] = "move"
               PROVE  /\ marker'[reg'[at'[d]][id'[d]].ip] # <<at'[d], id'[d]>>
                      /\ cand'[d] # reg'[at'[d]][id'[d]].ip
    BY DEF Moving, Entry
  <2>1. d # c /\ pc[d] \in Claiming
    BY <1>1 DEF Begin, Goto, TypeOK, Claiming
  <2> QED
    BY <1>1, <2>1 DEF Begin, TypeOK, Moving, Entry, rootVars
<1>2. ASSUME NEW c \in Clients, Leaves(c) PROVE Moving'
  BY <1>2 DEF TypeOK, Shape, Moving, Entry, Claiming, rootVars, Leaves, Exit,
     Unlock, Goto
<1>3. ASSUME NEW c \in Clients, Proceeds(c) PROVE Moving'
  BY <1>3 DEF TypeOK, Shape, Moving, Entry, Claiming, rootVars, Proceeds, Goto
<1>4. ASSUME NEW c \in Clients, CreateScans(c) PROVE Moving'
  BY <1>4 DEF TypeOK, Shape, Moving, Entry, Claiming, rootVars, CreateScans, Locks,
     LockFree, Acquire, Scan, Free, Pool, Used, Goto
<1>5. ASSUME NEW c \in Clients, CreateRetains(c) PROVE Moving'
  BY <1>5 DEF TypeOK, Shape, Moving, Entry, Claiming, rootVars, CreateRetains,
     Locks, LockFree, Acquire, Retain, Goto
<1>6. ASSUME NEW c \in Clients, GetRetains(c) PROVE Moving'
  BY <1>6 DEF TypeOK, Shape, Moving, Entry, Claiming, rootVars, GetRetains, Locks,
     LockFree, Acquire, Retain, Goto
<1>7. ASSUME NEW c \in Clients, OwnLock(c) PROVE Moving'
  BY <1>7 DEF TypeOK, Shape, Moving, Entry, Claiming, rootVars, OwnLock, LockFree,
     Acquire, Retain, Goto
<1>8. ASSUME NEW c \in Clients, Advances(c) PROVE Moving'
  <2> SUFFICES ASSUME NEW d \in Clients, pc'[d] \in Claiming, task'[d] = "own",
                      aim'[d] = "move"
               PROVE  /\ marker'[reg'[at'[d]][id'[d]].ip] # <<at'[d], id'[d]>>
                      /\ cand'[d] # reg'[at'[d]][id'[d]].ip
    BY DEF Moving, Entry
  <2>1. UNCHANGED <<reg, marker, at, id, task>> /\ pc[c] \in Claiming
    BY <1>8, Zenon DEF Advances, rootVars, Claiming
  <2>2. CASE d # c
    <3>1. pc[d] \in Claiming /\ task[d] = "own" /\ aim[d] = "move" /\ cand'[d] = cand[d]
      BY <1>8, <2>1, <2>2 DEF Advances, Scan, Goto, TypeOK
    <3>2. marker[Entry(d).ip] # <<at[d], id[d]>> /\ cand[d] # Entry(d).ip
      BY <3>1, Zenon DEF Moving
    <3> QED
      BY <2>1, <3>1, <3>2, Zenon DEF Entry
  <2>3. CASE d = c
    <3>1. /\ at[c] \in States /\ id[c] \in Ids /\ task[c] = "own"
          /\ worlds[c] = reg[at[c]] /\ Entry(c) # None
      BY <2>1, <2>3 DEF WorldsCurrent, EntryThere, Shape, Claiming
    <3>2. cand'[c] # Entry(c).ip
      BY <1>8, <3>1 DEF Advances, Scan, Free, Used, Entry, TypeOK
    <3>3. aim[c] = "keep" => marker[cand[c]] # <<at[c], id[c]>>
      BY <1>8, <3>1 DEF Advances, Mine, RootOwner, Shape
    <3>4. marker[Entry(c).ip] # <<at[c], id[c]>>
      <4>1. CASE aim[c] = "keep"
        BY <2>1, <3>3, <4>1 DEF CandRecorded
      <4>2. CASE aim[c] = "move"
        BY <2>1, <3>1, <4>2, Zenon DEF Moving
      <4> QED
        BY <4>1, <4>2 DEF TypeOK
    <3> QED
      BY <2>1, <2>3, <3>2, <3>4, Zenon DEF Entry
  <2> QED
    BY <2>2, <2>3
<1>9. ASSUME NEW c \in Clients, Peeks(c) PROVE Moving'
  BY <1>9 DEF TypeOK, Shape, Moving, Entry, Claiming, rootVars, Peeks, Unmarked,
     Goto
<1>10. ASSUME NEW c \in Clients, Make(c) PROVE Moving'
  <2> SUFFICES ASSUME NEW d \in Clients, pc'[d] \in Claiming, task'[d] = "own",
                      aim'[d] = "move"
               PROVE  /\ marker'[reg'[at'[d]][id'[d]].ip] # <<at'[d], id'[d]>>
                      /\ cand'[d] # reg'[at'[d]][id'[d]].ip
    BY DEF Moving, Entry
  <2>1. /\ UNCHANGED <<reg, marker, at, id, cand>> /\ task[d] = "own" /\ aim[d] = "move"
        /\ pc[d] \in Claiming
    BY <1>10 DEF Make, Goto, TypeOK, Claiming
  <2>2. marker[Entry(d).ip] # <<at[d], id[d]>> /\ cand[d] # Entry(d).ip
    BY <2>1, Zenon DEF Moving
  <2> QED
    BY <2>1, <2>2, Zenon DEF Entry
<1>11. ASSUME NEW c \in Clients, Creates(c) PROVE Moving'
  <2> SUFFICES ASSUME NEW d \in Clients, pc'[d] \in Claiming, task'[d] = "own",
                      aim'[d] = "move"
               PROVE  /\ marker'[reg'[at'[d]][id'[d]].ip] # <<at'[d], id'[d]>>
                      /\ cand'[d] # reg'[at'[d]][id'[d]].ip
    BY DEF Moving, Entry
  <2>1. pc[d] \in Claiming /\ at[d] \in States /\ id[d] \in Ids
    BY <1>11 DEF Creates, Goto, TypeOK, Shape, Claiming
  <2>2. UNCHANGED <<reg, at, id, cand>> /\ task[d] = "own" /\ aim[d] = "move"
    BY <1>11 DEF Creates
  <2>3. marker[Entry(d).ip] # <<at[d], id[d]>> /\ cand[d] # Entry(d).ip
    BY <2>1, <2>2 DEF Moving
  <2>4. marker'[Entry(d).ip] \in {marker[Entry(d).ip], Blank}
    BY <1>11, <2>1, <2>2 DEF Creates, TypeOK, EntryThere, Entries, Entry
  <2>5. <<at[d], id[d]>> # Blank
    BY <2>1, OwnerValues
  <2>6. marker'[Entry(d).ip] # <<at[d], id[d]>>
    BY <2>3, <2>4, <2>5
  <2> QED
    BY <2>2, <2>3, <2>6, Zenon DEF Entry
<1>12. ASSUME NEW c \in Clients, Confirms(c) PROVE Moving'
  BY <1>12 DEF TypeOK, Shape, Moving, Entry, Claiming, rootVars, Confirms, Mine,
     RootOwner, Held, Unlock, Goto
<1>13. ASSUME NEW c \in Clients, WriteOwner(c) PROVE Moving'
  <2> SUFFICES ASSUME NEW d \in Clients, pc'[d] \in Claiming, task'[d] = "own",
                      aim'[d] = "move"
               PROVE  /\ marker'[reg'[at'[d]][id'[d]].ip] # <<at'[d], id'[d]>>
                      /\ cand'[d] # reg'[at'[d]][id'[d]].ip
    BY DEF Moving, Entry
  <2>1. pc[d] \in Claiming /\ at[d] \in States /\ id[d] \in Ids
    BY <1>13 DEF WriteOwner, Held, Goto, TypeOK, Shape, Claiming
  <2>2. UNCHANGED <<reg, at, id, cand>> /\ task[d] = "own" /\ aim[d] = "move"
    BY <1>13 DEF WriteOwner, Held
  <2>3. marker[Entry(d).ip] # <<at[d], id[d]>> /\ cand[d] # Entry(d).ip
    BY <2>1, <2>2 DEF Moving
  <2>4. marker'[Entry(d).ip] =
           IF cand[c] = Entry(d).ip THEN <<at[c], id[c]>> ELSE marker[Entry(d).ip]
    BY <1>13, <2>1, <2>2 DEF WriteOwner, RootOwner, TypeOK, EntryThere, Entries,
       Entry
  <2>5. cand[c] = Entry(d).ip => <<at[c], id[c]>> # <<at[d], id[d]>>
    <3>1. cand[c] = Entry(d).ip => at[c] # at[d]
      BY <1>13, <2>1, <2>3 DEF WriteOwner, LockHeld, Claiming
    <3> QED
      BY <3>1
  <2>6. marker'[Entry(d).ip] # <<at[d], id[d]>>
    BY <2>3, <2>4, <2>5, Zenon
  <2> QED
    BY <2>2, <2>3, <2>6, Zenon DEF Entry
<1>14. ASSUME NEW c \in Clients, SaveExits(c) PROVE Moving'
  <2> SUFFICES ASSUME NEW d \in Clients, pc'[d] \in Claiming, task'[d] = "own",
                      aim'[d] = "move"
               PROVE  /\ marker'[reg'[at'[d]][id'[d]].ip] # <<at'[d], id'[d]>>
                      /\ cand'[d] # reg'[at'[d]][id'[d]].ip
    BY DEF Moving, Entry
  <2>1. d # c /\ pc[d] \in Claiming
    BY <1>14 DEF SaveExits, Exit, SaveEntry, Goto, TypeOK, Claiming
  <2>2. /\ at'[d] = at[d] /\ id'[d] = id[d] /\ cand'[d] = cand[d]
        /\ task[d] = "own" /\ aim[d] = "move" /\ marker' = marker
    BY <1>14, <2>1 DEF SaveExits, Exit, SaveEntry, TypeOK, rootVars
  <2>3. marker[Entry(d).ip] # <<at[d], id[d]>> /\ cand[d] # Entry(d).ip
    BY <2>1, <2>2 DEF Moving
  <2>4. at[d] # at[c] /\ at[d] \in States
    BY <1>14, <2>1 DEF SaveExits, SaveEntry, LockHeld, Shape, Claiming
  <2>5. reg'[at[d]] = reg[at[d]]
    BY <1>14, <2>4 DEF SaveExits, SaveEntry, TypeOK
  <2> QED
    BY <2>2, <2>3, <2>5, Zenon DEF Entry
<1>15. ASSUME NEW c \in Clients, SaveGets(c) PROVE Moving'
  <2> SUFFICES ASSUME NEW d \in Clients, pc'[d] \in Claiming, task'[d] = "own",
                      aim'[d] = "move"
               PROVE  /\ marker'[reg'[at'[d]][id'[d]].ip] # <<at'[d], id'[d]>>
                      /\ cand'[d] # reg'[at'[d]][id'[d]].ip
    BY DEF Moving, Entry
  <2>1. d # c /\ pc[d] \in Claiming
    BY <1>15 DEF SaveGets, SaveEntry, Goto, TypeOK, Claiming
  <2>2. /\ at'[d] = at[d] /\ id'[d] = id[d] /\ cand'[d] = cand[d]
        /\ task[d] = "own" /\ aim[d] = "move" /\ marker' = marker
    BY <1>15, <2>1 DEF SaveGets, SaveEntry, TypeOK, rootVars
  <2>3. marker[Entry(d).ip] # <<at[d], id[d]>> /\ cand[d] # Entry(d).ip
    BY <2>1, <2>2 DEF Moving
  <2>4. at[d] # at[c] /\ at[d] \in States
    BY <1>15, <2>1 DEF SaveGets, SaveEntry, LockHeld, Shape, Claiming
  <2>5. reg'[at[d]] = reg[at[d]]
    BY <1>15, <2>4 DEF SaveGets, SaveEntry, TypeOK
  <2> QED
    BY <2>2, <2>3, <2>5, Zenon DEF Entry
<1>16. ASSUME NEW c \in Clients, SaveRuns(c) PROVE Moving'
  <2> SUFFICES ASSUME NEW d \in Clients, pc'[d] \in Claiming, task'[d] = "own",
                      aim'[d] = "move"
               PROVE  /\ marker'[reg'[at'[d]][id'[d]].ip] # <<at'[d], id'[d]>>
                      /\ cand'[d] # reg'[at'[d]][id'[d]].ip
    BY DEF Moving, Entry
  <2>1. d # c /\ pc[d] \in Claiming
    BY <1>16 DEF SaveRuns, SaveEntry, Goto, TypeOK, Claiming
  <2>2. /\ at'[d] = at[d] /\ id'[d] = id[d] /\ cand'[d] = cand[d]
        /\ task[d] = "own" /\ aim[d] = "move" /\ marker' = marker
    BY <1>16, <2>1 DEF SaveRuns, SaveEntry, TypeOK, rootVars
  <2>3. marker[Entry(d).ip] # <<at[d], id[d]>> /\ cand[d] # Entry(d).ip
    BY <2>1, <2>2 DEF Moving
  <2>4. at[d] # at[c] /\ at[d] \in States
    BY <1>16, <2>1 DEF SaveRuns, SaveEntry, LockHeld, Shape, Claiming
  <2>5. reg'[at[d]] = reg[at[d]]
    BY <1>16, <2>4 DEF SaveRuns, SaveEntry, TypeOK
  <2> QED
    BY <2>2, <2>3, <2>5, Zenon DEF Entry
<1>17. ASSUME NEW i \in Ips, RemoveRoot(i) PROVE Moving'
  <2> SUFFICES ASSUME NEW d \in Clients, pc[d] \in Claiming, task[d] = "own",
                      aim[d] = "move"
               PROVE  marker'[Entry(d).ip] # <<at[d], id[d]>> /\ cand[d] # Entry(d).ip
    BY <1>17 DEF RemoveRoot, clientVars, Moving, Entry
  <2>1. at[d] \in States /\ id[d] \in Ids
    BY DEF Shape, Claiming
  <2>2. marker'[Entry(d).ip] \in {marker[Entry(d).ip], None}
    BY <1>17, <2>1 DEF RemoveRoot, TypeOK, EntryThere, Entries, Entry
  <2>3. <<at[d], id[d]>> # None
    BY <2>1, OwnerValues
  <2>4. marker[Entry(d).ip] # <<at[d], id[d]>> /\ cand[d] # Entry(d).ip
    BY DEF Moving
  <2> QED
    BY <2>2, <2>3, <2>4
<1>18. CASE UNCHANGED vars
  BY <1>18 DEF Moving, Entry, vars, rootVars, clientVars
<1> QED
  BY <1>1, <1>2, <1>3, <1>4, <1>5, <1>6, <1>7, <1>8, <1>9, <1>10, <1>11, <1>12,
     <1>13, <1>14, <1>15, <1>16, <1>17, <1>18, Cases, Zenon DEF Next, Case

\* A claim of allocate passes by a directory without a marker.
LEMMA LegacyNext ==
  ASSUME TypeOK, Shape, LegacyClaims, EntryThere, [Next]_vars
  PROVE  LegacyClaims'
<1> USE IpAssumption, ValueAssumption
    DEF TypeOK, Shape, LegacyClaims, EntryThere, Labels, Ips, Entry, Claiming,
        rootVars
<1>1. ASSUME NEW c \in Clients, Begin(c) PROVE LegacyClaims'
  BY <1>1 DEF Begin, Goto
<1>2. ASSUME NEW c \in Clients, Leaves(c) PROVE LegacyClaims'
  BY <1>2 DEF Leaves, Exit, Unlock, Goto
<1>3. ASSUME NEW c \in Clients, Proceeds(c) PROVE LegacyClaims'
  BY <1>3 DEF Proceeds, Goto
<1>4. ASSUME NEW c \in Clients, CreateScans(c) PROVE LegacyClaims'
  BY <1>4 DEF CreateScans, Locks, LockFree, Acquire, Scan, Free, Pool, Used, Goto
<1>5. ASSUME NEW c \in Clients, CreateRetains(c) PROVE LegacyClaims'
  BY <1>5 DEF CreateRetains, Locks, LockFree, Acquire, Retain, Goto
<1>6. ASSUME NEW c \in Clients, GetRetains(c) PROVE LegacyClaims'
  BY <1>6 DEF GetRetains, Locks, LockFree, Acquire, Retain, Goto
<1>7. ASSUME NEW c \in Clients, OwnLock(c) PROVE LegacyClaims'
  BY <1>7 DEF OwnLock, LockFree, Acquire, Retain, Goto
<1>8. ASSUME NEW c \in Clients, Advances(c) PROVE LegacyClaims'
  BY <1>8 DEF Advances, After, Scan, Free, Pool, Used, Unmarked, Mine, RootOwner,
     Goto
<1>9. ASSUME NEW c \in Clients, Peeks(c) PROVE LegacyClaims'
  BY <1>9 DEF Peeks, Unmarked, Goto
<1>10. ASSUME NEW c \in Clients, Make(c) PROVE LegacyClaims'
  BY <1>10 DEF Make, Goto
<1>11. ASSUME NEW c \in Clients, Creates(c) PROVE LegacyClaims'
  BY <1>11 DEF Creates, Goto
<1>12. ASSUME NEW c \in Clients, Confirms(c) PROVE LegacyClaims'
  BY <1>12 DEF Confirms, Mine, RootOwner, Held, Unlock, Goto
<1>13. ASSUME NEW c \in Clients, WriteOwner(c) PROVE LegacyClaims'
  BY <1>13, OwnerValues DEF WriteOwner, RootOwner, Held, Unlock, Goto
<1>14. ASSUME NEW c \in Clients, SaveExits(c) PROVE LegacyClaims'
  BY <1>14 DEF SaveExits, SaveEntry, Exit, Unlock, Goto
<1>15. ASSUME NEW c \in Clients, SaveGets(c) PROVE LegacyClaims'
  BY <1>15 DEF SaveGets, SaveEntry, Unlock, Goto
<1>16. ASSUME NEW c \in Clients, SaveRuns(c) PROVE LegacyClaims'
  BY <1>16 DEF SaveRuns, SaveEntry, Unlock, Goto
<1>17. ASSUME NEW i \in Ips, RemoveRoot(i) PROVE LegacyClaims'
  BY <1>17 DEF RemoveRoot, clientVars
<1>18. CASE UNCHANGED vars
  BY <1>18 DEF vars, rootVars, clientVars
<1> QED
  BY <1>1, <1>2, <1>3, <1>4, <1>5, <1>6, <1>7, <1>8, <1>9, <1>10, <1>11, <1>12,
     <1>13, <1>14, <1>15, <1>16, <1>17, <1>18, Cases DEF Next, Case

-----------------------------------------------------------------------------
\* The initial states, in which no process is at work, satisfy the invariant.
LEMMA InvInit == Init => Inv
<1> SUFFICES ASSUME Init
             PROVE  Inv
  OBVIOUS
<1> USE DEF Init
<1>1. TypeOK
  BY IpAssumption DEF TypeOK, Labels, Empty, Ips
<1>2. AddressesDiffer
  BY DEF AddressesDiffer
<1>3. Shape /\ LockHeld /\ WorldsCurrent /\ EntryThere /\ CandFree /\ CandRecorded
  BY DEF Shape, LockHeld, WorldsCurrent, EntryThere, CandFree, CandRecorded,
     Claiming
<1>4. WriterAlone /\ Marked /\ Moving /\ LegacyClaims
  BY DEF WriterAlone, Marked, Moving, LegacyClaims, Claiming
<1> QED
  BY <1>1, <1>2, <1>3, <1>4 DEF Inv

\* Every step keeps it.
LEMMA InvNext == Inv /\ [Next]_vars => Inv'
  BY TypeNext, ShapeNext, LockNext, WorldsNext, EntryNext, FreeNext, RecordedNext,
     DifferNext, WriterNext, MarkedNext, MovingNext, LegacyNext DEF Inv

\* So it always holds.
LEMMA Invariance == Spec => []Inv
  BY InvInit, InvNext, PTL DEF Spec

-----------------------------------------------------------------------------
(* The theorems                                                            *)

\* The variables keep their types; in particular allocate records no address
\* outside the pool, and a directory that is left over is one that exists.
THEOREM TypeCorrect == Spec => []TypeOK
<1>1. Inv => TypeOK
  BY DEF Inv
<1> QED
  BY <1>1, Invariance, PTL

\* However many registries share HOME, two commands that run with the same
\* temp root belong to the same workspace (mark_root's exclusive creation).
THEOREM RootsAreNotShared == Spec => []NoSharedRoot
<1>1. Inv => NoSharedRoot
  <2> SUFFICES ASSUME Inv, NEW c \in Clients, NEW d \in Clients,
                      pc[c] = "run", pc[d] = "run", cand[c] = cand[d]
               PROVE  at[c] = at[d] /\ id[c] = id[d]
    BY DEF NoSharedRoot
  <2>1. <<at[c], id[c]>> = <<at[d], id[d]>>
    BY DEF Inv, Marked
  <2> QED
    BY <2>1
<1> QED
  BY <1>1, Invariance, PTL

\* The registry lock keeps the addresses of one registry apart, although get
\* reads without it and every save rewrites the whole registry.
THEOREM AddressesAreDistinct == Spec => []AddressesDiffer
<1>1. Inv => AddressesDiffer
  BY DEF Inv
<1> QED
  BY <1>1, Invariance, PTL

\* owned_temp_root moves a workspace only away from a directory that is not
\* marked as its own, and nothing takes an entry out of a registry.
THEOREM OwnRootIsKept == Spec => MovesOnlyWhenTaken
<1> DEFINE Kept(s, i) ==
      /\ reg[s][i] # None => reg'[s][i] # None
      /\ reg[s][i] # None /\ reg[s][i].root = "some" /\ reg'[s][i] # reg[s][i]
            => reg'[s][i].root = "some" /\ marker[reg[s][i].ip] # <<s, i>>
<1>1. ASSUME Inv, [Next]_vars, NEW s \in States, NEW i \in Ids
      PROVE  Kept(s, i)
  <2>1. CASE reg' = reg
    BY <2>1
  <2>2. ASSUME NEW c \in Clients, Save(c)
        PROVE  Kept(s, i)
    <3>1. /\ at[c] \in States /\ id[c] \in Ids /\ pc[c] \in Claiming
          /\ worlds[c] \in [Ids -> Entries \cup {None}]
          /\ reg \in [States -> [Ids -> Entries \cup {None}]]
      BY <1>1, <2>2 DEF Inv, Save, Shape, TypeOK, Claiming
    <3>2. CASE s # at[c]
      <4>1. reg'[s] = reg[s]
        BY <2>2, <3>1, <3>2 DEF Save
      <4> QED
        BY <4>1
    <3>3. CASE s = at[c] /\ i # id[c]
      <4>1. reg'[s][i] = worlds[c][i]
        BY <2>2, <3>1, <3>3 DEF Save
      <4>2. worlds[c][i] = reg[s][i]
        BY <1>1, <3>1, <3>3 DEF Inv, WorldsCurrent
      <4> QED
        BY <4>1, <4>2
    <3>4. CASE s = at[c] /\ i = id[c]
      <4>1. reg'[s][i] = [ip |-> cand[c], root |-> "some"]
        BY <2>2, <3>1, <3>4 DEF Save
      <4>2. reg'[s][i] # None /\ reg'[s][i].root = "some"
        <5>1. cand[c] \in Ips
          BY <1>1, <3>1 DEF Inv, Shape
        <5> QED
          BY <4>1, <5>1, ValueAssumption DEF Entries
      <4>3. ASSUME reg[s][i] # None, reg[s][i].root = "some", reg'[s][i] # reg[s][i]
            PROVE  marker[reg[s][i].ip] # <<s, i>>
        <5>1. task[c] = "own" /\ Entry(c) = reg[s][i]
          BY <1>1, <3>1, <3>4, <4>3 DEF Inv, EntryThere, Entry
        <5>2. CASE aim[c] = "move"
          BY <1>1, <3>1, <3>4, <5>1, <5>2 DEF Inv, Moving
        <5>3. CASE aim[c] = "keep"
          <6>1. cand[c] = reg[s][i].ip
            BY <1>1, <3>1, <5>1, <5>3 DEF Inv, CandRecorded
          <6>2. reg[s][i] \in Entries
            BY <3>1, <4>3
          <6>3. reg[s][i] = [ip |-> cand[c], root |-> "some"]
            BY <4>3, <6>1, <6>2 DEF Entries
          <6> QED
            BY <4>1, <4>3, <6>3
        <5> QED
          BY <1>1, <5>2, <5>3 DEF Inv, TypeOK
      <4> QED
        BY <4>2, <4>3
    <3> QED
      BY <3>2, <3>3, <3>4
  <2>3. reg' = reg \/ \E c \in Clients : Save(c)
    BY <1>1 DEF Next, Step, Begin, CreateLock, GetRead, GetLock, OwnLock, Peek,
       Make,
                Mark, WriteOwner, Done, Fail, RemoveRoot, vars
  <2> QED
    BY <2>1, <2>2, <2>3
<1>2. Inv /\ [Next]_vars => \A s \in States : \A i \in Ids : Kept(s, i)
  BY <1>1
<1>3. Inv /\ [Next]_vars => [\A s \in States : \A i \in Ids : Kept(s, i)]_vars
  BY <1>2
<1> QED
  BY <1>3, Invariance, PTL DEF Spec, MovesOnlyWhenTaken

\* A directory that an older release left without a marker goes to the
\* workspace whose entry records it and to no other.
THEOREM LegacyRootsAreKept == Spec => LegacyRootsKept
<1> DEFINE Claim(i) == \E c \in Clients :
      /\ pc[c] = "mark" /\ pc'[c] = "write" /\ cand[c] = i
      /\ Entry(c) = [ip |-> i, root |-> "some"]
<1> DEFINE Kept == \A i \in legacy : marker[i] = None /\ marker'[i] # None =>
      \E c \in Clients :
         /\ pc[c] = "mark" /\ pc'[c] = "write" /\ cand[c] = i
         /\ Entry(c) = [ip |-> i, root |-> "some"]
<1>1. ASSUME Inv, [Next]_vars, NEW i \in legacy, marker[i] = None, marker'[i] # None
      PROVE  Claim(i)
  <2>1. i \in Ips /\ marker \in [Ips -> Workspaces \cup {None, Blank}]
    BY <1>1 DEF Inv, TypeOK
  <2>2. Blank # None
    BY ValueAssumption
  <2>3. ASSUME NEW j \in Ips, RemoveRoot(j)
        PROVE  FALSE
    BY <1>1, <2>1, <2>3 DEF RemoveRoot
  <2>4. ASSUME NEW c \in Clients, WriteOwner(c)
        PROVE  FALSE
    <3>1. marker[cand[c]] = Blank
      BY <1>1, <2>4 DEF Inv, WriterAlone, WriteOwner
    <3>2. cand[c] # i
      BY <1>1, <2>2, <3>1
    <3> QED
      BY <1>1, <2>1, <2>4, <3>2 DEF WriteOwner
  <2>5. ASSUME NEW c \in Clients, Mark(c), marker' # marker
        PROVE  Claim(i)
    <3>1. marker' = [marker EXCEPT ![cand[c]] = Blank] /\ pc[c] = "mark" /\ Goto(c, "write")
      BY <2>5 DEF Mark
    <3>2. cand[c] = i
      BY <1>1, <2>1, <3>1
    <3>3. pc'[c] = "write"
      BY <1>1, <3>1 DEF Goto, Inv, TypeOK
    <3>4. task[c] = "own" /\ aim[c] = "keep"
      BY <1>1, <3>1, <3>2 DEF Inv, LegacyClaims
    <3>5. Entry(c) # None /\ Entry(c).root = "some" /\ Entry(c).ip = i
      BY <1>1, <3>1, <3>2, <3>4 DEF Inv, EntryThere, CandRecorded, Claiming
    <3>6. Entry(c) \in Entries
      <4>1. at[c] \in States /\ id[c] \in Ids
        BY <1>1, <3>1 DEF Inv, Shape
      <4> QED
        BY <1>1, <3>5, <4>1 DEF Inv, TypeOK, Entry
    <3>7. Entry(c) = [ip |-> i, root |-> "some"]
      BY <3>5, <3>6 DEF Entries
    <3> QED
      BY <3>1, <3>2, <3>3, <3>7
  <2>6. \/ marker' = marker
        \/ \E j \in Ips : RemoveRoot(j)
        \/ \E c \in Clients : WriteOwner(c) \/ Mark(c)
    BY <1>1 DEF Next, Step, Begin, CreateLock, GetRead, GetLock, OwnLock, Peek,
       Make,
                Save, Done, Fail, rootVars, vars
  <2> QED
    BY <1>1, <2>3, <2>4, <2>5, <2>6
<1>2. Inv /\ [Next]_vars => Kept
  BY <1>1
<1>3. Inv /\ [Next]_vars => [Kept]_vars
  BY <1>2
<1> QED
  BY <1>3, Invariance, PTL DEF Spec, LegacyRootsKept

\* Roots are moved only when taken, and claimed only by their owner.
THEOREM RootsAreKept == Spec => RootsStay
<1> QED
  BY OwnRootIsKept, LegacyRootsAreKept DEF RootsStay

=============================================================================
