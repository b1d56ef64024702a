------------------------------- MODULE DirProofs ------------------------------
(***************************************************************************)
(* TLAPS proofs about what renames: the state directories and the model of *)
(* the file system.                                                        *)
(*                                                                         *)
(* StateDirs, for any number of processes, registries and identities.  Inv *)
(* is inductive: the two locks keep what a migration decided true until    *)
(* its last rename, a registry never leaves the new directory, and an      *)
(* identity in use follows its registry, except between the two renames    *)
(* that only a crash can separate.                                         *)
(*                                                                         *)
(* FsTree, for any number of nodes: what is made, removed and renamed      *)
(* keeps the tree one (OneTree is inductive).                              *)
(*                                                                         *)
(* FsModel, FsOps and FsDriver, for any names, bounds and length of the    *)
(* run: every call leaves the model in order and edits its tree.  Sound is *)
(* inductive: the model has its shape, TreeOf of it is one tree, and the   *)
(* directories under a mount are empty, with nothing that is open and no   *)
(* process in them.                                                        *)
(*                                                                         *)
(* Lookups and chases are recursive.  RecursionExists gives them a value   *)
(* and RankInduction proves a thing of every walk: each calls the next one *)
(* on a smaller rank (the links left, then the names left).                *)
(***************************************************************************)
EXTENDS StateDirs, FsDriver, FsTree, FiniteSetTheorems, SequenceTheorems, TLAPS

Migrating == {"decide", "move_id", "move_registry", "move_holders"}

\* Who works on a directory holds its lock.
Locked ==
    \A c \in Clients :
        /\ pc[c] \in Migrating \cup {"lock_old"} => lock["new"] = c
        /\ pc[c] \in Migrating => lock["old"] = c
        /\ pc[c] \in {"record", "holders"} => lock[at[c]] = c

\* What was decided stays so until it is done.
Decided ==
    \A c \in Clients :
        /\ pc[c] = "move_id" => move[c] = PendingFiles
        /\ pc[c] = "move_registry" =>
              /\ "registry" \in move[c] =>
                    registry["old"] # 0 /\ registry["new"] = 0 /\ ident["old"] = 0
              /\ "holders" \in move[c] =>
                    holders["new"] = {} /\ ("registry" \in move[c] \/ registry["old"] = 0)
        /\ pc[c] = "move_holders" /\ "holders" \in move[c] =>
              holders["new"] = {} /\ registry["old"] = 0

\* A command knows where its registry is, or that it moved.
Known ==
    \A c \in Clients :
        /\ pc[c] = "record" =>
              /\ mine[c] = registry[at[c]] /\ ident[at[c]] # 0
              /\ op[c] = "setup" => mine[c] # 0
        /\ pc[c] \in {"relock", "holders"} =>
              /\ mine[c] # 0 /\ mine[c] \in {registry["old"], registry["new"]}
              /\ at[c] = "new" => mine[c] = registry["new"]

\* A registry that was saved is in one directory, and none other is.
Kept ==
    /\ \A d \in Dirs : registry[d] \in 0..born
    /\ \A r \in 1..born : registry["old"] = r \/ registry["new"] = r
    /\ registry["old"] = registry["new"] => registry["old"] = 0

\* Records in the old directory belong to the only registry there is, if there
\* is only one.
Holding ==
    /\ holders["new"] \subseteq {registry["new"]}
    /\ registry["new"] = 0 => holders["old"] \subseteq {registry["old"]}
    /\ registry["old"] = 0 => holders["old"] \subseteq {registry["new"]}

\* Identities are drawn once.
Drawn ==
    /\ \A d \in Dirs : ident[d] \in 0..drawn
    /\ \A r \in Regs : owners[r] \subseteq 1..drawn
    /\ \A r \in Regs : r > born => owners[r] = {}
    /\ ident["old"] = ident["new"] => ident["old"] = 0

\* Between the renames of the identity and of the registry.
Split == \E c \in Clients : pc[c] = "move_registry" /\ {"id", "registry"} \subseteq move[c]

\* The registry to which the identity in d belongs.
RegistryOf(d) ==
    IF ~Split THEN registry[d] ELSE IF d = "new" THEN registry["old"] ELSE 0

\* An identity that registry r, if any, may use, and no other has used.
Belongs(d, r) ==
    /\ r # 0 /\ owners[r] # {} => ident[d] \in owners[r]
    /\ \A s \in Regs : ident[d] \in owners[s] => s = r

Identified == \A d \in Dirs : Belongs(d, RegistryOf(d))

Unshared == ~torn => Identified /\ NoSharedIdentity

Inv ==
    /\ TypeOK
    /\ Locked
    /\ Decided
    /\ Known
    /\ Kept
    /\ Holding
    /\ Drawn
    /\ Unshared

-----------------------------------------------------------------------------
(* The steps                                                               *)

LEMMA StepCases ==
  ASSUME NEW P, [Next]_vars,
         \A c \in Clients : Begin(c) \/ Look(c) \/ LookId(c) \/ Decide(c) => P,
         \A c \in Clients : LockNew(c) \/ LockOld(c) \/ Relock(c) => P,
         \A c \in Clients : MoveId(c) => P,
         \A c \in Clients : MoveRegistry(c) => P,
         \A c \in Clients : MoveHolders(c) => P,
         \A c \in Clients : Use(c) => P,
         \A c \in Clients : Record(c) => P,
         \A c \in Clients : Holders(c) => P,
         \A c \in Clients : Crash(c) => P,
         UNCHANGED vars => P
  PROVE  P
  BY DEF Next, Step

LEMMA Pending ==
  /\ PendingFiles \subseteq {"registry", "holders", "id"}
  /\ "registry" \in PendingFiles <=> PendingRegistry
  /\ "holders" \in PendingFiles <=> PendingHolders
  /\ "id" \in PendingFiles <=> PendingId(PendingRegistry)
<1>1. \A f \in {"registry", "holders", "id"} :
        f \in PendingFiles <=> CASE f = "registry" -> PendingRegistry
                                 [] f = "holders"  -> PendingHolders
                                 [] f = "id"       -> PendingId(PendingRegistry)
  BY Zenon DEF PendingFiles
<1>2. PendingFiles \subseteq {"registry", "holders", "id"}
  BY Zenon DEF PendingFiles
<1>3. "registry" \in PendingFiles <=> PendingRegistry
  BY <1>1
<1>4. "holders" \in PendingFiles <=> PendingHolders
  BY <1>1
<1>5. "id" \in PendingFiles <=> PendingId(PendingRegistry)
  BY <1>1
<1> QED
  BY <1>2, <1>3, <1>4, <1>5

-----------------------------------------------------------------------------
(* Types                                                                   *)

DiskTypes ==
    /\ registry \in [Dirs -> 0..MaxReg]
    /\ ident \in [Dirs -> 0..MaxIdent]
    /\ holders \in [Dirs -> SUBSET Regs]
    /\ born \in 0..MaxReg
    /\ drawn \in 0..MaxIdent
    /\ owners \in [Regs -> SUBSET Idents]

LocalTypes ==
    /\ lock \in [Dirs -> Clients \cup {None}]
    /\ pc \in [Clients -> {"idle", "look", "look_id", "lock_new", "lock_old", "decide",
                           "move_id", "move_registry", "move_holders",
                           "use", "record", "relock", "holders"}]
    /\ at \in [Clients -> Dirs]
    /\ op \in [Clients -> {"create", "setup"}]
    /\ mine \in [Clients -> 0..MaxReg]
    /\ move \in [Clients -> SUBSET {"registry", "holders", "id"}]

FlagTypes == trusted \in BOOLEAN /\ torn \in BOOLEAN

LEMMA DiskTyped == ASSUME Inv, [Next]_vars PROVE DiskTypes'
<1>1. DiskTypes /\ LocalTypes
  BY DEF Inv, TypeOK, DiskTypes, LocalTypes
<1>2. UNCHANGED <<registry, ident, holders, born, drawn, owners>> => DiskTypes'
  BY <1>1 DEF DiskTypes
<1>3. \A c \in Clients : Begin(c) \/ Look(c) \/ LookId(c) \/ Decide(c) => DiskTypes'
  BY <1>2 DEF Begin, Look, LookId, Decide, disk, history
<1>4. \A c \in Clients : LockNew(c) \/ LockOld(c) \/ Relock(c) => DiskTypes'
  BY <1>2 DEF LockNew, LockOld, Relock, disk, history
<1>5. \A c \in Clients : Crash(c) => DiskTypes'
  BY <1>2 DEF Crash, disk
<1>6. UNCHANGED vars => DiskTypes'
  BY <1>2 DEF vars, disk, history
<1>7. 0 \in 0..MaxReg /\ 0 \in 0..MaxIdent /\ {} \in SUBSET Regs
  BY CountAssumption
<1>14. /\ Moved(ident, 0) \in [Dirs -> 0..MaxIdent]
        /\ Moved(registry, 0) \in [Dirs -> 0..MaxReg]
        /\ Moved(holders, {}) \in [Dirs -> SUBSET Regs]
  BY <1>1, <1>7 DEF DiskTypes, Moved, Dirs
<1>8. \A c \in Clients : MoveId(c) => DiskTypes'
  BY <1>1, <1>14 DEF MoveId, DiskTypes, history
<1>9. \A c \in Clients : MoveRegistry(c) => DiskTypes'
  BY <1>1, <1>14 DEF MoveRegistry, DiskTypes, history
<1>10. \A c \in Clients : MoveHolders(c) => DiskTypes'
  BY <1>1, <1>14 DEF MoveHolders, DiskTypes, history
<1>11. ASSUME NEW c \in Clients, Use(c) PROVE DiskTypes'
  <2>1. UNCHANGED <<registry, holders, born, owners>>
    BY <1>11 DEF Use, disk, history
  <2>2. (ident' = ident /\ drawn' = drawn)
        \/ (drawn < MaxIdent /\ drawn' = drawn + 1 /\ ident' = [ident EXCEPT ![at[c]] = drawn + 1])
    BY <1>11 DEF Use, disk, history
  <2>3. drawn < MaxIdent => drawn + 1 \in 0..MaxIdent
    BY <1>1, CountAssumption DEF DiskTypes
  <2> QED
    BY <1>1, <2>1, <2>2, <2>3 DEF DiskTypes, LocalTypes
<1>12. ASSUME NEW c \in Clients, Record(c) PROVE DiskTypes'
  <2> DEFINE r == IF mine[c] # 0 THEN mine[c] ELSE born + 1
  <2>1. CASE UNCHANGED <<registry, ident, holders, born, drawn, owners>>
    BY <2>1, <1>2
  <2>2. CASE ~UNCHANGED <<registry, ident, holders, born, drawn, owners>>
    <3>1. /\ UNCHANGED <<ident, holders, drawn>>
          /\ r <= MaxReg
          /\ registry' = [registry EXCEPT ![at[c]] = r]
          /\ born' = IF r > born THEN r ELSE born
          /\ owners' = [owners EXCEPT ![r] = @ \cup {ident[at[c]]}]
      BY <1>12, <2>2 DEF Record
    <3>2. r \in Regs
      BY <1>1, <3>1, CountAssumption DEF DiskTypes, LocalTypes, Regs
    <3>3. ident[at[c]] \in Idents
      <4>1. pc[c] = "record"
        BY <1>12 DEF Record
      <4>2. ident[at[c]] # 0
        BY <4>1 DEF Inv, Known
      <4>3. ident[at[c]] \in 0..MaxIdent
        BY <1>1 DEF DiskTypes, LocalTypes
      <4> QED
        BY <4>2, <4>3, CountAssumption DEF Idents
    <3>4. registry' \in [Dirs -> 0..MaxReg] /\ born' \in 0..MaxReg
      BY <1>1, <3>1, <3>2, CountAssumption DEF DiskTypes, LocalTypes, Regs
    <3>5. owners' \in [Regs -> SUBSET Idents]
      BY <1>1, <3>1, <3>2, <3>3 DEF DiskTypes
    <3> QED
      BY <1>1, <3>1, <3>4, <3>5 DEF DiskTypes
  <2> QED
    BY <2>1, <2>2
<1>13. ASSUME NEW c \in Clients, Holders(c) PROVE DiskTypes'
  <2>1. mine[c] \in Regs
    <3>1. pc[c] = "holders"
      BY <1>13 DEF Holders
    <3>2. mine[c] # 0 /\ mine[c] \in 0..MaxReg
      BY <1>1, <3>1 DEF LocalTypes, Inv, Known
    <3> QED
      BY <3>2, CountAssumption DEF Regs
  <2> QED
    BY <1>1, <1>13, <2>1 DEF Holders, history, DiskTypes, LocalTypes
<1> QED
  BY <1>3, <1>4, <1>5, <1>6, <1>8, <1>9, <1>10, <1>11, <1>12, <1>13, StepCases

LEMMA LocalTyped == ASSUME Inv, [Next]_vars PROVE LocalTypes'
<1>1. DiskTypes /\ LocalTypes
  BY DEF Inv, TypeOK, DiskTypes, LocalTypes
<1>2. \A c \in Clients : Release(c) => lock' \in [Dirs -> Clients \cup {None}]
  BY <1>1 DEF LocalTypes, Release
<1>3. \A c \in Clients : \A d \in Dirs : Acquire(c, d) => lock' \in [Dirs -> Clients \cup {None}]
  BY <1>1 DEF LocalTypes, Acquire
<1>4. \A c \in Clients : Exit(c) => LocalTypes'
  BY <1>1, <1>2, CountAssumption DEF Exit, Goto, LocalTypes, Dirs
<1>5. \A c \in Clients : Begin(c) => LocalTypes'
  BY <1>1 DEF Begin, Goto, LocalTypes, Dirs
<1>6. \A c \in Clients : Look(c) \/ LookId(c) => LocalTypes'
  BY <1>1 DEF Look, LookId, Goto, LocalTypes
<1>7. \A c \in Clients : Decide(c) => LocalTypes'
  BY <1>1, Pending DEF Decide, Goto, LocalTypes
<1>8. \A c \in Clients : LockNew(c) \/ LockOld(c) \/ Relock(c) => LocalTypes'
  BY <1>1, <1>3 DEF LockNew, LockOld, Relock, Goto, LocalTypes, Dirs
<1>9. \A c \in Clients : MoveId(c) \/ MoveRegistry(c) => LocalTypes'
  BY <1>1 DEF MoveId, MoveRegistry, Goto, LocalTypes
<1>10. \A c \in Clients : MoveHolders(c) => LocalTypes'
  BY <1>1, <1>2 DEF MoveHolders, Goto, LocalTypes
<1>11. \A c \in Clients : Use(c) => LocalTypes'
  <2> SUFFICES ASSUME NEW c \in Clients, Use(c) PROVE LocalTypes'
    OBVIOUS
  <2>1. CASE Exit(c)
    BY <2>1, <1>4
  <2>2. CASE ~Exit(c)
    <3>1. /\ Acquire(c, at[c]) /\ Goto(c, "record")
          /\ mine' = [mine EXCEPT ![c] = registry[at[c]]] /\ UNCHANGED <<at, op, move>>
      BY <2>2 DEF Use
    <3>2. at[c] \in Dirs /\ registry[at[c]] \in 0..MaxReg
      BY <1>1 DEF LocalTypes, DiskTypes
    <3> QED
      BY <1>1, <1>3, <3>1, <3>2 DEF Goto, LocalTypes
  <2> QED
    BY <2>1, <2>2
<1>12. \A c \in Clients : Record(c) => LocalTypes'
  BY <1>1, <1>2, <1>4 DEF Record, Goto, LocalTypes
<1>13. \A c \in Clients : Holders(c) \/ Crash(c) => LocalTypes'
  BY <1>4 DEF Holders, Crash
<1>14. UNCHANGED vars => LocalTypes'
  BY <1>1 DEF vars, local, LocalTypes
<1> QED
  BY <1>5, <1>6, <1>7, <1>8, <1>9, <1>10, <1>11, <1>12, <1>13, <1>14, StepCases

LEMMA FlagsTyped == ASSUME Inv, [Next]_vars PROVE FlagTypes'
<1>1. FlagTypes
  BY DEF Inv, TypeOK, FlagTypes
<1>2. UNCHANGED <<trusted, torn>> => FlagTypes'
  BY <1>1, Zenon DEF FlagTypes
<1>3. \A c \in Clients : Begin(c) \/ Look(c) \/ LookId(c) \/ Decide(c) => FlagTypes'
  BY <1>2 DEF Begin, Look, LookId, Decide, disk, history
<1>4. \A c \in Clients : LockNew(c) \/ LockOld(c) \/ Relock(c) => FlagTypes'
  BY <1>2 DEF LockNew, LockOld, Relock, disk, history
<1>5. \A c \in Clients : MoveId(c) \/ MoveRegistry(c) \/ MoveHolders(c) => FlagTypes'
  BY <1>2 DEF MoveId, MoveRegistry, MoveHolders, history
<1>6. \A c \in Clients : Use(c) \/ Record(c) \/ Holders(c) => FlagTypes'
  BY <1>2 DEF Use, Record, Holders, disk, history
<1>7. \A c \in Clients : Crash(c) => FlagTypes'
  <2> SUFFICES ASSUME NEW c \in Clients, Crash(c) PROVE FlagTypes'
    OBVIOUS
  <2>1. trusted' = trusted
    BY DEF Crash, disk
  <2>2. torn' \in BOOLEAN
    BY <1>1, Zenon DEF Crash, FlagTypes
  <2> QED
    BY <1>1, <2>1, <2>2, Zenon DEF FlagTypes
<1>8. UNCHANGED vars => FlagTypes'
  BY <1>2 DEF vars, disk, history
<1> QED
  BY <1>3, <1>4, <1>5, <1>6, <1>7, <1>8, StepCases

-----------------------------------------------------------------------------
(* Locks                                                                   *)

\* What one process does to its own variables and to the locks.
Others(c) == \A d \in Clients \ {c} :
    pc'[d] = pc[d] /\ at'[d] = at[d] /\ op'[d] = op[d] /\ mine'[d] = mine[d] /\ move'[d] = move[d]

\* No lock is taken from another process.
LocksStay(c) == \A d \in Dirs : lock[d] \in Clients \ {c} => lock'[d] = lock[d]

LEMMA OwnSteps ==
  ASSUME Inv, NEW c \in Clients,
         Begin(c) \/ Step(c) \/ Crash(c)
  PROVE  Others(c) /\ LocksStay(c)
<1>1. LocalTypes
  BY DEF Inv, TypeOK, LocalTypes
<1>2. Release(c) => LocksStay(c)
  BY DEF Release, LocksStay
<1>3. \A d \in Dirs : Acquire(c, d) => LocksStay(c)
  BY <1>1, NoneAssumption DEF Acquire, LocksStay, LocalTypes
<1>4. lock' = lock => LocksStay(c)
  BY DEF LocksStay
<1>5. Exit(c) => Others(c) /\ LocksStay(c)
  BY <1>1, <1>2 DEF Exit, Goto, LocalTypes, Others
<1>6. Begin(c) \/ Look(c) \/ LookId(c) \/ Decide(c) => Others(c) /\ LocksStay(c)
  BY <1>1, <1>4 DEF Begin, Look, LookId, Decide, Goto, LocalTypes, Others
<1>7. LockNew(c) \/ LockOld(c) \/ Relock(c) => Others(c) /\ LocksStay(c)
  BY <1>1, <1>3 DEF LockNew, LockOld, Relock, Goto, LocalTypes, Others, Dirs
<1>8. MoveId(c) \/ MoveRegistry(c) => Others(c) /\ LocksStay(c)
  BY <1>1, <1>4 DEF MoveId, MoveRegistry, Goto, LocalTypes, Others
<1>9. MoveHolders(c) => Others(c) /\ LocksStay(c)
  BY <1>1, <1>2 DEF MoveHolders, Goto, LocalTypes, Others
<1>10. Use(c) => Others(c) /\ LocksStay(c)
  BY <1>1, <1>3, <1>5 DEF Use, Goto, LocalTypes, Others
<1>11. Record(c) => Others(c) /\ LocksStay(c)
  BY <1>1, <1>2, <1>5 DEF Record, Goto, LocalTypes, Others
<1>12. Holders(c) \/ Crash(c) => Others(c) /\ LocksStay(c)
  BY <1>5 DEF Holders, Crash
<1> QED
  BY <1>6, <1>7, <1>8, <1>9, <1>10, <1>11, <1>12 DEF Step

LEMMA LockedNext == ASSUME Inv, [Next]_vars PROVE Locked'
<1>1. LocalTypes /\ Locked
  BY DEF Inv, TypeOK, LocalTypes
<1>2. ASSUME NEW c \in Clients, Begin(c) \/ Step(c) \/ Crash(c),
             pc'[c] \in Migrating \cup {"lock_old"} => lock'["new"] = c,
             pc'[c] \in Migrating => lock'["old"] = c,
             pc'[c] \in {"record", "holders"} => lock'[at'[c]] = c
      PROVE  Locked'
  <2>1. Others(c) /\ LocksStay(c)
    BY <1>2, OwnSteps
  <2> QED
    BY <1>1, <1>2, <2>1 DEF Locked, Others, LocksStay, LocalTypes, Dirs
<1>3. \A c \in Clients : pc'[c] \notin Migrating \cup {"lock_old", "record", "holders"} /\ Step(c)
                           => Locked'
  BY <1>2
<1>4. \A c \in Clients : Begin(c) => Locked'
  BY <1>1, <1>2 DEF Begin, Goto, LocalTypes, Migrating
<1>5. \A c \in Clients : Exit(c) => pc'[c] = "idle"
  BY <1>1 DEF Exit, Goto, LocalTypes
<1>6. \A c \in Clients : Look(c) \/ LookId(c) \/ MoveHolders(c) => Locked'
  BY <1>1, <1>3 DEF Look, LookId, MoveHolders, Goto, LocalTypes, Migrating, Step
<1>7. \A c \in Clients : Crash(c) => Locked'
  BY <1>2, <1>5 DEF Crash, Migrating
<1>8. \A c \in Clients : Decide(c) \/ MoveId(c) \/ MoveRegistry(c) => Locked'
  BY <1>1, <1>2 DEF Decide, MoveId, MoveRegistry, Goto, LocalTypes, Migrating, Step, Locked
<1>9. \A c \in Clients : LockNew(c) => Locked'
  BY <1>1, <1>2 DEF LockNew, Acquire, Goto, LocalTypes, Migrating, Step, Dirs
<1>10. \A c \in Clients : LockOld(c) => Locked'
  <2> SUFFICES ASSUME NEW c \in Clients, LockOld(c) PROVE Locked'
    OBVIOUS
  <2>1. pc'[c] = "decide" /\ lock' = [lock EXCEPT !["old"] = c] /\ lock["new"] = c
    BY <1>1 DEF LockOld, Acquire, Goto, LocalTypes, Locked
  <2>2. lock'["old"] = c /\ lock'["new"] = c
    BY <1>1, <2>1 DEF LocalTypes, Dirs
  <2> QED
    BY <1>2, <2>1, <2>2 DEF Step
<1>11. \A c \in Clients : Relock(c) => Locked'
  BY <1>1, <1>2 DEF Relock, Acquire, Goto, LocalTypes, Migrating, Step
<1>12. \A c \in Clients : Use(c) => Locked'
  <2> SUFFICES ASSUME NEW c \in Clients, Use(c) PROVE Locked'
    OBVIOUS
  <2>1. CASE Exit(c)
    BY <2>1, <1>3, <1>5 DEF Step, Migrating
  <2>2. CASE ~Exit(c)
    <3>1. Acquire(c, at[c]) /\ Goto(c, "record") /\ at' = at
      BY <2>2 DEF Use
    <3>2. pc'[c] = "record" /\ lock'[at'[c]] = c
      BY <1>1, <3>1 DEF Acquire, Goto, LocalTypes
    <3> QED
      BY <1>2, <3>2 DEF Step, Migrating
  <2> QED
    BY <2>1, <2>2
<1>13. \A c \in Clients : Record(c) => Locked'
  <2> SUFFICES ASSUME NEW c \in Clients, Record(c) PROVE Locked'
    OBVIOUS
  <2>1. pc'[c] \in {"idle", "relock"}
    BY <1>1, <1>5 DEF Record, Goto, LocalTypes
  <2> QED
    BY <1>3, <2>1 DEF Step, Migrating
<1>14. \A c \in Clients : Holders(c) => Locked'
  BY <1>3, <1>5 DEF Holders, Step, Migrating
<1>15. UNCHANGED vars => Locked'
  BY <1>1 DEF vars, local, Locked
<1> QED
  BY <1>4, <1>6, <1>7, <1>8, <1>9, <1>10, <1>11, <1>12, <1>13, <1>14, <1>15, StepCases

\* Two processes never migrate, or work on one directory, at the same time.
LEMMA Exclusive ==
  ASSUME Inv, NEW c \in Clients, NEW d \in Clients, c # d
  PROVE  /\ pc[c] \in Migrating => pc[d] \notin Migrating \cup {"record", "holders"}
         /\ pc[c] \in {"record", "holders"} /\ pc[d] \in {"record", "holders"} => at[c] # at[d]
  BY DEF Inv, Locked, TypeOK, Dirs

-----------------------------------------------------------------------------
(* What was decided stays true                                             *)

\* Under the two locks nobody else changes a file.
LEMMA Undisturbed ==
  ASSUME Inv, NEW c \in Clients, NEW d \in Clients, c # d, pc[d] \in Migrating,
         Begin(c) \/ Step(c) \/ Crash(c)
  PROVE  UNCHANGED disk
<1>1. lock["new"] = d /\ lock["old"] = d /\ d # None
  BY NoneAssumption DEF Inv, Locked
<1>2. at[c] \in Dirs
  BY DEF Inv, TypeOK
<1>3. ~MoveId(c) /\ ~MoveRegistry(c) /\ ~MoveHolders(c) /\ ~Record(c) /\ ~Holders(c)
  BY Exclusive DEF MoveId, MoveRegistry, MoveHolders, Record, Holders, Migrating
<1>4. ~Use(c)
  BY <1>1, <1>2 DEF Use, Dirs
<1>5. Begin(c) \/ Look(c) \/ LookId(c) \/ Decide(c) => UNCHANGED disk
  BY DEF Begin, Look, LookId, Decide
<1>6. LockNew(c) \/ LockOld(c) \/ Relock(c) \/ Crash(c) => UNCHANGED disk
  BY DEF LockNew, LockOld, Relock, Crash
<1> QED
  BY <1>3, <1>4, <1>5, <1>6 DEF Step

LEMMA SamePending == ASSUME UNCHANGED disk PROVE PendingFiles' = PendingFiles
<1>1. registry' = registry /\ ident' = ident /\ holders' = holders /\ trusted' = trusted
  BY DEF disk
<1>2. PendingRegistry' = PendingRegistry /\ PendingHolders' = PendingHolders
  BY <1>1, Zenon DEF PendingRegistry, PendingHolders
<1>3. PendingId(PendingRegistry)' = PendingId(PendingRegistry)
  BY <1>1, <1>2, Zenon DEF PendingId
<1> QED
  BY <1>2, <1>3, Zenon DEF PendingFiles

\* Decided, of one process.
DecidedBy(c) ==
    /\ pc[c] = "move_id" => move[c] = PendingFiles
    /\ pc[c] = "move_registry" =>
          /\ "registry" \in move[c] =>
                registry["old"] # 0 /\ registry["new"] = 0 /\ ident["old"] = 0
          /\ "holders" \in move[c] =>
                holders["new"] = {} /\ ("registry" \in move[c] \/ registry["old"] = 0)
    /\ pc[c] = "move_holders" /\ "holders" \in move[c] =>
          holders["new"] = {} /\ registry["old"] = 0

LEMMA DecidedNext == ASSUME Inv, [Next]_vars PROVE Decided'
<1>1. LocalTypes /\ DiskTypes /\ \A c \in Clients : DecidedBy(c)
  BY DEF Inv, TypeOK, LocalTypes, DiskTypes, Decided, DecidedBy
<1>2. ASSUME NEW d \in Clients, UNCHANGED disk, pc'[d] = pc[d], move'[d] = move[d]
      PROVE  DecidedBy(d)'
  <2>1. registry' = registry /\ ident' = ident /\ holders' = holders /\ DecidedBy(d)
    BY <1>1, <1>2 DEF disk
  <2> QED
    BY <1>2, <2>1, SamePending DEF DecidedBy
<1>3. ASSUME NEW c \in Clients, Begin(c) \/ Step(c) \/ Crash(c), DecidedBy(c)'
      PROVE  Decided'
  <2>1. Others(c)
    BY <1>3, OwnSteps
  <2>2. ASSUME NEW d \in Clients, d # c PROVE DecidedBy(d)'
    <3>1. CASE pc[d] \in Migrating
      BY <1>2, <1>3, <2>1, <2>2, <3>1, Undisturbed DEF Others
    <3>2. CASE pc[d] \notin Migrating
      BY <2>1, <2>2, <3>2 DEF Others, DecidedBy, Migrating
    <3> QED
      BY <3>1, <3>2
  <2> QED
    BY <1>3, <2>2 DEF Decided, DecidedBy
<1>4. \A c \in Clients : pc'[c] \notin {"move_id", "move_registry", "move_holders"} => DecidedBy(c)'
  BY DEF DecidedBy
<1>5. \A c \in Clients : Exit(c) => pc'[c] = "idle"
  BY <1>1 DEF Exit, Goto, LocalTypes
<1>6. \A c \in Clients : Begin(c) \/ Look(c) \/ LookId(c) => Decided'
  BY <1>1, <1>3, <1>4 DEF Begin, Look, LookId, Goto, LocalTypes, Step
<1>7. \A c \in Clients : LockNew(c) \/ LockOld(c) \/ Relock(c) => Decided'
  BY <1>1, <1>3, <1>4 DEF LockNew, LockOld, Relock, Goto, LocalTypes, Step
<1>8. \A c \in Clients : Decide(c) => Decided'
  <2> SUFFICES ASSUME NEW c \in Clients, Decide(c) PROVE Decided'
    OBVIOUS
  <2>1. pc'[c] = "move_id" /\ move'[c] = PendingFiles /\ UNCHANGED disk
    BY <1>1 DEF Decide, Goto, LocalTypes
  <2>2. DecidedBy(c)'
    BY <2>1, SamePending DEF DecidedBy
  <2> QED
    BY <1>3, <2>2 DEF Step
<1>9. \A c \in Clients : MoveId(c) => Decided'
  <2> SUFFICES ASSUME NEW c \in Clients, MoveId(c) PROVE Decided'
    OBVIOUS
  <2>1. /\ pc'[c] = "move_registry" /\ move'[c] = PendingFiles
        /\ registry' = registry /\ holders' = holders
    BY <1>1 DEF MoveId, Goto, LocalTypes, DecidedBy
  <2>2. "registry" \in PendingFiles => PendingRegistry /\ ident'["old"] = 0
    <3>1. "id" \in PendingFiles => ident' = Moved(ident, 0)
      BY <1>1 DEF MoveId, DecidedBy
    <3>2. "id" \notin PendingFiles => ident' = ident
      BY <1>1 DEF MoveId, DecidedBy
    <3>3. Moved(ident, 0)["old"] = 0
      BY <1>1 DEF Moved, DiskTypes, Dirs
    <3>4. PendingRegistry /\ "id" \notin PendingFiles => ident["old"] = 0
      BY Pending DEF PendingId, PendingRegistry
    <3> QED
      BY <3>1, <3>2, <3>3, <3>4, Pending
  <2>3. "holders" \in PendingFiles =>
          holders["new"] = {} /\ ("registry" \in PendingFiles \/ registry["old"] = 0)
    BY Pending DEF PendingHolders
  <2>4. DecidedBy(c)'
    BY <2>1, <2>2, <2>3 DEF DecidedBy, PendingRegistry
  <2> QED
    BY <1>3, <2>4 DEF Step
<1>10. \A c \in Clients : MoveRegistry(c) => Decided'
  <2> SUFFICES ASSUME NEW c \in Clients, MoveRegistry(c) PROVE Decided'
    OBVIOUS
  <2>1. pc[c] = "move_registry" /\ pc'[c] = "move_holders" /\ move' = move /\ holders' = holders
    BY <1>1 DEF MoveRegistry, Goto, LocalTypes
  <2>2. Moved(registry, 0)["old"] = 0
    BY <1>1 DEF Moved, DiskTypes, Dirs
  <2>3. "holders" \in move[c] => holders["new"] = {} /\ registry'["old"] = 0
    BY <1>1, <2>1, <2>2 DEF MoveRegistry, DecidedBy
  <2>4. DecidedBy(c)'
    BY <2>1, <2>3 DEF DecidedBy
  <2> QED
    BY <1>3, <2>4 DEF Step
<1>11. \A c \in Clients : MoveHolders(c) => Decided'
  BY <1>1, <1>3, <1>4 DEF MoveHolders, Goto, LocalTypes, Step
<1>12. \A c \in Clients : Use(c) => Decided'
  BY <1>1, <1>3, <1>4, <1>5 DEF Use, Goto, LocalTypes, Step
<1>13. \A c \in Clients : Record(c) => Decided'
  BY <1>1, <1>3, <1>4, <1>5 DEF Record, Goto, LocalTypes, Step
<1>14. \A c \in Clients : Holders(c) \/ Crash(c) => Decided'
  BY <1>3, <1>4, <1>5 DEF Holders, Crash, Step
<1>15. UNCHANGED vars => Decided'
  BY <1>1, <1>2 DEF vars, local, Decided, DecidedBy
<1> QED
  BY <1>6, <1>7, <1>8, <1>9, <1>10, <1>11, <1>12, <1>13, <1>14, <1>15, StepCases

-----------------------------------------------------------------------------
(* Registries                                                              *)

\* What a step may do to registry.json: nothing, move it, create it.
Stays == registry' = registry /\ born' = born
Moves ==
    /\ registry["old"] # 0 /\ registry["new"] = 0 /\ born' = born
    /\ registry'["new"] = registry["old"] /\ registry'["old"] = 0
Creates(d) ==
    /\ registry[d] = 0 /\ born' = born + 1
    /\ registry' = [registry EXCEPT ![d] = born + 1]

LEMMA RecordCases ==
  ASSUME Inv, NEW c \in Clients, Record(c)
  PROVE  \/ Stays /\ UNCHANGED owners
         \/ Stays /\ registry[at[c]] # 0
            /\ owners' = [owners EXCEPT ![registry[at[c]]] = @ \cup {ident[at[c]]}]
         \/ Creates(at[c]) /\ born + 1 <= MaxReg
            /\ owners' = [owners EXCEPT ![born + 1] = @ \cup {ident[at[c]]}]
<1>1. mine[c] = registry[at[c]]
  BY DEF Inv, Known, Record
<1>2. at[c] \in Dirs /\ born \in Nat /\ registry[at[c]] \in 0..born
  BY CountAssumption DEF Inv, TypeOK, Kept
<1>3. [registry EXCEPT ![at[c]] = registry[at[c]]] = registry
  BY <1>2 DEF Inv, TypeOK
<1>4. registry[at[c]] # 0 => ~(registry[at[c]] > born)
  BY <1>2
<1>5. born + 1 > born
  BY <1>2
<1> QED
  BY <1>1, <1>3, <1>4, <1>5 DEF Record, Stays, Creates

LEMMA RegistryNext ==
  ASSUME Inv, [Next]_vars
  PROVE  Stays \/ (Moves /\ UNCHANGED <<ident, holders, owners, drawn>>)
         \/ (\E d \in Dirs : Creates(d) /\ UNCHANGED <<ident, holders, drawn>>)
<1> DEFINE Goal == Stays \/ (Moves /\ UNCHANGED <<ident, holders, owners, drawn>>)
                   \/ (\E d \in Dirs : Creates(d) /\ UNCHANGED <<ident, holders, drawn>>)
<1>1. \A c \in Clients : Begin(c) \/ Look(c) \/ LookId(c) \/ Decide(c) => Goal
  BY DEF Begin, Look, LookId, Decide, disk, history, Stays
<1>2. \A c \in Clients : LockNew(c) \/ LockOld(c) \/ Relock(c) => Goal
  BY DEF LockNew, LockOld, Relock, disk, history, Stays
<1>3. \A c \in Clients : MoveId(c) \/ MoveHolders(c) => Goal
  BY DEF MoveId, MoveHolders, history, Stays
<1>4. \A c \in Clients : MoveRegistry(c) => Goal
  <2> SUFFICES ASSUME NEW c \in Clients, MoveRegistry(c) PROVE Goal
    OBVIOUS
  <2>1. UNCHANGED <<ident, holders, owners, drawn, born>>
    BY DEF MoveRegistry, history
  <2>2. CASE "registry" \in move[c]
    <3>1. registry["old"] # 0 /\ registry["new"] = 0
      BY <2>2 DEF MoveRegistry, Inv, Decided
    <3>2. registry' = Moved(registry, 0)
      BY <2>2 DEF MoveRegistry
    <3>3. Moved(registry, 0)["new"] = registry["old"] /\ Moved(registry, 0)["old"] = 0
      BY DEF Moved, Dirs, Inv, TypeOK
    <3> QED
      BY <2>1, <3>1, <3>2, <3>3 DEF Moves
  <2>3. CASE "registry" \notin move[c]
    BY <2>1, <2>3 DEF MoveRegistry, Stays
  <2> QED
    BY <2>2, <2>3
<1>5. \A c \in Clients : Use(c) \/ Holders(c) \/ Crash(c) => Goal
  BY DEF Use, Holders, Crash, disk, history, Stays
<1>6. \A c \in Clients : Record(c) => Goal
  <2> SUFFICES ASSUME NEW c \in Clients, Record(c) PROVE Goal
    OBVIOUS
  <2>1. at[c] \in Dirs
    BY DEF Inv, TypeOK
  <2>2. UNCHANGED <<ident, holders, drawn>>
    BY DEF Record
  <2> QED
    BY <2>1, <2>2, RecordCases
<1>7. UNCHANGED vars => Goal
  BY DEF vars, disk, history, Stays
<1> HIDE DEF Goal
<1>8. Goal
  BY <1>1, <1>2, <1>3, <1>4, <1>5, <1>6, <1>7, StepCases
<1> QED
  BY <1>8 DEF Goal

LEMMA KeptNext == ASSUME Inv, [Next]_vars PROVE Kept'
<1>1. registry \in [Dirs -> 0..MaxReg] /\ born \in Nat /\ Kept /\ Dirs = {"old", "new"}
  BY CountAssumption DEF Inv, TypeOK, Dirs
<1>2. Stays => Kept'
  BY <1>1 DEF Stays, Kept
<1>3. Moves => Kept'
  BY <1>1 DEF Moves, Kept
<1>4. ASSUME NEW d \in Dirs, Creates(d) PROVE Kept'
  <2>1. registry'[d] = born + 1 /\ \A e \in Dirs : e # d => registry'[e] = registry[e]
    BY <1>1, <1>4 DEF Creates
  <2>2. \A r \in 1..born' : r \in 1..born \/ r = born + 1
    BY <1>1, <1>4 DEF Creates
  <2>3. \A e \in Dirs : registry'[e] \in 0..born'
    BY <1>1, <1>4, <2>1 DEF Creates, Kept
  <2>4. \A r \in 1..born' : registry'["old"] = r \/ registry'["new"] = r
    BY <1>1, <1>4, <2>1, <2>2 DEF Creates, Kept
  <2>5. registry'["old"] # registry'["new"]
    BY <1>1, <2>1 DEF Kept
  <2> QED
    BY <2>3, <2>4, <2>5 DEF Kept
<1> QED
  BY <1>2, <1>3, <1>4, RegistryNext

LEMMA KnownNext == ASSUME Inv, [Next]_vars PROVE Known'
<1> DEFINE Knows(c) ==
             /\ pc[c] = "record" =>
                   /\ mine[c] = registry[at[c]] /\ ident[at[c]] # 0
                   /\ op[c] = "setup" => mine[c] # 0
             /\ pc[c] \in {"relock", "holders"} =>
                   /\ mine[c] # 0 /\ mine[c] \in {registry["old"], registry["new"]}
                   /\ at[c] = "new" => mine[c] = registry["new"]
<1>1. LocalTypes /\ DiskTypes /\ Locked /\ \A c \in Clients : Knows(c)
  BY DEF Inv, TypeOK, LocalTypes, DiskTypes, Known
\* A known registry stays where it is, or moves to the new directory.
<1>2. ASSUME NEW r, r # 0 PROVE /\ r = registry["new"] => r = registry'["new"]
                                /\ r = registry["old"] => r \in {registry'["old"], registry'["new"]}
  <2>1. Stays \/ Moves \/ \E d \in Dirs : Creates(d)
    BY RegistryNext
  <2>2. \A d \in Dirs : Creates(d) => \A e \in Dirs : registry[e] # 0 => registry'[e] = registry[e]
    BY <1>1 DEF Creates, DiskTypes
  <2>3. "old" \in Dirs /\ "new" \in Dirs
    BY DEF Dirs
  <2> QED
    BY <1>2, <2>1, <2>2, <2>3 DEF Stays, Moves
<1>3. ASSUME NEW c \in Clients, pc'[c] \in {"relock", "holders"}, pc[c] \in {"relock", "holders"},
             mine'[c] = mine[c], at'[c] = at[c]
      PROVE  Knows(c)'
  BY <1>1, <1>2, <1>3
\* Somebody else works on another directory.
<1>4. ASSUME NEW c \in Clients, NEW d \in Clients, c # d, pc[d] = "record",
             Begin(c) \/ Step(c) \/ Crash(c)
      PROVE  registry'[at[d]] = registry[at[d]] /\ ident'[at[d]] = ident[at[d]]
  <2>1. lock[at[d]] = d /\ d # None /\ at[d] \in Dirs /\ at[c] \in Dirs
    BY <1>1, <1>4, NoneAssumption DEF Locked, LocalTypes
  <2>2. ~MoveId(c) /\ ~MoveRegistry(c) /\ ~MoveHolders(c)
    BY <1>4, Exclusive DEF MoveId, MoveRegistry, MoveHolders, Migrating
  <2>3. Begin(c) \/ Look(c) \/ LookId(c) \/ Decide(c) => registry' = registry /\ ident' = ident
    BY DEF Begin, Look, LookId, Decide, disk
  <2>4. LockNew(c) \/ LockOld(c) \/ Relock(c) \/ Crash(c) \/ Holders(c)
          => registry' = registry /\ ident' = ident
    BY DEF LockNew, LockOld, Relock, Crash, Holders, disk
  <2>5. Use(c) => at[c] # at[d]
    BY <2>1 DEF Use
  <2>6. Record(c) => at[c] # at[d]
    BY <1>4, Exclusive DEF Record
  <2>7. Use(c) => registry' = registry /\ \A e \in Dirs : e # at[c] => ident'[e] = ident[e]
    BY <1>1, <2>1 DEF Use, disk, history, DiskTypes
  <2>8. Record(c) => ident' = ident /\ \A e \in Dirs : e # at[c] => registry'[e] = registry[e]
    BY <1>1, <2>1 DEF Record, DiskTypes
  <2> QED
    BY <1>4, <2>1, <2>2, <2>3, <2>4, <2>5, <2>6, <2>7, <2>8 DEF Step
<1>5. ASSUME NEW c \in Clients, Begin(c) \/ Step(c) \/ Crash(c), Knows(c)' PROVE Known'
  <2>1. Others(c)
    BY <1>5, OwnSteps
  <2>2. ASSUME NEW d \in Clients, d # c PROVE Knows(d)'
    BY <1>1, <1>3, <1>4, <1>5, <2>1, <2>2 DEF Others
  <2> QED
    BY <1>5, <2>2 DEF Known
<1>6. \A c \in Clients : pc'[c] \notin {"record", "relock", "holders"} => Knows(c)'
  OBVIOUS
<1>7. \A c \in Clients : Exit(c) => pc'[c] = "idle"
  BY <1>1 DEF Exit, Goto, LocalTypes
<1> HIDE DEF Knows
<1>8. \A c \in Clients : Begin(c) \/ Look(c) \/ LookId(c) \/ Decide(c) => Known'
  BY <1>1, <1>5, <1>6 DEF Begin, Look, LookId, Decide, Goto, LocalTypes, Step
<1>9. \A c \in Clients : LockNew(c) \/ LockOld(c) => Known'
  BY <1>1, <1>5, <1>6 DEF LockNew, LockOld, Goto, LocalTypes, Step
<1>10. \A c \in Clients : MoveId(c) \/ MoveRegistry(c) \/ MoveHolders(c) => Known'
  BY <1>1, <1>5, <1>6 DEF MoveId, MoveRegistry, MoveHolders, Goto, LocalTypes, Step
<1>11. \A c \in Clients : Relock(c) => Known'
  BY <1>1, <1>3, <1>5 DEF Relock, Goto, LocalTypes, Step
<1>12. \A c \in Clients : Holders(c) \/ Crash(c) => Known'
  BY <1>5, <1>6, <1>7 DEF Holders, Crash, Step
<1>13. \A c \in Clients : Use(c) => Known'
  <2> SUFFICES ASSUME NEW c \in Clients, Use(c) PROVE Known'
    OBVIOUS
  <2>1. CASE Exit(c)
    BY <2>1, <1>5, <1>6, <1>7 DEF Step
  <2>2. CASE ~Exit(c)
    <3>1. /\ Goto(c, "record") /\ mine' = [mine EXCEPT ![c] = registry[at[c]]]
          /\ registry' = registry /\ at' = at /\ op' = op
          /\ op[c] = "setup" => registry[at[c]] # 0
          /\ (ident[at[c]] # 0 /\ ident' = ident) \/ ident' = [ident EXCEPT ![at[c]] = drawn + 1]
      BY <2>2 DEF Use
    <3>2. pc'[c] = "record" /\ mine'[c] = registry'[at'[c]] /\ (op'[c] = "setup" => mine'[c] # 0)
      BY <1>1, <3>1 DEF Goto, LocalTypes
    <3>3. ident'[at'[c]] # 0
      BY <1>1, <3>1, CountAssumption DEF LocalTypes, DiskTypes
    <3>4. Knows(c)'
      BY <3>2, <3>3 DEF Knows
    <3> QED
      BY <1>5, <3>4 DEF Step
  <2> QED
    BY <2>1, <2>2
<1>14. \A c \in Clients : Record(c) => Known'
  <2> SUFFICES ASSUME NEW c \in Clients, Record(c) PROVE Known'
    OBVIOUS
  <2>1. CASE Exit(c)
    BY <2>1, <1>5, <1>6, <1>7 DEF Step
  <2>2. CASE ~Exit(c)
    <3>1. Goto(c, "relock") /\ mine' = mine /\ at' = at /\ op[c] = "setup" /\ pc[c] = "record"
      BY <2>2 DEF Record
    <3>2. mine[c] # 0 /\ mine[c] = registry[at[c]] /\ at[c] \in Dirs
      BY <1>1, <3>1 DEF Knows, LocalTypes
    <3>3. pc'[c] = "relock"
      BY <1>1, <3>1 DEF Goto, LocalTypes
    <3>4. Knows(c)'
      BY <1>2, <3>1, <3>2, <3>3 DEF Knows, Dirs
    <3> QED
      BY <1>5, <3>4 DEF Step
  <2> QED
    BY <2>1, <2>2
<1>15. UNCHANGED vars => Known'
  BY <1>1 DEF vars, disk, local, Known, Knows
<1> QED
  BY <1>8, <1>9, <1>10, <1>11, <1>12, <1>13, <1>14, <1>15, StepCases

-----------------------------------------------------------------------------
(* Holder records                                                          *)

LEMMA HoldingNext == ASSUME Inv, [Next]_vars PROVE Holding'
<1>1. /\ registry \in [Dirs -> 0..MaxReg] /\ holders \in [Dirs -> SUBSET Regs]
      /\ at \in [Clients -> Dirs] /\ Dirs = {"old", "new"} /\ Holding /\ 0 \notin Regs
  BY CountAssumption DEF Inv, TypeOK, Dirs, Regs
<1>2. Stays /\ holders' = holders => Holding'
  BY <1>1 DEF Stays, Holding
<1>3. Moves /\ holders' = holders => Holding'
  BY <1>1 DEF Moves, Holding
<1>4. \A d \in Dirs : Creates(d) /\ holders' = holders => Holding'
  <2> SUFFICES ASSUME NEW d \in Dirs, Creates(d), holders' = holders PROVE Holding'
    OBVIOUS
  <2>1. registry'[d] = born + 1 /\ \A e \in Dirs : e # d => registry'[e] = registry[e]
    BY <1>1 DEF Creates
  <2>2. born + 1 # 0
    BY CountAssumption DEF Inv, TypeOK
  <2>3. \A e \in Dirs : 0 \notin holders[e]
    BY <1>1
  <2>4. registry["new"] = 0 => holders["new"] = {}
    BY <1>1, <2>3 DEF Holding
  <2>5. CASE d = "new"
    <3>1. registry["old"] = 0 => holders["old"] = {}
      BY <1>1, <2>3, <2>5 DEF Holding, Creates
    <3> QED
      BY <1>1, <2>1, <2>2, <2>4, <2>5, <3>1 DEF Holding, Creates
  <2>6. CASE d = "old"
    <3>1. registry["new"] = 0 => holders["old"] = {}
      BY <1>1, <2>3, <2>6 DEF Holding, Creates
    <3> QED
      BY <1>1, <2>1, <2>2, <2>6, <3>1 DEF Holding
  <2> QED
    BY <1>1, <2>5, <2>6
<1>5. ASSUME holders' = holders PROVE Holding'
  BY <1>2, <1>3, <1>4, <1>5, RegistryNext
<1>6. ASSUME NEW c \in Clients, MoveHolders(c) PROVE Holding'
  <2>1. registry' = registry
    BY <1>6 DEF MoveHolders
  <2>2. CASE "holders" \in move[c]
    <3>1. holders["new"] = {} /\ registry["old"] = 0
      BY <1>6, <2>2 DEF MoveHolders, Inv, Decided
    <3>2. holders'["new"] = holders["old"] /\ holders'["old"] = {}
      BY <1>1, <1>6, <2>2 DEF MoveHolders, Moved
    <3> QED
      BY <1>1, <2>1, <3>1, <3>2 DEF Holding
  <2> QED
    BY <1>5, <1>6, <2>2 DEF MoveHolders
<1>7. ASSUME NEW c \in Clients, Holders(c) PROVE Holding'
  <2>1. pc[c] = "holders" /\ registry' = registry /\ at[c] \in Dirs
    BY <1>1, <1>7 DEF Holders
  <2>2. /\ mine[c] # 0 /\ mine[c] \in {registry["old"], registry["new"]}
        /\ at[c] = "new" => mine[c] = registry["new"]
    BY <2>1 DEF Inv, Known
  <2>3. /\ holders'[at[c]] = holders[at[c]] \cup {mine[c]}
        /\ \A d \in Dirs : d # at[c] => holders'[d] = holders[d]
    BY <1>1, <1>7, <2>1 DEF Holders
  <2> QED
    BY <1>1, <2>1, <2>2, <2>3 DEF Holding
<1>8. \A c \in Clients : Begin(c) \/ Look(c) \/ LookId(c) \/ Decide(c) => Holding'
  BY <1>5 DEF Begin, Look, LookId, Decide, disk
<1>9. \A c \in Clients : LockNew(c) \/ LockOld(c) \/ Relock(c) => Holding'
  BY <1>5 DEF LockNew, LockOld, Relock, disk
<1>10. \A c \in Clients : MoveId(c) => Holding'
  BY <1>5 DEF MoveId
<1>11. \A c \in Clients : MoveRegistry(c) => Holding'
  BY <1>5 DEF MoveRegistry
<1>12. \A c \in Clients : Use(c) => Holding'
  BY <1>5 DEF Use, disk
<1>13. \A c \in Clients : Record(c) => Holding'
  BY <1>5 DEF Record
<1>14. \A c \in Clients : Crash(c) => Holding'
  BY <1>5 DEF Crash, disk
<1>15. UNCHANGED vars => Holding'
  BY <1>5 DEF vars, disk
<1> QED
  BY <1>6, <1>7, <1>8, <1>9, <1>10, <1>11, <1>12, <1>13, <1>14, <1>15, StepCases

-----------------------------------------------------------------------------
(* Identities                                                              *)

\* What a step may do to registry-id: nothing, move it, draw it.
IdStays == ident' = ident /\ drawn' = drawn
IdMoves ==
    ident["old"] # 0 /\ drawn' = drawn /\ ident'["new"] = ident["old"] /\ ident'["old"] = 0
IdDrawn(d) ==
    /\ ident[d] = 0 /\ drawn' = drawn + 1
    /\ ident' = [ident EXCEPT ![d] = drawn + 1]

LEMMA MoveIdCases ==
  ASSUME Inv, NEW c \in Clients, MoveId(c)
  PROVE  /\ UNCHANGED <<registry, born, owners, torn>>
         /\ "id" \in move[c] => IdMoves
         /\ "id" \notin move[c] => IdStays
<1>1. Moved(ident, 0)["new"] = ident["old"] /\ Moved(ident, 0)["old"] = 0
  BY DEF Moved, Dirs, Inv, TypeOK
<1>2. "id" \in move[c] => ident["old"] # 0
  BY Pending DEF MoveId, Inv, Decided, PendingId
<1> QED
  BY <1>1, <1>2 DEF MoveId, history, IdMoves, IdStays

LEMMA UseCases ==
  ASSUME Inv, NEW c \in Clients, Use(c)
  PROVE  UNCHANGED <<registry, born, owners, torn>> /\ (IdStays \/ IdDrawn(at[c]))
  BY DEF Use, disk, history, IdStays, IdDrawn

LEMMA DrawnNext == ASSUME Inv, [Next]_vars PROVE Drawn'
<1>1. /\ ident \in [Dirs -> 0..MaxIdent] /\ owners \in [Regs -> SUBSET Idents]
      /\ drawn \in Nat /\ born \in Nat /\ at \in [Clients -> Dirs] /\ Dirs = {"old", "new"}
      /\ \A d \in Dirs : ident[d] \in 0..drawn
      /\ \A r \in Regs : owners[r] \subseteq 1..drawn
      /\ \A r \in Regs : r > born => owners[r] = {}
      /\ ident["old"] = ident["new"] => ident["old"] = 0
  BY CountAssumption DEF Inv, TypeOK, Dirs, Drawn
<1>2. ASSUME UNCHANGED <<owners, born>>, IdStays \/ IdMoves \/ \E d \in Dirs : IdDrawn(d)
      PROVE  Drawn'
  <2>1. CASE IdStays
    BY <1>1, <1>2, <2>1 DEF IdStays, Drawn
  <2>2. CASE IdMoves
    BY <1>1, <1>2, <2>2 DEF IdMoves, Drawn
  <2>3. ASSUME NEW d \in Dirs, IdDrawn(d) PROVE Drawn'
    <3>1. ident'[d] = drawn + 1 /\ \A e \in Dirs : e # d => ident'[e] = ident[e]
      BY <1>1, <2>3 DEF IdDrawn
    <3>2. drawn' = drawn + 1 /\ \A n \in 0..drawn : n \in 0..drawn' /\ n # drawn + 1
      BY <1>1, <2>3 DEF IdDrawn
    <3>3. \A e \in Dirs : ident'[e] \in 0..drawn'
      BY <1>1, <3>1, <3>2
    <3>4. \A r \in Regs : owners'[r] \subseteq 1..drawn'
      BY <1>1, <1>2, <3>2
    <3>5. ident'["old"] # ident'["new"]
      BY <1>1, <3>1, <3>2
    <3> QED
      BY <1>1, <1>2, <3>3, <3>4, <3>5 DEF Drawn
  <2> QED
    BY <1>2, <2>1, <2>2, <2>3
<1>3. \A c \in Clients : Begin(c) \/ Look(c) \/ LookId(c) \/ Decide(c) => Drawn'
  BY <1>2 DEF Begin, Look, LookId, Decide, disk, history, IdStays
<1>4. \A c \in Clients : LockNew(c) \/ LockOld(c) \/ Relock(c) => Drawn'
  BY <1>2 DEF LockNew, LockOld, Relock, disk, history, IdStays
<1>5. \A c \in Clients : MoveId(c) => Drawn'
  BY <1>2, MoveIdCases
<1>6. \A c \in Clients : MoveRegistry(c) \/ MoveHolders(c) => Drawn'
  BY <1>2 DEF MoveRegistry, MoveHolders, history, IdStays
<1>7. \A c \in Clients : Use(c) => Drawn'
  BY <1>1, <1>2, UseCases
<1>8. \A c \in Clients : Holders(c) \/ Crash(c) => Drawn'
  BY <1>2 DEF Holders, Crash, disk, history, IdStays
<1>9. \A c \in Clients : Record(c) => Drawn'
  <2> SUFFICES ASSUME NEW c \in Clients, Record(c) PROVE Drawn'
    OBVIOUS
  <2>1. IdStays
    BY DEF Record, IdStays
  <2>2. ident[at[c]] \in 1..drawn
    BY <1>1 DEF Record, Inv, Known
  <2>3. registry[at[c]] \in 0..born /\ registry[at[c]] \in 0..MaxReg
    BY <1>1 DEF Inv, Kept, TypeOK
  <2>4. ASSUME NEW r \in Regs, r <= born', born' >= born,
               owners' = [owners EXCEPT ![r] = @ \cup {ident[at[c]]}]
        PROVE  Drawn'
    <3>1. /\ owners'[r] = owners[r] \cup {ident[at[c]]}
          /\ \A q \in Regs : q # r => owners'[q] = owners[q]
      BY <1>1, <2>4
    <3>2. \A q \in Regs : owners'[q] \subseteq 1..drawn
      BY <1>1, <2>2, <3>1
    <3>3. \A q \in Regs : q > born' => q > born /\ q # r
      <4>1. \A q \in Regs : q \in Int
        BY CountAssumption DEF Regs
      <4>2. born' \in Int
        BY DiskTyped, CountAssumption DEF DiskTypes
      <4> QED
        BY <1>1, <2>4, <4>1, <4>2
    <3>4. \A q \in Regs : q > born' => owners'[q] = {}
      BY <1>1, <3>1, <3>3
    <3> QED
      BY <1>1, <2>1, <3>2, <3>4 DEF IdStays, Drawn
  <2>5. CASE Stays /\ UNCHANGED owners
    BY <1>1, <1>2, <2>1, <2>5 DEF Stays
  <2>6. CASE Stays /\ registry[at[c]] # 0
             /\ owners' = [owners EXCEPT ![registry[at[c]]] = @ \cup {ident[at[c]]}]
    <3>1. registry[at[c]] \in Regs /\ registry[at[c]] <= born' /\ born' >= born
      BY <1>1, <2>3, <2>6, CountAssumption DEF Stays, Regs
    <3> QED
      BY <2>4, <2>6, <3>1
  <2>7. CASE Creates(at[c]) /\ born + 1 <= MaxReg
             /\ owners' = [owners EXCEPT ![born + 1] = @ \cup {ident[at[c]]}]
    <3>1. born + 1 \in Regs /\ born + 1 <= born' /\ born' >= born
      BY <1>1, <2>7, CountAssumption DEF Creates, Regs
    <3> QED
      BY <2>4, <2>7, <3>1
  <2> QED
    BY <2>5, <2>6, <2>7, RecordCases
<1>10. UNCHANGED vars => Drawn'
  BY <1>2 DEF vars, disk, history, IdStays
<1> QED
  BY <1>3, <1>4, <1>5, <1>6, <1>7, <1>8, <1>9, <1>10, StepCases

-----------------------------------------------------------------------------
(* Identities in use                                                       *)

LEMMA SameSplit ==
  ASSUME Inv, NEW c \in Clients, Begin(c) \/ Step(c) \/ Crash(c),
         pc[c] # "move_registry", pc'[c] # "move_registry"
  PROVE  Split' <=> Split
  BY OwnSteps DEF Split, Others

LEMMA UnsharedNext == ASSUME Inv, [Next]_vars PROVE Unshared'
<1>1. /\ ident \in [Dirs -> 0..MaxIdent] /\ owners \in [Regs -> SUBSET Idents]
      /\ registry \in [Dirs -> 0..MaxReg] /\ at \in [Clients -> Dirs]
      /\ Dirs = {"old", "new"} /\ 0 \notin Idents /\ LocalTypes
  BY DEF Inv, TypeOK, Dirs, Idents, LocalTypes
<1>2. Unshared /\ Locked /\ Decided /\ Drawn /\ Kept
  BY DEF Inv
\* Nothing that matters changes.
<1>3. ASSUME UNCHANGED <<registry, ident, owners, torn>>, Split' <=> Split PROVE Unshared'
  <2>1. \A d \in Dirs : RegistryOf(d)' = RegistryOf(d)
    BY <1>3 DEF RegistryOf
  <2>2. \A d \in Dirs : Belongs(d, RegistryOf(d)) => Belongs(d, RegistryOf(d))'
    BY <1>3, <2>1 DEF Belongs
  <2> QED
    BY <1>2, <1>3, <2>2 DEF Unshared, Identified, NoSharedIdentity
<1>4. \A c \in Clients : Exit(c) => pc'[c] = "idle"
  BY <1>1 DEF Exit, Goto, LocalTypes
<1>5. \A c \in Clients : Begin(c) \/ Look(c) \/ LookId(c) \/ Decide(c) => Unshared'
  <2> SUFFICES ASSUME NEW c \in Clients, Begin(c) \/ Look(c) \/ LookId(c) \/ Decide(c)
               PROVE  Unshared'
    OBVIOUS
  <2>1. pc[c] # "move_registry" /\ pc'[c] # "move_registry"
    BY <1>1 DEF Begin, Look, LookId, Decide, Goto, LocalTypes
  <2>2. UNCHANGED <<registry, ident, owners, torn>>
    BY DEF Begin, Look, LookId, Decide, disk, history
  <2> QED
    BY <1>3, <2>1, <2>2, SameSplit DEF Step
<1>6. \A c \in Clients : LockNew(c) \/ LockOld(c) \/ Relock(c) => Unshared'
  <2> SUFFICES ASSUME NEW c \in Clients, LockNew(c) \/ LockOld(c) \/ Relock(c)
               PROVE  Unshared'
    OBVIOUS
  <2>1. pc[c] # "move_registry" /\ pc'[c] # "move_registry"
    BY <1>1 DEF LockNew, LockOld, Relock, Goto, LocalTypes
  <2>2. UNCHANGED <<registry, ident, owners, torn>>
    BY DEF LockNew, LockOld, Relock, disk, history
  <2> QED
    BY <1>3, <2>1, <2>2, SameSplit DEF Step
<1>7. \A c \in Clients : MoveHolders(c) \/ Holders(c) => Unshared'
  <2> SUFFICES ASSUME NEW c \in Clients, MoveHolders(c) \/ Holders(c) PROVE Unshared'
    OBVIOUS
  <2>1. pc[c] # "move_registry" /\ pc'[c] # "move_registry"
    BY <1>1, <1>4 DEF MoveHolders, Holders, Goto, LocalTypes
  <2>2. UNCHANGED <<registry, ident, owners, torn>>
    BY DEF MoveHolders, Holders, history
  <2> QED
    BY <1>3, <2>1, <2>2, SameSplit DEF Step
\* A crash between the two renames is what torn is about.
<1>8. \A c \in Clients : Crash(c) => Unshared'
  <2> SUFFICES ASSUME NEW c \in Clients, Crash(c) PROVE Unshared'
    OBVIOUS
  <2>1. CASE pc[c] = "move_registry" /\ {"id", "registry"} \subseteq move[c]
    BY <2>1 DEF Crash, Unshared
  <2>2. CASE ~(pc[c] = "move_registry" /\ {"id", "registry"} \subseteq move[c])
    <3>1. Others(c) /\ pc'[c] = "idle"
      BY <1>4, OwnSteps DEF Crash
    <3>2. Split' <=> Split
      BY <2>2, <3>1 DEF Split, Others
    <3>3. UNCHANGED <<registry, ident, owners>>
      BY DEF Crash, disk
    <3>4. torn => torn'
      BY Zenon DEF Crash
    <3>5. CASE torn
      BY <3>4, <3>5 DEF Unshared
    <3>6. CASE ~torn
      <4>1. \A d \in Dirs : Belongs(d, RegistryOf(d)) => Belongs(d, RegistryOf(d))'
        BY <3>2, <3>3 DEF Belongs, RegistryOf
      <4> QED
        BY <1>2, <3>3, <3>6, <4>1 DEF Unshared, Identified, NoSharedIdentity
    <3> QED
      BY <3>5, <3>6
  <2> QED
    BY <2>1, <2>2
\* One who moves files is alone.
<1>9. ASSUME NEW c \in Clients, pc[c] \in Migrating, Step(c)
      PROVE  /\ Split <=> pc[c] = "move_registry" /\ {"id", "registry"} \subseteq move[c]
             /\ Split' <=> pc'[c] = "move_registry" /\ {"id", "registry"} \subseteq move'[c]
  BY <1>9, OwnSteps, Exclusive DEF Split, Others, Migrating
<1>10. \A c \in Clients : MoveId(c) => Unshared'
  <2> SUFFICES ASSUME NEW c \in Clients, MoveId(c) PROVE Unshared'
    OBVIOUS
  <2>1. /\ UNCHANGED <<registry, born, owners, torn>>
        /\ "id" \in move[c] => IdMoves
        /\ "id" \notin move[c] => IdStays
    BY MoveIdCases
  <2>2. pc[c] = "move_id" /\ pc'[c] = "move_registry" /\ move' = move /\ move[c] = PendingFiles
    BY <1>1, <1>2 DEF MoveId, Goto, LocalTypes, Decided
  <2>3. ~Split /\ (Split' <=> {"id", "registry"} \subseteq move[c])
    BY <1>9, <2>2 DEF Migrating, Step
  <2>4. CASE "id" \notin move[c]
    BY <1>3, <2>1, <2>3, <2>4 DEF IdStays
  <2>5. CASE "id" \in move[c]
    <3> SUFFICES ASSUME ~torn PROVE Identified' /\ NoSharedIdentity'
      BY <2>1 DEF Unshared
    <3>1. ident'["new"] = ident["old"] /\ ident'["old"] = 0
      BY <2>1, <2>5 DEF IdMoves
    <3>2. Belongs("old", registry["old"]) /\ Belongs("new", registry["new"])
      BY <1>1, <1>2, <2>3 DEF Unshared, Identified, RegistryOf
    <3>3. \A r \in Regs : ident'["old"] \notin owners'[r]
      BY <1>1, <2>1, <3>1
    <3>4. CASE "registry" \in move[c]
      <4>1. RegistryOf("new")' = registry["old"] /\ RegistryOf("old")' = 0
        BY <2>1, <2>3, <2>5, <3>4 DEF RegistryOf
      <4>2. Belongs("new", RegistryOf("new"))'
        BY <2>1, <3>1, <3>2, <4>1 DEF Belongs
      <4>3. Belongs("old", RegistryOf("old"))'
        BY <3>3, <4>1 DEF Belongs
      <4> QED
        BY <1>1, <1>2, <2>1, <4>2, <4>3 DEF Unshared, Identified, NoSharedIdentity
    <3>5. CASE "registry" \notin move[c]
      <4>1. ident["new"] = 0 /\ registry["old"] = 0
        BY <2>2, <2>5, <3>5, Pending DEF PendingId
      <4>2. RegistryOf("new")' = registry["new"] /\ RegistryOf("old")' = 0
        BY <2>1, <2>3, <3>5, <4>1 DEF RegistryOf
      <4>3. \A r \in Regs : ident["old"] \notin owners[r]
        BY <1>1, <3>2, <4>1, CountAssumption DEF Belongs, Regs
      <4>4. registry["new"] # 0 => owners[registry["new"]] = {}
        <5>1. registry["new"] # 0 => registry["new"] \in Regs
          BY <1>1, CountAssumption DEF Regs
        <5> QED
          BY <1>1, <3>2, <4>1, <5>1 DEF Belongs
      <4>5. Belongs("new", RegistryOf("new"))'
        BY <2>1, <3>1, <4>2, <4>3, <4>4 DEF Belongs
      <4>6. Belongs("old", RegistryOf("old"))'
        BY <3>3, <4>2 DEF Belongs
      <4> QED
        BY <1>1, <1>2, <2>1, <4>5, <4>6 DEF Unshared, Identified, NoSharedIdentity
    <3> QED
      BY <3>4, <3>5
  <2> QED
    BY <2>4, <2>5
<1>11. \A c \in Clients : MoveRegistry(c) => Unshared'
  <2> SUFFICES ASSUME NEW c \in Clients, MoveRegistry(c) PROVE Unshared'
    OBVIOUS
  <2>1. UNCHANGED <<ident, owners, torn>> /\ pc[c] = "move_registry" /\ pc'[c] = "move_holders"
    BY <1>1 DEF MoveRegistry, history, Goto, LocalTypes
  <2>2. ~Split' /\ (Split <=> {"id", "registry"} \subseteq move[c])
    BY <1>9, <2>1 DEF Migrating, Step
  <2>3. CASE "registry" \notin move[c]
    BY <1>3, <2>1, <2>2, <2>3 DEF MoveRegistry
  <2>4. CASE "registry" \in move[c]
    <3> SUFFICES ASSUME ~torn PROVE Identified' /\ NoSharedIdentity'
      BY <2>1 DEF Unshared
    <3>1. registry["old"] # 0 /\ registry["new"] = 0 /\ ident["old"] = 0
      BY <1>2, <2>1, <2>4 DEF Decided
    <3>2. registry'["new"] = registry["old"] /\ registry'["old"] = 0
      BY <1>1, <2>4 DEF MoveRegistry, Moved
    <3>3. RegistryOf("new")' = registry["old"] /\ RegistryOf("old")' = 0
      BY <2>2, <3>2 DEF RegistryOf
    <3>4. \A d \in Dirs : Belongs(d, RegistryOf(d))
      BY <1>2 DEF Unshared, Identified
    <3>5. Belongs("old", 0)'
      BY <1>1, <2>1, <3>1 DEF Belongs
    <3>6. Belongs("new", registry["old"])
      <4>1. CASE Split
        <5>1. RegistryOf("new") = registry["old"]
          BY <4>1 DEF RegistryOf
        <5> QED
          BY <1>1, <3>4, <5>1
      <4>2. CASE ~Split
        <5>1. Belongs("new", 0) /\ Belongs("old", registry["old"])
          BY <1>1, <3>1, <3>4, <4>2 DEF RegistryOf
        <5>2. registry["old"] \in Regs
          BY <1>1, <3>1, CountAssumption DEF Regs
        <5>3. owners[registry["old"]] = {}
          BY <1>1, <3>1, <5>1, <5>2 DEF Belongs
        <5>4. \A r \in Regs : ident["new"] \notin owners[r]
          BY <5>1, CountAssumption DEF Belongs, Regs
        <5> QED
          BY <5>3, <5>4 DEF Belongs
      <4> QED
        BY <4>1, <4>2
    <3>7. Belongs("new", RegistryOf("new"))' /\ Belongs("old", RegistryOf("old"))'
      BY <2>1, <3>3, <3>5, <3>6 DEF Belongs
    <3> QED
      BY <1>1, <1>2, <2>1, <3>7 DEF Unshared, Identified, NoSharedIdentity
  <2> QED
    BY <2>3, <2>4
<1>12. \A c \in Clients : Use(c) => Unshared'
  <2> SUFFICES ASSUME NEW c \in Clients, Use(c) PROVE Unshared'
    OBVIOUS
  <2>1. UNCHANGED <<registry, born, owners, torn>> /\ (IdStays \/ IdDrawn(at[c]))
    BY UseCases
  <2>2. pc[c] # "move_registry" /\ pc'[c] # "move_registry"
    BY <1>1, <1>4 DEF Use, Goto, LocalTypes
  <2>3. Split' <=> Split
    BY <2>2, SameSplit DEF Step
  <2>4. CASE IdStays
    BY <1>3, <2>1, <2>3, <2>4 DEF IdStays
  <2>5. CASE IdDrawn(at[c])
    <3> SUFFICES ASSUME ~torn PROVE Identified' /\ NoSharedIdentity'
      BY <2>1 DEF Unshared
    <3>1. /\ at[c] \in Dirs /\ ident[at[c]] = 0 /\ ident'[at[c]] = drawn + 1
          /\ \A d \in Dirs : d # at[c] => ident'[d] = ident[d]
      BY <1>1, <2>5 DEF IdDrawn
    <3>2. \A d \in Dirs : RegistryOf(d)' = RegistryOf(d) /\ Belongs(d, RegistryOf(d))
      BY <1>2, <2>1, <2>3 DEF RegistryOf, Unshared, Identified
    <3>3. \A r \in Regs : drawn + 1 \notin owners[r]
      BY <1>2, CountAssumption DEF Drawn, Inv, TypeOK
    <3>4. RegistryOf(at[c]) # 0 => owners[RegistryOf(at[c])] = {}
      <4>1. RegistryOf(at[c]) # 0 => RegistryOf(at[c]) \in Regs
        BY <1>1, <3>1, CountAssumption DEF RegistryOf, Regs
      <4> QED
        BY <1>1, <3>1, <3>2, <4>1 DEF Belongs
    <3>5. \A d \in Dirs : d = at[c] => Belongs(d, RegistryOf(d))'
      BY <2>1, <3>1, <3>2, <3>3, <3>4 DEF Belongs
    <3>6. \A d \in Dirs : d # at[c] => Belongs(d, RegistryOf(d))'
      BY <2>1, <3>1, <3>2 DEF Belongs
    <3> QED
      BY <1>2, <2>1, <3>5, <3>6 DEF Unshared, Identified, NoSharedIdentity
  <2> QED
    BY <2>1, <2>4, <2>5
<1>13. \A c \in Clients : Record(c) => Unshared'
  <2> SUFFICES ASSUME NEW c \in Clients, Record(c) PROVE Unshared'
    OBVIOUS
  <2>1. pc[c] = "record" /\ ident' = ident /\ torn' = torn /\ at[c] \in Dirs
    BY <1>1 DEF Record
  <2>2. ~Split /\ ~Split'
    <3>1. ~Split
      BY <2>1, Exclusive DEF Split, Migrating
    <3>2. pc'[c] # "move_registry"
      BY <1>1, <1>4 DEF Record, Goto, LocalTypes
    <3> QED
      BY <2>1, <3>1, <3>2, SameSplit DEF Step
  <2>3. CASE Stays /\ UNCHANGED owners
    BY <1>3, <2>1, <2>2, <2>3 DEF Stays
  <2>4. CASE ~(Stays /\ UNCHANGED owners)
    <3> SUFFICES ASSUME ~torn PROVE Identified' /\ NoSharedIdentity'
      BY <2>1 DEF Unshared
    <3>1. PICK r \in Regs :
            /\ registry' = [registry EXCEPT ![at[c]] = r]
            /\ owners' = [owners EXCEPT ![r] = @ \cup {ident[at[c]]}]
            /\ registry[at[c]] \in {0, r}
      <4>1. CASE registry[at[c]] # 0
        <5>1. registry[at[c]] \in Regs
          BY <1>1, <2>1, <4>1, CountAssumption DEF Regs
        <5>2. registry' = registry /\ registry = [registry EXCEPT ![at[c]] = registry[at[c]]]
          BY <1>1, <2>1, <2>4, <4>1, RecordCases DEF Stays, Creates
        <5> QED
          BY <2>4, <4>1, <5>1, <5>2, RecordCases DEF Creates
      <4>2. CASE registry[at[c]] = 0
        <5>1. Creates(at[c]) /\ born + 1 <= MaxReg
              /\ owners' = [owners EXCEPT ![born + 1] = @ \cup {ident[at[c]]}]
          BY <2>4, <4>2, RecordCases
        <5>2. born + 1 \in Regs
          BY <5>1, CountAssumption DEF Regs, Inv, TypeOK
        <5> QED
          BY <4>2, <5>1, <5>2 DEF Creates
      <4> QED
        BY <4>1, <4>2
    <3>2. /\ registry'[at[c]] = r /\ \A d \in Dirs : d # at[c] => registry'[d] = registry[d]
          /\ owners'[r] = owners[r] \cup {ident[at[c]]}
          /\ \A s \in Regs : s # r => owners'[s] = owners[s]
      BY <1>1, <2>1, <3>1
    <3>3. \A d \in Dirs : Belongs(d, registry[d])
      BY <1>2, <2>2 DEF Unshared, Identified, RegistryOf
    <3>4. \A s \in Regs : ident[at[c]] \in owners[s] => s = r
      BY <2>1, <3>1, <3>3, CountAssumption DEF Belongs, Regs
    <3>5. NoSharedIdentity'
      BY <1>2, <3>2, <3>4 DEF Unshared, NoSharedIdentity
    <3>6. \A d \in Dirs : d = at[c] => Belongs(d, registry[d])'
      BY <2>1, <3>2, <3>4 DEF Belongs
    <3>7. \A d \in Dirs : d # at[c] => Belongs(d, registry[d])'
      <4> SUFFICES ASSUME NEW d \in Dirs, d # at[c] PROVE Belongs(d, registry[d])'
        OBVIOUS
      <4>1. registry'[d] = registry[d] /\ registry[d] # r
        BY <1>1, KeptNext, <2>1, <3>2, CountAssumption DEF Kept, Regs
      <4>2. ident[d] # ident[at[c]]
        BY <1>1, <1>2, <2>1 DEF Drawn, Inv, Known
      <4>3. registry[d] # 0 => registry[d] \in Regs
        BY <1>1, CountAssumption DEF Regs
      <4> QED
        BY <2>1, <3>2, <3>3, <4>1, <4>2, <4>3 DEF Belongs
    <3>8. \A d \in Dirs : RegistryOf(d)' = registry'[d]
      BY <2>2 DEF RegistryOf
    <3> QED
      BY <3>5, <3>6, <3>7, <3>8 DEF Identified
  <2> QED
    BY <2>3, <2>4
<1>14. UNCHANGED vars => Unshared'
  BY <1>3 DEF vars, disk, history, local, Split
<1> QED
  BY <1>5, <1>6, <1>7, <1>8, <1>10, <1>11, <1>12, <1>13, <1>14, StepCases

-----------------------------------------------------------------------------
(* The theorems                                                            *)

LEMMA Initial == Init => Inv
<1> SUFFICES ASSUME Init PROVE Inv
  OBVIOUS
<1>1. PICK old \in {0, 1}, id \in {0, 1}, hold \in SUBSET {1} :
        /\ old = 0 => id = 0 /\ hold = {}
        /\ registry = [d \in Dirs |-> IF d = "old" THEN old ELSE 0]
        /\ ident = [d \in Dirs |-> IF d = "old" THEN id ELSE 0]
        /\ holders = [d \in Dirs |-> IF d = "old" THEN hold ELSE {}]
        /\ born = old /\ drawn = id
        /\ owners = [r \in Regs |-> IF r = 1 /\ id = 1 THEN {1} ELSE {}]
  BY DEF Init
<1>2. /\ registry["old"] = old /\ registry["new"] = 0
      /\ ident["old"] = id /\ ident["new"] = 0
      /\ holders["old"] = hold /\ holders["new"] = {}
      /\ \A r \in Regs : owners[r] = IF r = 1 /\ id = 1 THEN {1} ELSE {}
  BY <1>1 DEF Dirs
<1>3. DiskTypes
  <2>1. old \in 0..MaxReg /\ id \in 0..MaxIdent /\ 0 \in 0..MaxReg /\ 0 \in 0..MaxIdent
        /\ 1 \in Regs /\ 1 \in Idents
    BY CountAssumption DEF Regs, Idents
  <2> QED
    BY <1>1, <2>1 DEF DiskTypes
<1>4. LocalTypes
  BY CountAssumption DEF Init, LocalTypes, Dirs
<1>5. trusted \in BOOLEAN /\ torn \in BOOLEAN
  BY Zenon DEF Init
<1>6. TypeOK
  BY <1>3, <1>4, <1>5 DEF TypeOK, DiskTypes, LocalTypes
<1>7. Locked /\ Decided /\ Known
  BY DEF Init, Locked, Decided, Known, Migrating
<1>8. Kept /\ Holding
  BY <1>1, <1>2 DEF Kept, Holding, Dirs
<1>9. Drawn
  BY <1>1, <1>2, CountAssumption DEF Drawn, Dirs, Regs
<1>10. Unshared
  <2>1. ~Split
    BY DEF Init, Split
  <2>2. Identified
    BY <1>1, <1>2, <2>1, CountAssumption DEF Identified, Belongs, RegistryOf, Dirs, Regs
  <2>3. NoSharedIdentity
    BY <1>2 DEF NoSharedIdentity
  <2> QED
    BY <2>2, <2>3 DEF Unshared
<1> QED
  BY <1>6, <1>7, <1>8, <1>9, <1>10 DEF Inv

LEMMA Inductive == ASSUME Inv, [Next]_vars PROVE Inv'
<1>1. TypeOK'
  BY DiskTyped, LocalTyped, FlagsTyped, Zenon DEF TypeOK, DiskTypes, LocalTypes, FlagTypes
<1> QED
  BY <1>1, LockedNext, DecidedNext, KnownNext, KeptNext, HoldingNext, DrawnNext, UnsharedNext
     DEF Inv

LEMMA Holds == Spec => []Inv
<1>1. Inv /\ [Next]_vars => Inv'
  BY Inductive
<1> QED
  BY Initial, <1>1, PTL DEF Spec

\* Every variable keeps its type.
THEOREM TypeCorrect == Spec => []TypeOK
<1>1. Inv => TypeOK
  BY DEF Inv
<1> QED
  BY Holds, <1>1, PTL

\* Only a process that dies between the renames of the identity and of the registry can
\* make two registries record temp roots under one identity (silo.rs:98-101).
THEOREM IdentitiesAreOwn == Spec => []SharedOnlyIfTorn
<1>1. Inv => SharedOnlyIfTorn
  BY DEF Inv, Unshared, SharedOnlyIfTorn
<1> QED
  BY Holds, <1>1, PTL

\* However commands, migrations and deaths interleave, a registry stays in one place,
\* with the identity it used and its own holder records (silo.rs:77-140).
THEOREM FilesMoveTogether == Spec => []MovedTogether
<1>1. ASSUME Inv PROVE MovedTogether
  <2>1. IdentityTravels
    <3> SUFFICES ASSUME ~torn, registry["new"] # 0, owners[registry["new"]] # {}
                 PROVE  ident["new"] \in owners[registry["new"]]
      BY DEF IdentityTravels
    <3>1. ~Split
      BY <1>1 DEF Inv, Split, Decided
    <3>2. Belongs("new", registry["new"])
      BY <1>1, <3>1 DEF Inv, Unshared, Identified, RegistryOf, Dirs
    <3> QED
      BY <3>2 DEF Belongs
  <2>2. HoldersOfTheirRegistry
    BY <1>1 DEF Inv, Holding, HoldersOfTheirRegistry
  <2>3. RegistryKept
    <3> SUFFICES ASSUME NEW r \in 1..born
                 PROVE  \E d \in Dirs : \A e \in Dirs : registry[e] = r <=> e = d
      BY DEF RegistryKept
    <3>1. r # 0 /\ (registry["old"] = r \/ registry["new"] = r)
          /\ (registry["old"] = registry["new"] => registry["old"] = 0)
      BY <1>1 DEF Inv, Kept
    <3>2. CASE registry["old"] = r
      BY <3>1, <3>2 DEF Dirs
    <3>3. CASE registry["new"] = r
      BY <3>1, <3>3 DEF Dirs
    <3> QED
      BY <3>1, <3>2, <3>3
  <2> QED
    BY <2>1, <2>2, <2>3 DEF MovedTogether
<1>2. Inv => MovedTogether
  BY <1>1
<1> QED
  BY Holds, <1>2, PTL

-----------------------------------------------------------------------------
(* FsTree                                                                  *)

\* No two nodes are above each other, and none is above Top.
LEMMA NoCycle ==
    ASSUME NEW t, TreeTypeOK(t), Rooted(t)
    PROVE  /\ \A a, b \in 1..t.count : a \in t.above[b] /\ b \in t.above[a] => a = b
           /\ \A x \in 1..t.count : x \in t.above[x] /\ Top \in t.above[x]
<1> DEFINE k == t.count
           up == t.up
           above == t.above
<1>1. /\ k \in Nat \ {0} /\ t.dirs \in SUBSET (1..k) /\ RootedBy(k, t.dirs, up, above)
  BY DEF TreeTypeOK, Rooted
<1> HIDE DEF k, up, above
<1>2. /\ above[Top] = {Top} /\ Top \in 1..k
      /\ \A x \in 1..k : x # Top => x \in 2..k
      /\ \A x \in 2..k : /\ x \in 1..k /\ up[x] \in 1..k /\ x \notin above[up[x]]
                         /\ above[x] = {x} \cup above[up[x]] /\ Top \in above[x]
      /\ \A a, b \in 1..k : a \in above[b] => above[a] \subseteq above[b]
  BY <1>1 DEF RootedBy, Top
<1>3. ASSUME NEW a \in 1..k, NEW b \in 1..k, a \in above[b], b \in above[a], a # b
      PROVE  FALSE
  <2>1. b # Top
    BY <1>2, <1>3
  <2>2. a \in above[up[b]] /\ b \notin above[up[b]] /\ up[b] \in 1..k
    BY <1>2, <1>3, <2>1
  <2> QED BY <1>2, <1>3, <2>2
<1>4. \A x \in 1..k : x \in above[x] /\ Top \in above[x]
  BY <1>2
<1> QED
  BY <1>3, <1>4 DEF k, above

\* A new node is a leaf below a directory: above it is what is above its parent.
LEMMA LeafRooted ==
    ASSUME NEW t, NEW u, TreeTypeOK(t), Rooted(t), u.count = t.count + 1,
           NEW d \in t.dirs, t.dirs \subseteq u.dirs,
           u.up = [x \in 1..u.count |-> IF x = u.count THEN d ELSE t.up[x]],
           u.above = [x \in 1..u.count |-> IF x = u.count THEN t.above[d] \cup {u.count}
                                           ELSE t.above[x]]
    PROVE  Rooted(u)
<1> DEFINE k == t.count
           dirs == t.dirs
           up == t.up
           above == t.above
           n == u.count
           more == u.dirs
           uq == u.up
           aq == u.above
<1>a. /\ k \in Nat \ {0} /\ dirs \in SUBSET (1..k) /\ up \in [1..k -> 0..k]
      /\ above \in [1..k -> SUBSET (1..k)] /\ RootedBy(k, dirs, up, above)
      /\ d \in dirs /\ dirs \subseteq more /\ n = k + 1
      /\ uq = [x \in 1..n |-> IF x = n THEN d ELSE up[x]]
      /\ aq = [x \in 1..n |-> IF x = n THEN above[d] \cup {n} ELSE above[x]]
  BY DEF TreeTypeOK, Rooted
<1> HIDE DEF k, dirs, up, above, n, more, uq, aq
<1>1. /\ n \in Nat \ {0} /\ n \notin 1..k /\ 1..n = (1..k) \cup {n} /\ 2..n = (2..k) \cup {n}
      /\ n # Top /\ Top \in 1..k /\ n \in 1..n /\ d \in 1..k
      /\ \A x \in 1..k : n \notin above[x]
  <2>1. k \in Nat \ {0} /\ n = k + 1
    BY <1>a
  <2>2. d \in 1..k /\ \A x \in 1..k : above[x] \subseteq 1..k
    BY <1>a
  <2> QED BY <2>1, <2>2 DEF Top
<1>2. \A x \in 1..k : uq[x] = up[x] /\ aq[x] = above[x]
  BY <1>1, <1>a
<1>3. uq[n] = d /\ aq[n] = above[d] \cup {n}
  BY <1>1, <1>a
<1>4. /\ up[Top] = 0 /\ above[Top] = {Top}
      /\ \A x \in 2..k : /\ x \in 1..k /\ up[x] \in dirs /\ up[x] \in 1..k /\ x \notin above[up[x]]
                         /\ above[x] = {x} \cup above[up[x]] /\ Top \in above[x]
      /\ \A a, b \in 1..k : a \in above[b] => above[a] \subseteq above[b]
  BY <1>a DEF RootedBy
<1>5. uq[Top] = 0 /\ aq[Top] = {Top}
  BY <1>1, <1>2, <1>4
<1>6. \A x \in 2..n : /\ uq[x] \in more /\ x \notin aq[uq[x]]
                      /\ aq[x] = {x} \cup aq[uq[x]] /\ Top \in aq[x]
  <2> TAKE x \in 2..n
  <2>1. CASE x = n
    <3>1. Top \in above[d]
      BY <1>1, NoCycle DEF k, above
    <3> QED BY <2>1, <3>1, <1>a, <1>1, <1>2, <1>3
  <2>2. CASE x \in 2..k
    BY <2>2, <1>a, <1>1, <1>2, <1>4
  <2> QED BY <2>1, <2>2, <1>1
<1>7. \A a, b \in 1..n : a \in aq[b] => aq[a] \subseteq aq[b]
  <2> SUFFICES ASSUME NEW a \in 1..n, NEW b \in 1..n, a \in aq[b] PROVE aq[a] \subseteq aq[b]
    OBVIOUS
  <2>1. CASE a = b
    BY <2>1
  <2>2. CASE a # b /\ b = n
    <3>1. a \in 1..k /\ a \in above[d]
      BY <2>2, <1>1, <1>3
    <3> QED BY <2>2, <3>1, <1>1, <1>2, <1>3, <1>4
  <2>3. CASE a # b /\ b \in 1..k
    <3>1. a \in 1..k /\ a \in above[b]
      BY <2>3, <1>1, <1>2
    <3> QED BY <2>3, <3>1, <1>2, <1>4
  <2> QED BY <2>1, <2>2, <2>3, <1>1
<1>8. RootedBy(n, more, uq, aq)
  BY <1>5, <1>6, <1>7 DEF RootedBy
<1> QED
  BY <1>8 DEF Rooted, n, more, uq, aq

\* A node goes to a directory that it is not above, and takes what is below it along.
LEMMA MovedRooted ==
    ASSUME NEW t, NEW u, TreeTypeOK(t), Rooted(t), u.count = t.count, u.dirs = t.dirs,
           NEW n \in 2..t.count, NEW d \in t.dirs, n \notin t.above[d],
           u.up = [t.up EXCEPT ![n] = d], u.above = AboveMoved(t.count, t.above, n, d)
    PROVE  Rooted(u) /\ u.above \in [1..u.count -> SUBSET (1..u.count)]
<1> DEFINE k == t.count
           dirs == t.dirs
           up == t.up
           above == t.above
           uq == u.up
           aq == u.above
<1>a. /\ k \in Nat \ {0} /\ dirs \in SUBSET (1..k) /\ up \in [1..k -> 0..k]
      /\ above \in [1..k -> SUBSET (1..k)] /\ RootedBy(k, dirs, up, above)
      /\ n \in 2..k /\ d \in dirs /\ n \notin above[d] /\ u.count = k /\ u.dirs = dirs
      /\ uq = [up EXCEPT ![n] = d] /\ aq = AboveMoved(k, above, n, d)
  BY DEF TreeTypeOK, Rooted
<1> HIDE DEF k, dirs, up, above, uq, aq
<1>1. n \in 1..k /\ n # Top /\ Top \in 1..k /\ d \in 1..k
  BY <1>a DEF Top
<1>2. uq[n] = d /\ \A x \in 1..k : x # n => uq[x] = up[x]
  BY <1>a, <1>1
<1>3. \A x \in 1..k :
        aq[x] = IF n \in above[x] THEN {a \in above[x] : n \in above[a]} \cup above[d] ELSE above[x]
  BY <1>a DEF AboveMoved
<1>4. aq \in [1..k -> SUBSET (1..k)]
  <2>1. \A x \in 1..k : aq[x] \in SUBSET (1..k)
    BY <1>a, <1>1, <1>3
  <2> QED BY <2>1, <1>a DEF AboveMoved
<1>5. /\ up[Top] = 0 /\ above[Top] = {Top}
      /\ \A x \in 2..k : /\ x \in 1..k /\ up[x] \in dirs /\ up[x] \in 1..k /\ x \notin above[up[x]]
                         /\ above[x] = {x} \cup above[up[x]] /\ Top \in above[x]
      /\ \A a, b \in 1..k : a \in above[b] => above[a] \subseteq above[b]
  BY <1>a DEF RootedBy
<1>6. /\ \A a, b \in 1..k : a \in above[b] /\ b \in above[a] => a = b
      /\ \A x \in 1..k : x \in above[x] /\ Top \in above[x]
  BY NoCycle DEF k, above
<1>7. \A x \in 1..k : above[x] \subseteq 1..k
  BY <1>a
<1>8. aq[d] = above[d] /\ \A a \in above[d] : a \in 1..k /\ aq[a] = above[a] /\ n \notin above[a]
  BY <1>a, <1>1, <1>3, <1>5, <1>7
<1>9. uq[Top] = 0 /\ aq[Top] = {Top}
  BY <1>a, <1>1, <1>2, <1>3, <1>5
<1>10. \A x \in 2..k : /\ uq[x] \in dirs /\ x \notin aq[uq[x]]
                       /\ aq[x] = {x} \cup aq[uq[x]] /\ Top \in aq[x]
  <2> TAKE x \in 2..k
  <2>0. x \in 1..k /\ up[x] \in 1..k
    BY <1>5
  <2>1. CASE x = n
    <3>1. {a \in above[n] : n \in above[a]} = {n}
      BY <1>1, <1>6, <1>7
    <3>2. aq[n] = {n} \cup above[d]
      BY <3>1, <1>1, <1>3, <1>6
    <3>3. uq[n] = d /\ aq[d] = above[d] /\ Top \in above[d] /\ d \in dirs
      BY <1>a, <1>1, <1>2, <1>6, <1>8
    <3> QED BY <2>1, <3>2, <3>3, <1>a
  <2>2. CASE x # n /\ n \in above[x]
    <3>1. n \in above[up[x]] /\ uq[x] = up[x]
      BY <2>0, <2>2, <1>2, <1>5
    <3>2. aq[x] = {a \in above[x] : n \in above[a]} \cup above[d]
      BY <2>0, <2>2, <1>3
    <3>3. aq[up[x]] = {a \in above[up[x]] : n \in above[a]} \cup above[d]
      BY <2>0, <3>1, <1>3
    <3>4. x \notin above[d]
      BY <2>0, <2>2, <1>8
    <3>5. above[x] = {x} \cup above[up[x]] /\ x \notin above[up[x]] /\ up[x] \in dirs
      BY <1>5
    <3>6. Top \in above[d]
      BY <1>1, <1>6
    <3>7. aq[x] = {x} \cup aq[up[x]]
      BY <2>2, <3>2, <3>3, <3>5
    <3> QED BY <3>1, <3>2, <3>3, <3>4, <3>5, <3>6, <3>7
  <2>3. CASE n \notin above[x]
    <3>1. x # n /\ n \notin above[up[x]] /\ uq[x] = up[x]
      BY <2>0, <2>3, <1>2, <1>5, <1>6
    <3>2. aq[x] = above[x] /\ aq[up[x]] = above[up[x]]
      BY <2>0, <2>3, <3>1, <1>3
    <3> QED BY <3>1, <3>2, <1>5
  <2> QED BY <2>1, <2>2, <2>3
<1>11. \A a, b \in 1..k : a \in aq[b] => aq[a] \subseteq aq[b]
  <2> SUFFICES ASSUME NEW a \in 1..k, NEW b \in 1..k, a \in aq[b] PROVE aq[a] \subseteq aq[b]
    OBVIOUS
  <2>1. CASE n \notin above[b]
    <3>1. a \in above[b] /\ aq[b] = above[b]
      BY <2>1, <1>3
    <3>2. n \notin above[a] /\ aq[a] = above[a]
      BY <3>1, <2>1, <1>3, <1>5
    <3> QED BY <3>1, <3>2, <1>5
  <2>2. CASE n \in above[b] /\ a \in above[d]
    <3>1. aq[b] = {y \in above[b] : n \in above[y]} \cup above[d]
      BY <2>2, <1>3
    <3>2. aq[a] = above[a] /\ above[a] \subseteq above[d]
      BY <2>2, <1>1, <1>5, <1>8
    <3> QED BY <3>1, <3>2
  <2>3. CASE n \in above[b] /\ a \notin above[d]
    <3>1. aq[b] = {y \in above[b] : n \in above[y]} \cup above[d]
      BY <2>3, <1>3
    <3>2. a \in above[b] /\ n \in above[a]
      BY <2>3, <3>1
    <3>3. aq[a] = {y \in above[a] : n \in above[y]} \cup above[d]
      BY <3>2, <1>3
    <3> QED BY <3>1, <3>2, <3>3, <1>5
  <2> QED BY <2>1, <2>2, <2>3
<1>12. RootedBy(k, dirs, uq, aq)
  BY <1>9, <1>10, <1>11 DEF RootedBy
<1> QED
  BY <1>4, <1>12, <1>a DEF Rooted, uq, aq

\* The parts of a tree, with the types that its count gives them.
LEMMA TreeParts ==
    ASSUME NEW t, OneTree(t)
    PROVE  /\ t.count \in Nat \ {0} /\ t.dirs \in SUBSET (1..t.count) /\ t.dead \subseteq t.dirs
           /\ t.up \in [1..t.count -> 0..t.count] /\ t.above \in [1..t.count -> SUBSET (1..t.count)]
           /\ RootedBy(t.count, t.dirs, t.up, t.above)
           /\ \A e \in t.entries : /\ e.dir \in t.dirs /\ e.node \in 1..t.count
                                   /\ e = Entry(e.dir, e.name, e.node)
BY DEF OneTree, TreeTypeOK, Rooted

\* What push_node makes is a tree.
LEMMA MakeKeeps ==
    ASSUME NEW t, NEW u, OneTree(t), NEW d, NEW c, NodeMade(t, u, d, c)
    PROVE  OneTree(u)
<1> DEFINE n == u.count
<1>1. /\ n = t.count + 1 /\ t.count \in Nat \ {0} /\ n \in Nat \ {0} /\ n \notin 1..t.count
      /\ 1..n = (1..t.count) \cup {n} /\ n # Top
  BY TreeParts DEF NodeMade, Top
<1>2. d \in t.dirs /\ d \in 1..t.count /\ t.above[d] \cap t.dead = {} /\ d \in t.above[d]
  <2>1. d \in t.dirs /\ d \in 1..t.count /\ t.above[d] \cap t.dead = {}
    BY TreeParts DEF NodeMade, Live
  <2> QED BY <2>1, NoCycle DEF OneTree
<1>3. /\ u.up = [x \in 1..n |-> IF x = n THEN d ELSE t.up[x]]
      /\ u.above = [x \in 1..n |-> IF x = n THEN t.above[d] \cup {n} ELSE t.above[x]]
      /\ u.entries = t.entries \cup {Entry(d, c, n)}
      /\ u.dead = t.dead /\ At(t, d, c) = {}
      /\ u.dirs = t.dirs \/ u.dirs = t.dirs \cup {n}
  BY DEF NodeMade
<1> HIDE DEF n
<1>4. TreeTypeOK(u)
  <2>1. u.up \in [1..n -> 0..n] /\ u.above \in [1..n -> SUBSET (1..n)]
    <3>1. 0..t.count \subseteq 0..n /\ 1..t.count \subseteq 1..n /\ d \in 0..n /\ n \in 1..n
      BY <1>1, <1>2
    <3> QED BY <1>1, <1>2, <1>3, <3>1, TreeParts
  <2>2. u.dirs \subseteq 1..n /\ u.dead \subseteq u.dirs
    BY <1>1, <1>3, TreeParts
  <2>3. \A e \in u.entries : e.dir \in u.dirs /\ e.node \in 1..n /\ e = Entry(e.dir, e.name, e.node)
    BY <1>1, <1>2, <1>3, TreeParts DEF Entry
  <2> QED BY <1>1, <2>1, <2>2, <2>3 DEF TreeTypeOK, n
<1>5. Rooted(u)
  <2>1. t.dirs \subseteq u.dirs
    BY <1>3
  <2> QED BY <1>1, <1>2, <1>3, <2>1, LeafRooted DEF OneTree, n
<1>6. Named(u)
  <2>1. \A e \in t.entries : e.node \in 1..t.count /\ e.dir \in 1..t.count /\ e.node # n
    BY <1>1, TreeParts
  <2>2. Entry(d, c, n).dir = d /\ Entry(d, c, n).name = c /\ Entry(d, c, n).node = n
    BY DEF Entry
  <2>3. \A e \in t.entries : ~(e.dir = d /\ e.name = c)
    BY <1>3 DEF At
  <2>4. u.up[n] = d /\ \A x \in 1..t.count : u.up[x] = t.up[x]
    BY <1>1, <1>3
  <2>5. \A e \in u.entries : e.node # Top /\ u.up[e.node] = e.dir
    BY <1>1, <1>3, <2>1, <2>2, <2>4 DEF OneTree, Named
  <2>6. \A e, f \in u.entries :
          e.node = f.node \/ (e.dir = f.dir /\ e.name = f.name) => e = f
    BY <1>3, <2>1, <2>2, <2>3 DEF OneTree, Named
  <2> QED BY <2>5, <2>6 DEF Named
<1>7. RemovedAreEmpty(u)
  <2>1. Entry(d, c, n).dir = d /\ Entry(d, c, n).node = n
    BY DEF Entry
  <2>2. n \notin t.dead /\ n \notin t.dirs /\ d \notin t.dead
    BY <1>1, <1>2, TreeParts
  <2> QED BY <1>1, <1>3, <2>1, <2>2 DEF OneTree, RemovedAreEmpty
<1> QED
  BY <1>4, <1>5, <1>6, <1>7 DEF OneTree

\* The node that loses its name has no names in it, so the removed stay empty.
LEMMA RemoveKeeps ==
    ASSUME NEW t, NEW u, OneTree(t), NEW e \in t.entries, NameRemoved(t, u, e)
    PROVE  OneTree(u)
<1>1. u.count = t.count /\ u.dirs = t.dirs /\ u.up = t.up /\ u.above = t.above
  BY DEF NameRemoved
<1>2. /\ u.entries = t.entries \ {e} /\ u.dead = t.dead \cup ({e.node} \cap t.dirs)
      /\ \A f \in t.entries : f.dir # e.node
  BY DEF NameRemoved, Under
<1>3. TreeTypeOK(u)
  BY <1>1, <1>2 DEF OneTree, TreeTypeOK
<1>4. Rooted(u)
  BY <1>1 DEF OneTree, Rooted
<1>5. Named(u)
  BY <1>1, <1>2 DEF OneTree, Named
<1>6. RemovedAreEmpty(u)
  <2>1. e.node # Top /\ \A f \in t.entries : f.node = e.node => f = e
    BY DEF OneTree, Named
  <2> QED BY <1>1, <1>2, <2>1 DEF OneTree, RemovedAreEmpty
<1> QED
  BY <1>3, <1>4, <1>5, <1>6 DEF OneTree

\* The moved node's name goes where none of what is below it is, and what it
\* replaces is empty.
LEMMA MoveKeeps ==
    ASSUME NEW t, NEW u, OneTree(t), NEW e \in t.entries, NEW d, NEW c, NodeMoved(t, u, e, d, c)
    PROVE  OneTree(u)
<1> DEFINE n == e.node
<1>1. u.count = t.count /\ u.dirs = t.dirs
  BY DEF NodeMoved
<1>2. /\ n \in 2..t.count /\ n \in 1..t.count /\ n # Top /\ t.up[n] = e.dir
      /\ Top \in 1..t.count /\ t.count \in Nat
  BY TreeParts DEF OneTree, Named, Top
<1>3. /\ d \in t.dirs /\ d \in 1..t.count /\ t.above[d] \cap t.dead = {} /\ d \in t.above[d]
      /\ n \notin t.above[d]
  <2>1. d \in t.dirs /\ d \in 1..t.count /\ t.above[d] \cap t.dead = {} /\ n \notin t.above[d]
    BY TreeParts DEF NodeMoved, Live
  <2> QED BY <2>1, NoCycle DEF OneTree
<1>4. /\ \A old \in At(t, d, c) : Replaces(t, n, old.node)
      /\ u.entries = (t.entries \ ({e} \cup At(t, d, c))) \cup {Entry(d, c, n)}
      /\ u.dead = t.dead \cup ({old.node : old \in At(t, d, c)} \cap t.dirs)
      /\ u.up = [t.up EXCEPT ![n] = d]
      /\ u.above = AboveMoved(t.count, t.above, n, d)
  BY DEF NodeMoved
<1>5. /\ e.node = n
      /\ Entry(d, c, n).dir = d /\ Entry(d, c, n).name = c /\ Entry(d, c, n).node = n
      /\ \A g \in t.entries : g.node = n => g = e
      /\ \A g \in t.entries : g.dir = d /\ g.name = c => g \in At(t, d, c)
  BY DEF Entry, At, OneTree, Named
<1> HIDE DEF n
<1>6. Rooted(u) /\ u.above \in [1..t.count -> SUBSET (1..t.count)]
  BY <1>1, <1>2, <1>3, <1>4, MovedRooted DEF OneTree
<1>7. u.up[n] = d /\ \A x \in 1..t.count : x # n => u.up[x] = t.up[x]
  BY <1>2, <1>4, TreeParts
<1>8. TreeTypeOK(u)
  <2>1. u.up \in [1..t.count -> 0..t.count]
    <3>1. d \in 0..t.count
      BY <1>2, <1>3
    <3> QED BY <3>1, <1>2, <1>4, TreeParts
  <2>2. u.dead \subseteq t.dirs
    BY <1>4, TreeParts
  <2>3. \A g \in u.entries :
          g.dir \in t.dirs /\ g.node \in 1..t.count /\ g = Entry(g.dir, g.name, g.node)
    BY <1>2, <1>3, <1>4, TreeParts DEF Entry
  <2> QED BY <1>1, <1>6, <2>1, <2>2, <2>3, TreeParts DEF TreeTypeOK
<1>10. Named(u)
  <2>1. \A g \in u.entries : g.node # Top /\ u.up[g.node] = g.dir
    <3>1. \A g \in t.entries : g.node \in 1..t.count /\ g.node # Top /\ t.up[g.node] = g.dir
      BY TreeParts DEF OneTree, Named
    <3> QED BY <3>1, <1>2, <1>4, <1>5, <1>7
  <2>2. \A g, h \in u.entries :
          g.node = h.node \/ (g.dir = h.dir /\ g.name = h.name) => g = h
    BY <1>4, <1>5 DEF OneTree, Named
  <2> QED BY <2>1, <2>2 DEF Named
<1>11. RemovedAreEmpty(u)
  <2>1. \A old \in At(t, d, c) : /\ old \in t.entries /\ old.node # n /\ old.node # d
                                 /\ \A g \in t.entries : g.dir # old.node
    <3>1. \A old \in At(t, d, c) : /\ old \in t.entries /\ old.node # n /\ old.dir = d
                                   /\ \A g \in t.entries : g.dir # old.node
      BY <1>4 DEF Replaces, Under, At
    <3> QED BY <3>1
  <2>2. \A x \in t.dirs \ {Top} : x \in u.dead <=> \A g \in u.entries : g.node # x
    <3> TAKE x \in t.dirs \ {Top}
    <3>1. x \in t.dead <=> \A g \in t.entries : g.node # x
      BY DEF OneTree, RemovedAreEmpty
    <3>2. CASE x = n
      BY <3>1, <3>2, <2>1, <1>4, <1>5
    <3>3. CASE \E old \in At(t, d, c) : old.node = x
      <4>1. PICK old \in At(t, d, c) : old.node = x
        BY <3>3
      <4>2. \A g \in t.entries : g.node = x => g = old
        BY <4>1, <2>1 DEF OneTree, Named
      <4> QED BY <4>1, <4>2, <2>1, <1>4, <1>5
    <3>4. CASE x # n /\ \A old \in At(t, d, c) : old.node # x
      BY <3>1, <3>4, <1>4, <1>5
    <3> QED BY <3>2, <3>3, <3>4
  <2>3. Top \notin u.dead /\ \A g \in u.entries : g.dir \notin u.dead
    <3>1. d \notin t.dead /\ \A g \in t.entries : g.node # Top
      BY <1>3 DEF OneTree, Named
    <3>2. \A old \in At(t, d, c) : old \in t.entries
      BY DEF At
    <3> QED BY <2>1, <3>1, <3>2, <1>4, <1>5 DEF OneTree, RemovedAreEmpty
  <2> QED BY <1>1, <2>2, <2>3 DEF RemovedAreEmpty
<1> QED
  BY <1>6, <1>8, <1>10, <1>11 DEF OneTree

\* Every edit makes a tree of a tree.
LEMMA EditKeeps == ASSUME NEW t, NEW u, OneTree(t), Edit(t, u) PROVE OneTree(u)
BY MakeKeeps, RemoveKeeps, MoveKeeps DEF Edit

\* An edit or a step that edits nothing keeps the tree one.
LEMMA TreeKept == OneTree(tree) /\ [TreeNext]_tree => OneTree(tree)'
BY EditKeeps DEF TreeNext

\* The nodes have their types, whatever was made, removed and renamed.
THEOREM TreeTypeCorrect == TreeSpec => []TreeTypeOK(tree)
<1>1. TreeInit => OneTree(tree)
  BY DEF TreeInit
<1>2. OneTree(tree) => TreeTypeOK(tree)
  BY DEF OneTree
<1> QED
  BY <1>1, <1>2, TreeKept, PTL DEF TreeSpec

\* Through any number of creations, removals and renames, replacing or not, the
\* nodes of the model stay one tree: is_descendant and is_detached, which follow
\* the parents, end at Top and go through no node twice, a name's parent is the
\* directory that holds it, and a directory without a name was removed and stays
\* empty.
THEOREM NodesStayATree == TreeSpec => []OneTree(tree)
<1>1. TreeInit => OneTree(tree)
  BY DEF TreeInit
<1> QED
  BY <1>1, TreeKept, PTL DEF TreeSpec

-----------------------------------------------------------------------------
(* FsModel: what is above a node                                           *)

\* Among some subsets of a finite set, one holds no other.
LEMMA SmallestSet ==
    ASSUME NEW S, IsFiniteSet(S), NEW W \in SUBSET (SUBSET S), W # {}
    PROVE  \E low \in W : \A w \in W : w \subseteq low => w = low
<1>1. IsWellFoundedOn(StrictSubsetOrdering(S), SUBSET S)
  BY FS_StrictSubsetOrderingWellFounded, FS_FiniteSubsetsOfFinite
<1>2. \E x \in W : \A y \in W : <<y, x>> \notin StrictSubsetOrdering(S)
  BY <1>1, WFMin
<1>3. \A y, x \in W : y \subseteq x /\ y # x => <<y, x>> \in StrictSubsetOrdering(S)
  BY DEF StrictSubsetOrdering
<1> QED
  BY <1>2, <1>3

\* is_descendant and is_detached follow the parents.  In a tree they end, so
\* what they find is what the equation of Ancestors says, and nothing else.
AboveOf(s) == [x \in DOMAIN s.nodes |-> Ancestors(s, x)]

\* In a rooted tree the ancestors that the recursive function computes are
\* those the tree says: the function is well defined and follows the parents.
LEMMA AncestorsAre ==
    ASSUME NEW s, NEW t, TreeTypeOK(t), Rooted(t), DOMAIN s.nodes = 1..t.count,
           \A x \in 1..t.count : s.nodes[x].up = t.up[x]
    PROVE  AboveOf(s) = t.above
<1> DEFINE k == t.count
           G == t.above
           up == t.up
           P(f) == f = [x \in DOMAIN s.nodes |->
                          {x} \cup IF s.nodes[x].up = 0 THEN {} ELSE f[s.nodes[x].up]]
           F == CHOOSE f : P(f)
<1>1. /\ k \in Nat \ {0} /\ up \in [1..k -> 0..k] /\ G \in [1..k -> SUBSET (1..k)]
      /\ t.dirs \in SUBSET (1..k) /\ RootedBy(k, t.dirs, up, G)
  BY DEF TreeTypeOK, Rooted
<1>2. \A x \in 1..k : s.nodes[x].up = up[x]
  OBVIOUS
<1>3. DOMAIN s.nodes = 1..k
  OBVIOUS
<1>4. P(G)
  <2> HIDE DEF k, G, up
  <2>1. ASSUME NEW x \in 1..k
        PROVE  G[x] = {x} \cup IF up[x] = 0 THEN {} ELSE G[up[x]]
    <3>1. CASE x = Top
      BY <3>1, <1>1 DEF RootedBy, Top
    <3>2. CASE x \in 2..k
      BY <3>2, <1>1 DEF RootedBy
    <3> QED BY <3>1, <3>2, <1>1 DEF Top
  <2>2. G = [x \in 1..k |-> {x} \cup IF up[x] = 0 THEN {} ELSE G[up[x]]]
    BY <2>1, <1>1
  <2>3. G = [x \in 1..k |-> {x} \cup IF s.nodes[x].up = 0 THEN {} ELSE G[s.nodes[x].up]]
    BY <2>2, <1>2
  <2> QED BY <2>3, <1>3
<1>5. P(F)
  <2>1. \E f : P(f)
    BY <1>4
  <2> HIDE DEF P
  <2> QED BY <2>1, Zenon
<1>6. \A n : Ancestors(s, n) = F[n]
  BY DEF Ancestors
<1> HIDE DEF P, F, k, G, up
<1>7. F = [x \in 1..k |-> {x} \cup IF up[x] = 0 THEN {} ELSE F[up[x]]]
  BY <1>2, <1>3, <1>5 DEF P
<1>8. \A x \in 1..k : F[x] = G[x]
  <2> SUFFICES ASSUME \E x \in 1..k : F[x] # G[x] PROVE FALSE
    OBVIOUS
  <2> DEFINE Bad == {x \in 1..k : F[x] # G[x]}
             W == {G[x] : x \in Bad}
  <2>1. PICK low \in W : \A w \in W : w \subseteq low => w = low
    <3> DEFINE S == 1..k
    <3>1. W # {} /\ W \in SUBSET (SUBSET S)
      BY <1>1
    <3>2. IsFiniteSet(1..k)
      <4>1. 1 \in Int /\ k \in Int
        BY <1>1
      <4> HIDE DEF k
      <4> QED BY <4>1, FS_Interval
    <3>3. IsFiniteSet(S)
      BY <3>2
    <3> HIDE DEF W, S
    <3> QED BY <3>1, <3>3, SmallestSet
  <2>2. PICK x \in 1..k : F[x] # G[x] /\ low = G[x]
    BY <2>1
  <2>3. \A y \in 1..k : G[y] \subseteq G[x] /\ G[y] # G[x] => F[y] = G[y]
    BY <2>1, <2>2
  <2>4. F[x] = {x} \cup IF up[x] = 0 THEN {} ELSE F[up[x]]
    BY <1>7
  <2>5. CASE x = Top
    BY <2>2, <2>4, <2>5, <1>1 DEF RootedBy, Top
  <2>6. CASE x \in 2..k
    <3>1. /\ up[x] \in 1..k /\ up[x] # 0 /\ x \notin G[up[x]] /\ G[x] = {x} \cup G[up[x]]
      BY <2>6, <1>1 DEF RootedBy
    <3>2. F[up[x]] = G[up[x]]
      BY <3>1, <2>3
    <3> QED BY <3>1, <3>2, <2>2, <2>4
  <2> QED BY <2>5, <2>6, <1>1 DEF Top
<1>9. AboveOf(s) = [x \in 1..k |-> F[x]]
  BY <1>3, <1>6 DEF AboveOf
<1>10. AboveOf(s) = G
  BY <1>1, <1>8, <1>9
<1> QED
  BY <1>10 DEF G

-----------------------------------------------------------------------------
(* FsModel: the shape of a model, and what the edits of nodes leave of it  *)

\* The fields of a node, and of the model: records, sequences and functions.
NodeShape(x) ==
    /\ x = [kind |-> x.kind, link |-> x.link, up |-> x.up, kids |-> x.kids, dead |-> x.dead,
            len |-> x.len, over |-> x.over, vup |-> x.vup]
    /\ x.kids = [c \in DOMAIN x.kids |-> x.kids[c]]
ModelShape(s) ==
    /\ s = [mac |-> s.mac, nodes |-> s.nodes, cwd |-> s.cwd, fds |-> s.fds, next |-> s.next]
    /\ Len(s.nodes) \in Nat /\ s.nodes = [n \in 1..Len(s.nodes) |-> s.nodes[n]]
    /\ \A n \in 1..Len(s.nodes) : NodeShape(s.nodes[n])
    /\ s.fds = [f \in DOMAIN s.fds |-> s.fds[f]]

\* What a call leaves of the model when it changes nodes only.
OtherParts(s, t) == t.mac = s.mac /\ t.cwd = s.cwd /\ t.fds = s.fds /\ t.next = s.next

\* Nodes that differ at most in their names, their parent, or being dead.
Alike(x, y) ==
    /\ x.kind = y.kind /\ x.len = y.len
    /\ x.link = y.link /\ x.over = y.over /\ x.vup = y.vup

\* Setting the names, the parent or the mark of a node changes nothing else.
LEMMA NodeEdits ==
    ASSUME NEW x, NodeShape(x), NEW v
    PROVE  /\ v = [c \in DOMAIN v |-> v[c]] =>
                LET y == [x EXCEPT !.kids = v] IN
                NodeShape(y) /\ Alike(x, y) /\ y.kids = v /\ y.up = x.up /\ y.dead = x.dead
           /\ LET y == [x EXCEPT !.up = v] IN
                NodeShape(y) /\ Alike(x, y) /\ y.kids = x.kids /\ y.up = v /\ y.dead = x.dead
           /\ LET y == [x EXCEPT !.dead = v] IN
                NodeShape(y) /\ Alike(x, y) /\ y.kids = x.kids /\ y.up = x.up /\ y.dead = v
BY DEF NodeShape, Alike

\* Entering a name and taking one out leave the other names.
LEMMA KidsShape ==
    ASSUME NEW kids, NEW c, NEW id
    PROVE  /\ LET e == Entered(kids, c, id) IN
              /\ e = [x \in DOMAIN e |-> e[x]] /\ DOMAIN e = DOMAIN kids \cup {c} /\ e[c] = id
              /\ \A x \in DOMAIN kids : x # c => e[x] = kids[x]
           /\ LET e == Without(kids, c) IN
              /\ e = [x \in DOMAIN e |-> e[x]] /\ DOMAIN e = DOMAIN kids \ {c}
              /\ \A x \in DOMAIN e : e[x] = kids[x]
BY DEF Entered, Without

\* One node is put in the place of another.
Put(s, n, y) == [s EXCEPT !.nodes = [s.nodes EXCEPT ![n] = y]]

\* Replacing a node leaves the other nodes and the rest of the model.
LEMMA PutShape ==
    ASSUME NEW s, ModelShape(s), NEW n \in 1..Len(s.nodes), NEW y, NodeShape(y)
    PROVE  LET t == Put(s, n, y) IN
           /\ OtherParts(s, t) /\ ModelShape(t) /\ Len(t.nodes) = Len(s.nodes)
           /\ t.nodes[n] = y /\ \A x \in 1..Len(s.nodes) : x # n => t.nodes[x] = s.nodes[x]
<1> DEFINE k == Len(s.nodes)
           nodes == [s.nodes EXCEPT ![n] = y]
           t == Put(s, n, y)
<1>1. t = [mac |-> s.mac, nodes |-> nodes, cwd |-> s.cwd, fds |-> s.fds, next |-> s.next]
  <2>1. Put(s, n, y) = [s EXCEPT !.nodes = nodes]
    BY DEF Put
  <2>2. s = [mac |-> s.mac, nodes |-> s.nodes, cwd |-> s.cwd, fds |-> s.fds, next |-> s.next]
    BY DEF ModelShape
  <2> HIDE DEF nodes
  <2> QED BY <2>1, <2>2
<1>2. k \in Nat /\ DOMAIN s.nodes = 1..k
  BY DEF ModelShape
<1>3. nodes = [x \in 1..k |-> nodes[x]] /\ Len(nodes) = k
  BY <1>2
<1>4. nodes[n] = y /\ \A x \in 1..k : x # n => nodes[x] = s.nodes[x]
  BY <1>2
<1> QED
  BY <1>1, <1>3, <1>4 DEF ModelShape, OtherParts

\* Taking a name out of a directory leaves everything else.
LEMMA DropShape ==
    ASSUME NEW s, ModelShape(s), NEW n \in 1..Len(s.nodes), NEW c
    PROVE  LET t == Drop(s, n, c) IN
           /\ OtherParts(s, t) /\ ModelShape(t) /\ Len(t.nodes) = Len(s.nodes)
           /\ \A x \in 1..Len(s.nodes) :
                /\ Alike(s.nodes[x], t.nodes[x])
                /\ t.nodes[x].up = s.nodes[x].up /\ t.nodes[x].dead = s.nodes[x].dead
                /\ x # n => t.nodes[x].kids = s.nodes[x].kids
           /\ t.nodes[n].kids = Without(s.nodes[n].kids, c)
<1> DEFINE K == Without(s.nodes[n].kids, c)
           y == [s.nodes[n] EXCEPT !.kids = K]
<1>1. Drop(s, n, c) = Put(s, n, y)
  BY DEF Drop, Put, ModelShape
<1>2. K = [x \in DOMAIN K |-> K[x]]
  BY DEF Without
<1> HIDE DEF K
<1>3. /\ NodeShape(y) /\ Alike(s.nodes[n], y) /\ y.kids = K /\ y.up = s.nodes[n].up
      /\ y.dead = s.nodes[n].dead
  BY <1>2, NodeEdits DEF ModelShape
<1> HIDE DEF y
<1>4. LET t == Put(s, n, y) IN
      /\ OtherParts(s, t) /\ ModelShape(t) /\ Len(t.nodes) = Len(s.nodes)
      /\ t.nodes[n] = y /\ \A x \in 1..Len(s.nodes) : x # n => t.nodes[x] = s.nodes[x]
  BY <1>3, PutShape
<1> QED
  BY <1>1, <1>3, <1>4 DEF K, Alike

\* A name is taken away, and a directory that loses it is dead.
LEMMA RemoveShape ==
    ASSUME NEW s, ModelShape(s), NEW spot, spot.node \in 1..Len(s.nodes),
           NEW id \in 1..Len(s.nodes), id = Kids(s, spot.node)[spot.name]
    PROVE  LET t == RemoveEntry(s, spot) IN
           /\ OtherParts(s, t) /\ ModelShape(t) /\ Len(t.nodes) = Len(s.nodes)
           /\ \A x \in 1..Len(s.nodes) :
                /\ Alike(s.nodes[x], t.nodes[x]) /\ t.nodes[x].up = s.nodes[x].up
                /\ t.nodes[x].dead = IF x = id THEN IsDir(s, id) ELSE s.nodes[x].dead
                /\ x # spot.node => t.nodes[x].kids = s.nodes[x].kids
           /\ t.nodes[spot.node].kids = Without(s.nodes[spot.node].kids, spot.name)
<1> DEFINE u == Drop(s, spot.node, spot.name)
           gone == IsDir(s, id)
           y == [u.nodes[id] EXCEPT !.dead = gone]
           t == Put(u, id, y)
           k == Len(s.nodes)
<1>1. /\ OtherParts(s, u) /\ ModelShape(u) /\ Len(u.nodes) = k
      /\ \A x \in 1..k : /\ Alike(s.nodes[x], u.nodes[x])
                         /\ u.nodes[x].up = s.nodes[x].up /\ u.nodes[x].dead = s.nodes[x].dead
                         /\ x # spot.node => u.nodes[x].kids = s.nodes[x].kids
      /\ u.nodes[spot.node].kids = Without(s.nodes[spot.node].kids, spot.name)
  BY DropShape
<1> HIDE DEF u
<1>2. RemoveEntry(s, spot) = t
  BY <1>1 DEF RemoveEntry, Put, ModelShape, u
<1> HIDE DEF gone
<1>3. /\ NodeShape(y) /\ Alike(u.nodes[id], y) /\ y.kids = u.nodes[id].kids
      /\ y.up = u.nodes[id].up /\ y.dead = gone
  <2>1. NodeShape(u.nodes[id])
    BY <1>1 DEF ModelShape
  <2> DEFINE x == u.nodes[id]
  <2> HIDE DEF x
  <2>2. NodeShape(x) /\ y = [x EXCEPT !.dead = gone]
    BY <2>1 DEF x
  <2> HIDE DEF y
  <2>3. NodeShape(y) /\ Alike(x, y) /\ y.kids = x.kids /\ y.up = x.up /\ y.dead = gone
    BY <2>2 DEF NodeShape, Alike
  <2> QED BY <2>3 DEF x
<1> HIDE DEF y
<1>4. /\ OtherParts(u, t) /\ ModelShape(t) /\ Len(t.nodes) = k
      /\ t.nodes[id] = y /\ \A x \in 1..k : x # id => t.nodes[x] = u.nodes[x]
  BY <1>1, <1>3, PutShape
<1> HIDE DEF t
<1>5. OtherParts(s, t)
  BY <1>1, <1>4 DEF OtherParts
<1>6. \A x \in 1..k : /\ Alike(s.nodes[x], t.nodes[x]) /\ t.nodes[x].up = s.nodes[x].up
                      /\ t.nodes[x].kids = u.nodes[x].kids
  <2> SUFFICES ASSUME NEW x \in 1..k
               PROVE  /\ Alike(s.nodes[x], t.nodes[x]) /\ t.nodes[x].up = s.nodes[x].up
                      /\ t.nodes[x].kids = u.nodes[x].kids
    OBVIOUS
  <2>1. CASE x = id
    BY <2>1, <1>1, <1>3, <1>4 DEF Alike
  <2>2. CASE x # id
    BY <2>2, <1>1, <1>4
  <2> QED BY <2>1, <2>2
<1>7. \A x \in 1..k : t.nodes[x].dead = IF x = id THEN gone ELSE s.nodes[x].dead
  BY <1>1, <1>3, <1>4
<1> QED
  BY <1>1, <1>2, <1>4, <1>5, <1>6, <1>7 DEF gone

-----------------------------------------------------------------------------
(* FsModel: the names of a model are the entries of its tree               *)

\* An entry of the tree is a name of a directory with the node it names.
LEMMA EntryIn ==
    ASSUME NEW s, NEW e
    PROVE  e \in TreeOf(s).entries <=>
              /\ e = Entry(e.dir, e.name, e.node) /\ e.dir \in DOMAIN s.nodes
              /\ e.name \in DOMAIN s.nodes[e.dir].kids /\ e.node = s.nodes[e.dir].kids[e.name]
<1>1. e \in TreeOf(s).entries <=>
        \E d \in DOMAIN s.nodes : \E c \in DOMAIN s.nodes[d].kids :
            e = Entry(d, c, s.nodes[d].kids[c])
  BY DEF TreeOf, EntriesOf, Kids, Entry
<1>2. \A d, c, n : /\ Entry(d, c, n).dir = d /\ Entry(d, c, n).name = c /\ Entry(d, c, n).node = n
                   /\ LET g == Entry(d, c, n) IN g = Entry(g.dir, g.name, g.node)
  BY DEF Entry
<1> QED
  BY <1>1, <1>2

\* Equal entries are equal in each part.
LEMMA EntryParts ==
    ASSUME NEW d, NEW c, NEW n
    PROVE  Entry(d, c, n).dir = d /\ Entry(d, c, n).name = c /\ Entry(d, c, n).node = n
BY DEF Entry

\* Taking a name out takes its entry out of the tree and no other.
LEMMA NameDropped ==
    ASSUME NEW s, NEW t, DOMAIN t.nodes = DOMAIN s.nodes,
           NEW n \in DOMAIN s.nodes, NEW c, Has(s, n, c),
           \A x \in DOMAIN s.nodes : x # n => t.nodes[x].kids = s.nodes[x].kids,
           t.nodes[n].kids = Without(s.nodes[n].kids, c)
    PROVE  /\ TreeOf(t).entries = TreeOf(s).entries \ {Entry(n, c, Kids(s, n)[c])}
           /\ Entry(n, c, Kids(s, n)[c]) \in TreeOf(s).entries
<1> DEFINE g == Entry(n, c, Kids(s, n)[c])
<1>1. /\ g.dir = n /\ g.name = c /\ g.node = s.nodes[n].kids[c] /\ g = Entry(g.dir, g.name, g.node)
      /\ c \in DOMAIN s.nodes[n].kids
  BY EntryParts DEF Kids, Has
<1>2. /\ DOMAIN t.nodes[n].kids = DOMAIN s.nodes[n].kids \ {c}
      /\ \A x \in DOMAIN t.nodes[n].kids : t.nodes[n].kids[x] = s.nodes[n].kids[x]
  BY DEF Without
<1> HIDE DEF g
<1>3. g \in TreeOf(s).entries
  BY <1>1, EntryIn
<1>4. ASSUME NEW e PROVE e \in TreeOf(t).entries <=> e \in TreeOf(s).entries /\ e # g
  <2>1. CASE e.dir = n /\ e.name = c
    <3>1. e \notin TreeOf(t).entries
      BY <2>1, <1>2, EntryIn
    <3>2. e \in TreeOf(s).entries => e = g
      BY <2>1, <1>1, EntryIn
    <3> QED BY <3>1, <3>2
  <2>2. CASE e.dir = n /\ e.name # c
    <3>1. e # g
      BY <2>2, <1>1
    <3> QED BY <2>2, <3>1, <1>2, EntryIn
  <2>3. CASE e.dir # n
    <3>1. e # g
      BY <2>3, <1>1
    <3>2. e.dir \in DOMAIN s.nodes => t.nodes[e.dir].kids = s.nodes[e.dir].kids
      BY <2>3
    <3> QED BY <3>1, <3>2, EntryIn
  <2> QED BY <2>1, <2>2, <2>3
<1> QED
  BY <1>3, <1>4 DEF g

\* A name is given to node id, and taken from what had it.
LEMMA NameEntered ==
    ASSUME NEW s, NEW t, DOMAIN s.nodes \subseteq DOMAIN t.nodes,
           NEW n \in DOMAIN s.nodes, NEW c, NEW id,
           \A x \in DOMAIN s.nodes : x # n => t.nodes[x].kids = s.nodes[x].kids,
           \A x \in DOMAIN t.nodes : x \notin DOMAIN s.nodes => DOMAIN t.nodes[x].kids = {},
           t.nodes[n].kids = Entered(s.nodes[n].kids, c, id)
    PROVE  TreeOf(t).entries = (TreeOf(s).entries \ At(TreeOf(s), n, c)) \cup {Entry(n, c, id)}
<1> DEFINE g == Entry(n, c, id)
<1>1. g.dir = n /\ g.name = c /\ g.node = id /\ g = Entry(g.dir, g.name, g.node)
  BY EntryParts
<1>2. /\ DOMAIN t.nodes[n].kids = DOMAIN s.nodes[n].kids \cup {c} /\ t.nodes[n].kids[c] = id
      /\ \A x \in DOMAIN s.nodes[n].kids : x # c => t.nodes[n].kids[x] = s.nodes[n].kids[x]
  BY DEF Entered
<1> HIDE DEF g
<1>3. ASSUME NEW e
      PROVE  e \in TreeOf(t).entries <=>
                e = g \/ (e \in TreeOf(s).entries /\ ~(e.dir = n /\ e.name = c))
  <2>1. CASE e.dir = n /\ e.name = c
    <3>1. e \in TreeOf(t).entries => e = g
      BY <2>1, <1>1, <1>2, EntryIn
    <3>2. g \in TreeOf(t).entries
      BY <1>1, <1>2, EntryIn
    <3> QED BY <2>1, <3>1, <3>2
  <2>2. CASE e.dir = n /\ e.name # c
    <3>1. e # g
      BY <2>2, <1>1
    <3> QED BY <2>2, <3>1, <1>2, EntryIn
  <2>3. CASE e.dir # n
    <3>1. e # g
      BY <2>3, <1>1
    <3>2. e.dir \in DOMAIN s.nodes => t.nodes[e.dir].kids = s.nodes[e.dir].kids
      BY <2>3
    <3>3. e.dir \in DOMAIN t.nodes /\ e.dir \notin DOMAIN s.nodes => DOMAIN t.nodes[e.dir].kids = {}
      OBVIOUS
    <3> QED BY <2>3, <3>1, <3>2, <3>3, EntryIn
  <2> QED BY <2>1, <2>2, <2>3
<1>4. \A e : e \in At(TreeOf(s), n, c) <=> e \in TreeOf(s).entries /\ e.dir = n /\ e.name = c
  BY DEF At
<1> QED
  BY <1>3, <1>4 DEF g

-----------------------------------------------------------------------------
(* FsModel: the edits of nodes are those of the tree                       *)

\* A node is pushed, and named in its parent.
LEMMA AddShape ==
    ASSUME NEW s, ModelShape(s), NEW n \in 1..Len(s.nodes), NEW c, NEW node, NodeShape(node)
    PROVE  LET t == Add(s, n, c, node)
               k == Len(s.nodes)
           IN  /\ OtherParts(s, t) /\ ModelShape(t) /\ Len(t.nodes) = k + 1
               /\ \A x \in 1..k :
                    /\ Alike(s.nodes[x], t.nodes[x])
                    /\ t.nodes[x].up = s.nodes[x].up /\ t.nodes[x].dead = s.nodes[x].dead
                    /\ x # n => t.nodes[x].kids = s.nodes[x].kids
               /\ t.nodes[n].kids = Entered(s.nodes[n].kids, c, k + 1)
               /\ Alike(node, t.nodes[k + 1]) /\ t.nodes[k + 1].up = n
               /\ t.nodes[k + 1].kids = node.kids /\ t.nodes[k + 1].dead = node.dead
<1> DEFINE k == Len(s.nodes)
           K == Entered(s.nodes[n].kids, c, k + 1)
           y == [s.nodes[n] EXCEPT !.kids = K]
           old == [s.nodes EXCEPT ![n] = y]
           new == [node EXCEPT !.up = n]
           all == Append(old, new)
           t == Add(s, n, c, node)
           S == {old[x] : x \in 1..k} \cup {new}
<1>1. t = [mac |-> s.mac, nodes |-> all, cwd |-> s.cwd, fds |-> s.fds, next |-> s.next]
  <2>1. t = [s EXCEPT !.nodes = Append([s.nodes EXCEPT ![n].kids = K], new)]
    BY DEF Add
  <2>2. [s.nodes EXCEPT ![n].kids = K] = old
    OBVIOUS
  <2> HIDE DEF t, K, new, old
  <2> QED BY <2>1, <2>2 DEF ModelShape
<1>2. k \in Nat /\ DOMAIN s.nodes = 1..k
  BY DEF ModelShape
<1>3. NodeShape(y) /\ Alike(s.nodes[n], y) /\ y.kids = K /\ y.up = s.nodes[n].up
      /\ y.dead = s.nodes[n].dead
  <2>1. K = [x \in DOMAIN K |-> K[x]]
    BY DEF Entered
  <2> HIDE DEF K
  <2> QED BY <2>1, NodeEdits DEF ModelShape
<1>4. /\ NodeShape(new) /\ Alike(node, new)
      /\ new.kids = node.kids /\ new.up = n /\ new.dead = node.dead
  BY DEF NodeShape, Alike
<1> HIDE DEF K, y, new, t
<1>5. old[n] = y /\ \A x \in 1..k : x # n => old[x] = s.nodes[x]
  BY <1>2
<1>6. old \in Seq(S) /\ Len(old) = k /\ new \in S
  <2>1. old = [x \in 1..k |-> old[x]]
    BY <1>2
  <2>2. old \in [1..k -> S]
    BY <2>1
  <2> HIDE DEF old, S, k
  <2> QED BY <1>2, <2>2 DEF S
<1> HIDE DEF k, old, S
<1>7. /\ Len(all) = k + 1 /\ all[k + 1] = new /\ \A x \in 1..k : all[x] = old[x]
      /\ all = [x \in 1..(k + 1) |-> all[x]]
  <2>1. Len(all) = k + 1 /\ all[k + 1] = new /\ (\A x \in 1..k : all[x] = old[x]) /\ all \in Seq(S)
    BY <1>6, AppendProperties
  <2> HIDE DEF all
  <2> QED BY <2>1, <1>2
<1> HIDE DEF all
<1>8. OtherParts(s, t) /\ Len(t.nodes) = k + 1 /\ t.nodes = all /\ t.fds = s.fds
  BY <1>1, <1>7 DEF OtherParts
<1>9. \A x \in 1..k : /\ NodeShape(all[x]) /\ Alike(s.nodes[x], all[x])
                      /\ all[x].up = s.nodes[x].up /\ all[x].dead = s.nodes[x].dead
                      /\ x # n => all[x].kids = s.nodes[x].kids
  <2> TAKE x \in 1..k
  <2>1. CASE x = n
    BY <2>1, <1>3, <1>5, <1>7
  <2>2. CASE x # n
    BY <2>2, <1>5, <1>7 DEF ModelShape, Alike, k
  <2> QED BY <2>1, <2>2
<1>10. ModelShape(t)
  <2>1. \A x \in 1..(k + 1) : NodeShape(all[x])
    <3>1. \A x \in 1..(k + 1) : x \in 1..k \/ x = k + 1
      BY <1>2
    <3> QED BY <3>1, <1>4, <1>7, <1>9
  <2>2. s.fds = [f \in DOMAIN s.fds |-> s.fds[f]]
    BY DEF ModelShape
  <2> QED BY <2>1, <2>2, <1>1, <1>2, <1>7, <1>8 DEF ModelShape
<1>11. n \in 1..k
  BY DEF k
<1>12. all[n].kids = K
  BY <1>3, <1>5, <1>7, <1>11
<1> QED
  BY <1>4, <1>7, <1>8, <1>9, <1>10, <1>12 DEF K, k, t

\* The tree of a model: its parts, read off the nodes.
LEMMA TreeIs ==
    ASSUME NEW s, ModelShape(s)
    PROVE  LET t == TreeOf(s)
               k == Len(s.nodes)
           IN  /\ k \in Nat /\ DOMAIN s.nodes = 1..k /\ t.count = k
               /\ t.dirs = {n \in 1..k : IsDirKind(s.nodes[n].kind)}
               /\ \A n \in 1..k : n \in t.dirs <=> IsDir(s, n)
               /\ t.up = [n \in 1..k |-> s.nodes[n].up]
               /\ t.dead = {n \in 1..k : s.nodes[n].dead}
               /\ t.above = AboveOf(s) /\ \A n \in 1..k : t.above[n] = Ancestors(s, n)
<1>1. Len(s.nodes) \in Nat /\ DOMAIN s.nodes = 1..Len(s.nodes)
  BY DEF ModelShape
<1> QED
  BY <1>1 DEF TreeOf, AboveOf, IsDir, Kind

\* What has the parts of a tree is that tree: above follows from the parents.
LEMMA TreeRebuilt ==
    ASSUME NEW s, ModelShape(s), NEW u, OneTree(u), u.count = Len(s.nodes),
           u = [count |-> u.count, dirs |-> u.dirs, up |-> u.up, entries |-> u.entries,
                dead |-> u.dead, above |-> u.above],
           u.dirs = TreeOf(s).dirs, u.up = TreeOf(s).up,
           u.entries = TreeOf(s).entries, u.dead = TreeOf(s).dead
    PROVE  TreeOf(s) = u
<1>1. TreeOf(s) = [count |-> TreeOf(s).count, dirs |-> TreeOf(s).dirs, up |-> TreeOf(s).up,
                   entries |-> TreeOf(s).entries, dead |-> TreeOf(s).dead,
                   above |-> TreeOf(s).above]
  BY DEF TreeOf
<1>2. TreeOf(s).count = u.count /\ DOMAIN s.nodes = 1..u.count
  BY TreeIs
<1>3. \A x \in 1..u.count : s.nodes[x].up = u.up[x]
  <2>1. u.up = [n \in 1..u.count |-> s.nodes[n].up]
    BY TreeIs
  <2> QED BY <2>1
<1>4. AboveOf(s) = u.above
  BY <1>2, <1>3, AncestorsAre DEF OneTree
<1>5. TreeOf(s).above = u.above
  BY <1>4, TreeIs
<1> QED
  BY <1>1, <1>2, <1>5

\* add under a live directory makes a node of the tree.
LEMMA AddEdits ==
    ASSUME NEW s, ModelShape(s), OneTree(TreeOf(s)), NEW n, IsDir(s, n), ~IsDetached(s, n),
           NEW c, ~Has(s, n, c), NEW node, NodeShape(node), DOMAIN node.kids = {}, ~node.dead
    PROVE  LET t == Add(s, n, c, node)
               k == Len(s.nodes)
           IN  /\ OtherParts(s, t) /\ ModelShape(t) /\ Len(t.nodes) = k + 1
               /\ \A x \in 1..k : Alike(s.nodes[x], t.nodes[x]) /\ t.nodes[x].dead = s.nodes[x].dead
               /\ Alike(node, t.nodes[k + 1]) /\ t.nodes[k + 1].dead = node.dead
               /\ OneTree(TreeOf(t)) /\ Edit(TreeOf(s), TreeOf(t))
               /\ NodeMade(TreeOf(s), TreeOf(t), n, c)
<1> DEFINE k == Len(s.nodes)
           T == TreeOf(s)
           t == Add(s, n, c, node)
           u == [count |-> k + 1,
                 dirs |-> IF IsDirKind(node.kind) THEN T.dirs \cup {k + 1} ELSE T.dirs,
                 up |-> [x \in 1..(k + 1) |-> IF x = k + 1 THEN n ELSE T.up[x]],
                 entries |-> T.entries \cup {Entry(n, c, k + 1)},
                 dead |-> T.dead,
                 above |-> [x \in 1..(k + 1) |-> IF x = k + 1 THEN T.above[n] \cup {k + 1}
                                                 ELSE T.above[x]]]
<1>1. /\ k \in Nat /\ DOMAIN s.nodes = 1..k /\ T.count = k
      /\ T.dirs = {x \in 1..k : IsDirKind(s.nodes[x].kind)}
      /\ T.up = [x \in 1..k |-> s.nodes[x].up]
      /\ T.dead = {x \in 1..k : s.nodes[x].dead}
      /\ \A x \in 1..k : T.above[x] = Ancestors(s, x)
  BY TreeIs
<1>2. n \in 1..k /\ n \in T.dirs
  BY <1>1 DEF IsDir, Kind, IsDirKind
<1>3. Live(T, n)
  BY <1>1, <1>2 DEF Live, IsDetached
<1>4. At(T, n, c) = {}
  BY EntryIn DEF At, Has, Kids
<1>5. /\ OtherParts(s, t) /\ ModelShape(t) /\ Len(t.nodes) = k + 1
      /\ \A x \in 1..k : /\ Alike(s.nodes[x], t.nodes[x])
                         /\ t.nodes[x].up = s.nodes[x].up /\ t.nodes[x].dead = s.nodes[x].dead
                         /\ x # n => t.nodes[x].kids = s.nodes[x].kids
      /\ t.nodes[n].kids = Entered(s.nodes[n].kids, c, k + 1)
      /\ Alike(node, t.nodes[k + 1]) /\ t.nodes[k + 1].up = n
      /\ t.nodes[k + 1].kids = node.kids /\ t.nodes[k + 1].dead = node.dead
  BY <1>2, AddShape
<1> HIDE DEF t
<1>6. NodeMade(T, u, n, c)
  BY <1>1, <1>3, <1>4 DEF NodeMade
<1>7. OneTree(u)
  BY <1>6, MakeKeeps
<1>8. 1..(k + 1) = (1..k) \cup {k + 1} /\ k + 1 \notin 1..k /\ DOMAIN t.nodes = 1..(k + 1)
  BY <1>1, <1>5 DEF ModelShape
<1>9. TreeOf(t).dirs = u.dirs
  <2>1. TreeOf(t).dirs = {x \in 1..(k + 1) : IsDirKind(t.nodes[x].kind)}
    BY <1>5, TreeIs
  <2> QED BY <2>1, <1>1, <1>5, <1>8 DEF Alike
<1>10. TreeOf(t).up = u.up
  <2>1. TreeOf(t).up = [x \in 1..(k + 1) |-> t.nodes[x].up]
    BY <1>5, TreeIs
  <2> QED BY <2>1, <1>1, <1>5, <1>8
<1>11. TreeOf(t).dead = u.dead
  <2>1. TreeOf(t).dead = {x \in 1..(k + 1) : t.nodes[x].dead}
    BY <1>5, TreeIs
  <2>2. \A x \in 1..(k + 1) : t.nodes[x].dead <=> x \in 1..k /\ s.nodes[x].dead
    BY <1>5, <1>8
  <2> QED BY <2>1, <2>2, <1>1, <1>8
<1>12. TreeOf(t).entries = u.entries
  <2>1. TreeOf(t).entries = (T.entries \ At(T, n, c)) \cup {Entry(n, c, k + 1)}
    <3>1. /\ DOMAIN s.nodes \subseteq DOMAIN t.nodes /\ n \in DOMAIN s.nodes
          /\ \A x \in DOMAIN s.nodes : x # n => t.nodes[x].kids = s.nodes[x].kids
          /\ \A x \in DOMAIN t.nodes : x \notin DOMAIN s.nodes => DOMAIN t.nodes[x].kids = {}
          /\ t.nodes[n].kids = Entered(s.nodes[n].kids, c, k + 1)
      BY <1>1, <1>2, <1>5, <1>8
    <3> HIDE DEF k
    <3> QED BY <3>1, NameEntered
  <2> QED BY <2>1, <1>4
<1>13. TreeOf(t) = u
  <2>1. /\ u = [count |-> u.count, dirs |-> u.dirs, up |-> u.up, entries |-> u.entries,
                dead |-> u.dead, above |-> u.above]
        /\ u.count = k + 1
    OBVIOUS
  <2> HIDE DEF u
  <2> QED BY <2>1, <1>5, <1>7, <1>9, <1>10, <1>11, <1>12, TreeRebuilt
<1>14. Edit(T, u)
  <2>1. Entry(n, c, k + 1) \in u.entries \ T.entries
    <3>1. Entry(n, c, k + 1) \notin T.entries
      BY <1>4, EntryParts DEF At
    <3> QED BY <3>1
  <2>2. Entry(n, c, k + 1).dir = n /\ Entry(n, c, k + 1).name = c
    BY EntryParts
  <2> HIDE DEF u, T
  <2> QED BY <2>1, <2>2, <1>6 DEF Edit
<1> QED
  BY <1>5, <1>6, <1>7, <1>13, <1>14 DEF t

\* The entry that a place names.
LEMMA PlaceNames ==
    ASSUME NEW s, ModelShape(s), OneTree(TreeOf(s)), NEW spot, spot.node \in DOMAIN s.nodes,
           Has(s, spot.node, spot.name), NEW id, id = Kids(s, spot.node)[spot.name]
    PROVE  /\ Entry(spot.node, spot.name, id) \in TreeOf(s).entries
           /\ At(TreeOf(s), spot.node, spot.name) = {Entry(spot.node, spot.name, id)}
           /\ id \in 1..Len(s.nodes) /\ spot.node \in 1..Len(s.nodes)
           /\ spot.node \in TreeOf(s).dirs
<1> DEFINE e == Entry(spot.node, spot.name, id)
<1>1. e.dir = spot.node /\ e.name = spot.name /\ e.node = id
  BY EntryParts
<1>2. e \in TreeOf(s).entries
  BY <1>1, EntryIn DEF Has, Kids
<1> HIDE DEF e
<1>3. At(TreeOf(s), spot.node, spot.name) = {e}
  BY <1>1, <1>2 DEF At, OneTree, Named
<1>4. e.node \in 1..TreeOf(s).count /\ e.dir \in TreeOf(s).dirs /\ e.dir \in 1..TreeOf(s).count
  BY <1>2, TreeParts
<1>5. TreeOf(s).count = Len(s.nodes)
  BY TreeIs
<1> QED
  BY <1>1, <1>2, <1>3, <1>4, <1>5 DEF e

\* Nothing is below what is empty, and below what is no directory.
LEMMA NothingUnder ==
    ASSUME NEW s, ModelShape(s), OneTree(TreeOf(s)), NEW n, IsDir(s, n) => IsEmpty(s, n)
    PROVE  Under(TreeOf(s), n) = {}
<1> SUFFICES ASSUME NEW e \in TreeOf(s).entries, e.dir = n PROVE FALSE
  BY DEF Under
<1>1. e.dir \in TreeOf(s).dirs
  BY TreeParts
<1>2. IsDir(s, n)
  BY <1>1, TreeIs
<1>3. e.name \in DOMAIN s.nodes[n].kids
  BY EntryIn
<1> QED
  BY <1>2, <1>3 DEF IsEmpty, Kids

\* remove_entry takes the node out of the tree, and marks it if it is a directory.
LEMMA RemoveEdits ==
    ASSUME NEW s, ModelShape(s), OneTree(TreeOf(s)), NEW spot, spot.node \in DOMAIN s.nodes,
           Has(s, spot.node, spot.name), NEW id, id = Kids(s, spot.node)[spot.name],
           IsDir(s, id) => IsEmpty(s, id)
    PROVE  LET t == RemoveEntry(s, spot)
               k == Len(s.nodes)
           IN  /\ OtherParts(s, t) /\ ModelShape(t) /\ Len(t.nodes) = k
               /\ \A x \in 1..k : Alike(s.nodes[x], t.nodes[x])
               /\ \A x \in 1..k : t.nodes[x].dead = IF x = id THEN IsDir(s, id) ELSE s.nodes[x].dead
               /\ OneTree(TreeOf(t)) /\ Edit(TreeOf(s), TreeOf(t))
               /\ NameRemoved(TreeOf(s), TreeOf(t), Entry(spot.node, spot.name, id))
<1> DEFINE k == Len(s.nodes)
           T == TreeOf(s)
           t == RemoveEntry(s, spot)
           e == Entry(spot.node, spot.name, id)
           u == [count |-> T.count, dirs |-> T.dirs, up |-> T.up, entries |-> T.entries \ {e},
                 dead |-> T.dead \cup ({id} \cap T.dirs), above |-> T.above]
<1>1. /\ k \in Nat /\ DOMAIN s.nodes = 1..k /\ T.count = k
      /\ T.dirs = {x \in 1..k : IsDirKind(s.nodes[x].kind)}
      /\ T.up = [x \in 1..k |-> s.nodes[x].up]
      /\ T.dead = {x \in 1..k : s.nodes[x].dead}
      /\ \A x \in 1..k : x \in T.dirs <=> IsDir(s, x)
  BY TreeIs
<1>2. e \in T.entries /\ e.node = id /\ id \in 1..k /\ spot.node \in 1..k
  BY PlaceNames, EntryParts
<1>3. Under(T, id) = {}
  BY NothingUnder
<1>4. /\ OtherParts(s, t) /\ ModelShape(t) /\ Len(t.nodes) = k
      /\ \A x \in 1..k : /\ Alike(s.nodes[x], t.nodes[x]) /\ t.nodes[x].up = s.nodes[x].up
                         /\ t.nodes[x].dead = IF x = id THEN IsDir(s, id) ELSE s.nodes[x].dead
                         /\ x # spot.node => t.nodes[x].kids = s.nodes[x].kids
      /\ t.nodes[spot.node].kids = Without(s.nodes[spot.node].kids, spot.name)
  BY <1>2, RemoveShape
<1> HIDE DEF t, e
<1>5. NameRemoved(T, u, e)
  BY <1>2, <1>3 DEF NameRemoved
<1>6. OneTree(u)
  BY <1>2, <1>5, RemoveKeeps
<1>7. /\ DOMAIN t.nodes = 1..k
      /\ TreeOf(t).dirs = {x \in 1..k : IsDirKind(t.nodes[x].kind)}
      /\ TreeOf(t).up = [x \in 1..k |-> t.nodes[x].up]
      /\ TreeOf(t).dead = {x \in 1..k : t.nodes[x].dead}
  <2>1. ModelShape(t) /\ Len(t.nodes) = k
    BY <1>4
  <2> HIDE DEF k
  <2> QED BY <2>1, TreeIs
<1>8. TreeOf(t).dirs = u.dirs
  BY <1>1, <1>4, <1>7 DEF Alike
<1>9. TreeOf(t).up = u.up
  BY <1>1, <1>4, <1>7
<1>10. TreeOf(t).dead = u.dead
  <2>1. \A x \in 1..k : t.nodes[x].dead <=> x \in u.dead
    <3> TAKE x \in 1..k
    <3>1. CASE x # id
      BY <3>1, <1>1, <1>4
    <3>2. CASE x = id /\ IsDir(s, id)
      BY <3>2, <1>1, <1>2, <1>4
    <3>3. CASE x = id /\ ~IsDir(s, id)
      <4>1. id \notin T.dead
        BY <3>3, <1>1, <1>2, TreeParts
      <4> QED BY <3>3, <4>1, <1>1, <1>2, <1>4
    <3> QED BY <3>1, <3>2, <3>3
  <2>2. u.dead \subseteq 1..k
    BY <1>1, <1>2
  <2> HIDE DEF u
  <2> QED BY <2>1, <2>2, <1>7
<1>11. TreeOf(t).entries = u.entries
  <2>1. /\ DOMAIN t.nodes = DOMAIN s.nodes /\ spot.node \in DOMAIN s.nodes
        /\ \A x \in DOMAIN s.nodes : x # spot.node => t.nodes[x].kids = s.nodes[x].kids
        /\ t.nodes[spot.node].kids = Without(s.nodes[spot.node].kids, spot.name)
    BY <1>1, <1>2, <1>4, <1>7
  <2> HIDE DEF k
  <2> QED BY <2>1, NameDropped DEF e
<1>12. TreeOf(t) = u
  <2>1. /\ u = [count |-> u.count, dirs |-> u.dirs, up |-> u.up, entries |-> u.entries,
                dead |-> u.dead, above |-> u.above]
        /\ u.count = k
    BY <1>1
  <2> HIDE DEF u
  <2> QED BY <2>1, <1>4, <1>6, <1>8, <1>9, <1>10, <1>11, TreeRebuilt
<1>13. Edit(T, u)
  <2>1. e \in T.entries \ u.entries
    BY <1>2
  <2> HIDE DEF u, T
  <2> QED BY <2>1, <1>5 DEF Edit
<1>14. NameRemoved(TreeOf(s), TreeOf(t), Entry(spot.node, spot.name, id))
  <2> HIDE DEF u, t
  <2> QED BY <1>5, <1>12 DEF e
<1> QED
  BY <1>4, <1>6, <1>12, <1>13, <1>14 DEF t

\* The node id, just dropped from its place, is named again in another.
MoveIn(s, spot, id) ==
    [s EXCEPT !.nodes[spot.node].kids = Entered(@, spot.name, id), !.nodes[id].up = spot.node]

\* Naming a moved node again changes its parent and the names of that directory.
LEMMA MoveInShape ==
    ASSUME NEW s, ModelShape(s), NEW spot, spot.node \in 1..Len(s.nodes), NEW id \in 1..Len(s.nodes)
    PROVE  LET t == MoveIn(s, spot, id) IN
           /\ OtherParts(s, t) /\ ModelShape(t) /\ Len(t.nodes) = Len(s.nodes)
           /\ \A x \in 1..Len(s.nodes) :
                /\ Alike(s.nodes[x], t.nodes[x]) /\ t.nodes[x].dead = s.nodes[x].dead
                /\ t.nodes[x].up = IF x = id THEN spot.node ELSE s.nodes[x].up
                /\ x # spot.node => t.nodes[x].kids = s.nodes[x].kids
           /\ t.nodes[spot.node].kids = Entered(s.nodes[spot.node].kids, spot.name, id)
<1> DEFINE n == spot.node
           k == Len(s.nodes)
           K == Entered(s.nodes[n].kids, spot.name, id)
           y == [s.nodes[n] EXCEPT !.kids = K]
           u == Put(s, n, y)
           z == [u.nodes[id] EXCEPT !.up = n]
           t == Put(u, id, z)
<1>1. /\ NodeShape(y) /\ Alike(s.nodes[n], y) /\ y.kids = K /\ y.up = s.nodes[n].up
      /\ y.dead = s.nodes[n].dead
  <2>1. K = [x \in DOMAIN K |-> K[x]]
    BY DEF Entered
  <2> HIDE DEF K
  <2> QED BY <2>1, NodeEdits DEF ModelShape
<1>2. MoveIn(s, spot, id) = t
  BY DEF MoveIn, Put, ModelShape
<1> HIDE DEF K, y
<1>3. /\ OtherParts(s, u) /\ ModelShape(u) /\ Len(u.nodes) = k
      /\ u.nodes[n] = y /\ \A x \in 1..k : x # n => u.nodes[x] = s.nodes[x]
  BY <1>1, PutShape
<1> HIDE DEF u
<1>4. /\ NodeShape(z) /\ Alike(u.nodes[id], z) /\ z.kids = u.nodes[id].kids
      /\ z.up = n /\ z.dead = u.nodes[id].dead
  <2> DEFINE x == u.nodes[id]
  <2>1. NodeShape(x) /\ z = [x EXCEPT !.up = n]
    BY <1>3 DEF ModelShape
  <2> HIDE DEF x, z, n
  <2>2. NodeShape(z) /\ Alike(x, z) /\ z.kids = x.kids /\ z.up = n /\ z.dead = x.dead
    BY <2>1 DEF NodeShape, Alike
  <2> QED BY <2>2 DEF x
<1> HIDE DEF z
<1>5. /\ OtherParts(u, t) /\ ModelShape(t) /\ Len(t.nodes) = k
      /\ t.nodes[id] = z /\ \A x \in 1..k : x # id => t.nodes[x] = u.nodes[x]
  BY <1>3, <1>4, PutShape
<1> HIDE DEF t
<1>6. OtherParts(s, t)
  BY <1>3, <1>5 DEF OtherParts
<1>7. \A x \in 1..k : /\ Alike(u.nodes[x], t.nodes[x]) /\ t.nodes[x].dead = u.nodes[x].dead
                      /\ t.nodes[x].up = IF x = id THEN n ELSE u.nodes[x].up
                      /\ t.nodes[x].kids = u.nodes[x].kids
  <2> TAKE x \in 1..k
  <2>1. CASE x = id
    BY <2>1, <1>4, <1>5
  <2>2. CASE x # id
    BY <2>2, <1>5 DEF Alike
  <2> QED BY <2>1, <2>2
<1>8. \A x \in 1..k : /\ Alike(s.nodes[x], u.nodes[x]) /\ u.nodes[x].dead = s.nodes[x].dead
                      /\ u.nodes[x].up = s.nodes[x].up
                      /\ x # n => u.nodes[x].kids = s.nodes[x].kids
  <2> TAKE x \in 1..k
  <2>1. CASE x = n
    BY <2>1, <1>1, <1>3
  <2>2. CASE x # n
    BY <2>2, <1>3 DEF Alike
  <2> QED BY <2>1, <2>2
<1>9. \A x \in 1..k : Alike(s.nodes[x], t.nodes[x])
  BY <1>7, <1>8 DEF Alike
<1>10. t.nodes[n].kids = K
  BY <1>1, <1>3, <1>7
<1> QED
  BY <1>2, <1>5, <1>6, <1>7, <1>8, <1>9, <1>10 DEF K

\* What rename checks of its destination, once it is not the source itself.
Replaceable(s, id, to) ==
    Has(s, to.node, to.name) =>
      LET old == Kids(s, to.node)[to.name] IN
      old # id /\ (IsDir(s, id) <=> IsDir(s, old)) /\ (IsDir(s, old) => IsEmpty(s, old))

\* What rename may replace: a node of the same sort, empty when a directory.
LEMMA CollisionIs == ASSUME NEW s, NEW id, NEW to, Collision(s, id, to) = "ok"
                     PROVE  Replaceable(s, id, to)
BY DEF Collision, Replaceable

\* rename, until the node is named again: its old name is gone, and what had
\* the new one is removed.
Freed(s, from, to) ==
    LET gone == Drop(s, from.node, from.name) IN
    IF Has(gone, to.node, to.name) THEN RemoveEntry(gone, to) ELSE gone

\* What the model is just before the moved node is named again.
LEMMA FreedShape ==
    ASSUME NEW s, ModelShape(s), OneTree(TreeOf(s)),
           NEW from, from.node \in DOMAIN s.nodes, Has(s, from.node, from.name),
           NEW id, id = Kids(s, from.node)[from.name],
           NEW to, to.node \in DOMAIN s.nodes, Replaceable(s, id, to)
    PROVE  LET t == Freed(s, from, to)
               T == TreeOf(s)
               olds == {e.node : e \in At(T, to.node, to.name)}
           IN  /\ OtherParts(s, t) /\ ModelShape(t) /\ Len(t.nodes) = Len(s.nodes)
               /\ \A x \in 1..Len(s.nodes) :
                    /\ Alike(s.nodes[x], t.nodes[x]) /\ t.nodes[x].up = s.nodes[x].up
                    /\ t.nodes[x].dead = IF x \in olds THEN IsDir(s, x) ELSE s.nodes[x].dead
               /\ TreeOf(t).entries =
                    T.entries \ ({Entry(from.node, from.name, id)} \cup At(T, to.node, to.name))
               /\ Entry(from.node, from.name, id) \notin At(T, to.node, to.name)
               /\ \A e \in At(T, to.node, to.name) :
                    /\ Has(s, to.node, to.name) /\ e.node = Kids(s, to.node)[to.name]
<1> DEFINE k == Len(s.nodes)
           T == TreeOf(s)
           e == Entry(from.node, from.name, id)
           gone == Drop(s, from.node, from.name)
           t == Freed(s, from, to)
           there == At(T, to.node, to.name)
           olds == {g.node : g \in there}
<1>1. /\ k \in Nat /\ DOMAIN s.nodes = 1..k /\ \A x \in 1..k : x \in T.dirs <=> IsDir(s, x)
  BY TreeIs
<1>2. /\ e \in T.entries /\ e.node = id /\ e.dir = from.node /\ e.name = from.name
      /\ id \in 1..k /\ from.node \in 1..k
  BY PlaceNames, EntryParts
<1>3. /\ OtherParts(s, gone) /\ ModelShape(gone) /\ Len(gone.nodes) = k
      /\ \A x \in 1..k : /\ Alike(s.nodes[x], gone.nodes[x])
                         /\ gone.nodes[x].up = s.nodes[x].up /\ gone.nodes[x].dead = s.nodes[x].dead
                         /\ x # from.node => gone.nodes[x].kids = s.nodes[x].kids
      /\ gone.nodes[from.node].kids = Without(s.nodes[from.node].kids, from.name)
  BY <1>2, DropShape
<1> HIDE DEF gone, e
<1>4. DOMAIN gone.nodes = 1..k
  BY <1>3 DEF ModelShape
<1>5. TreeOf(gone).entries = T.entries \ {e}
  <2>1. /\ DOMAIN gone.nodes = DOMAIN s.nodes
        /\ \A x \in DOMAIN s.nodes : x # from.node => gone.nodes[x].kids = s.nodes[x].kids
        /\ gone.nodes[from.node].kids = Without(s.nodes[from.node].kids, from.name)
    BY <1>1, <1>3, <1>4
  <2> HIDE DEF k
  <2> QED BY <2>1, NameDropped DEF e
<1>6. \A g \in there : /\ g \in T.entries /\ g.dir = to.node /\ g.name = to.name
                       /\ Has(s, to.node, to.name) /\ g.node = Kids(s, to.node)[to.name]
                       /\ g.node # id
  <2> TAKE g \in there
  <2>1. g \in T.entries /\ g.dir = to.node /\ g.name = to.name
    BY DEF At
  <2>2. Has(s, to.node, to.name) /\ g.node = Kids(s, to.node)[to.name]
    BY <2>1, EntryIn DEF Has, Kids
  <2> QED BY <2>1, <2>2 DEF Replaceable
<1>7. e \notin there
  BY <1>2, <1>6
<1>8. ASSUME Has(gone, to.node, to.name), NEW old, old = Kids(gone, to.node)[to.name]
      PROVE  /\ there = {Entry(to.node, to.name, old)} /\ old \in 1..k
  <2> DEFINE g == Entry(to.node, to.name, old)
  <2>1. g.dir = to.node /\ g.name = to.name /\ g.node = old
    BY EntryParts
  <2>2. g \in TreeOf(gone).entries
    BY <2>1, <1>8, <1>4, <1>1, EntryIn DEF Has, Kids
  <2> HIDE DEF g
  <2>3. g \in T.entries /\ g.node \in 1..T.count /\ T.count = k
    BY <2>2, <1>5, TreeParts, TreeIs
  <2>4. there = {g}
    BY <2>1, <2>3 DEF At, OneTree, Named
  <2> QED BY <2>1, <2>3, <2>4 DEF g
<1>9. CASE ~Has(gone, to.node, to.name)
  <2>1. t = gone
    BY <1>9 DEF Freed, gone
  <2>2. there = {}
    <3> SUFFICES ASSUME NEW g \in there PROVE FALSE
      OBVIOUS
    <3>1. g \in TreeOf(gone).entries /\ g.dir = to.node /\ g.name = to.name
      BY <1>5, <1>6, <1>7
    <3> QED BY <3>1, <1>9, EntryIn DEF Has, Kids
  <2> HIDE DEF there
  <2> QED BY <2>1, <2>2, <1>3, <1>5, <1>6, <1>7 DEF e, there
<1>10. CASE Has(gone, to.node, to.name)
  <2> DEFINE old == Kids(gone, to.node)[to.name]
  <2>1. t = RemoveEntry(gone, to)
    BY <1>10 DEF Freed, gone
  <2>2. there = {Entry(to.node, to.name, old)} /\ old \in 1..k
    BY <1>8, <1>10
  <2>3. to.node \in 1..k
    BY <1>1
  <2>4. olds = {old}
    BY <2>2, EntryParts
  <2>5. /\ OtherParts(gone, t) /\ ModelShape(t) /\ Len(t.nodes) = k
        /\ \A x \in 1..k : /\ Alike(gone.nodes[x], t.nodes[x]) /\ t.nodes[x].up = gone.nodes[x].up
                           /\ t.nodes[x].dead =
                                 IF x = old THEN IsDir(gone, old) ELSE gone.nodes[x].dead
                           /\ x # to.node => t.nodes[x].kids = gone.nodes[x].kids
        /\ t.nodes[to.node].kids = Without(gone.nodes[to.node].kids, to.name)
    BY <2>1, <2>2, <2>3, <1>3, RemoveShape
  <2>6. TreeOf(t).entries = TreeOf(gone).entries \ there
    <3>1. /\ DOMAIN t.nodes = DOMAIN gone.nodes /\ to.node \in DOMAIN gone.nodes
          /\ \A x \in DOMAIN gone.nodes : x # to.node => t.nodes[x].kids = gone.nodes[x].kids
      BY <2>3, <2>5, <1>4 DEF ModelShape
    <3> HIDE DEF t, there, k
    <3> QED BY <3>1, <2>2, <2>5, <1>10, NameDropped
  <2>7. IsDir(gone, old) = IsDir(s, old)
    BY <2>2, <1>1, <1>3, <1>4 DEF IsDir, Kind, Alike
  <2> HIDE DEF t, there, olds, old
  <2>8. OtherParts(s, t)
    BY <2>5, <1>3 DEF OtherParts
  <2>9. \A x \in 1..k : Alike(s.nodes[x], t.nodes[x]) /\ t.nodes[x].up = s.nodes[x].up
    BY <2>5, <1>3 DEF Alike
  <2>10. \A x \in 1..k : t.nodes[x].dead = IF x \in olds THEN IsDir(s, x) ELSE s.nodes[x].dead
    <3> TAKE x \in 1..k
    <3>1. CASE x = old
      <4>1. t.nodes[x].dead = IsDir(gone, old)
        BY <3>1, <2>5
      <4> QED BY <3>1, <4>1, <2>4, <2>7
    <3>2. CASE x # old
      BY <3>2, <2>4, <2>5, <1>3
    <3> QED BY <3>1, <3>2
  <2>11. TreeOf(t).entries = T.entries \ ({e} \cup there)
    BY <2>6, <1>5
  <2> QED BY <2>5, <2>8, <2>9, <2>10, <2>11, <1>6, <1>7 DEF t, there, olds, e
<1> QED
  BY <1>9, <1>10

\* rename moves the node to its new name in the tree, over what had that name.
LEMMA MoveEdits ==
    ASSUME NEW s, ModelShape(s), OneTree(TreeOf(s)),
           NEW from, from.node \in DOMAIN s.nodes, Has(s, from.node, from.name),
           NEW id, id = Kids(s, from.node)[from.name],
           NEW to, IsDir(s, to.node), ~IsDetached(s, to.node), ~IsDescendant(s, id, to.node),
           Replaceable(s, id, to)
    PROVE  LET t == Move(s, from, to)
               k == Len(s.nodes)
           IN  /\ OtherParts(s, t) /\ ModelShape(t) /\ Len(t.nodes) = k
               /\ \A x \in 1..k : Alike(s.nodes[x], t.nodes[x])
               /\ \A x \in 1..k : t.nodes[x].dead \in {s.nodes[x].dead, IsDir(s, x)}
               /\ OneTree(TreeOf(t)) /\ Edit(TreeOf(s), TreeOf(t))
               /\ NodeMoved(TreeOf(s), TreeOf(t), Entry(from.node, from.name, id), to.node, to.name)
<1> DEFINE k == Len(s.nodes)
           T == TreeOf(s)
           e == Entry(from.node, from.name, id)
           there == At(T, to.node, to.name)
           olds == {g.node : g \in there}
           free == Freed(s, from, to)
           t == Move(s, from, to)
           u == [count |-> T.count, dirs |-> T.dirs, up |-> [T.up EXCEPT ![id] = to.node],
                 entries |-> (T.entries \ ({e} \cup there)) \cup {Entry(to.node, to.name, id)},
                 dead |-> T.dead \cup (olds \cap T.dirs),
                 above |-> AboveMoved(T.count, T.above, id, to.node)]
<1>1. /\ k \in Nat /\ DOMAIN s.nodes = 1..k /\ T.count = k
      /\ T.dirs = {x \in 1..k : IsDirKind(s.nodes[x].kind)}
      /\ T.up = [x \in 1..k |-> s.nodes[x].up]
      /\ T.dead = {x \in 1..k : s.nodes[x].dead}
      /\ \A x \in 1..k : x \in T.dirs <=> IsDir(s, x)
      /\ \A x \in 1..k : T.above[x] = Ancestors(s, x)
  BY TreeIs
<1>2. /\ e \in T.entries /\ e.node = id /\ e.dir = from.node /\ e.name = from.name
      /\ id \in 1..k /\ from.node \in 1..k
  BY PlaceNames, EntryParts
<1>3. to.node \in 1..k /\ to.node \in T.dirs
  BY <1>1 DEF IsDir, Kind, IsDirKind
<1>4. Live(T, to.node) /\ id \notin T.above[to.node]
  BY <1>1, <1>3 DEF Live, IsDetached, IsDescendant
<1>5. /\ OtherParts(s, free) /\ ModelShape(free) /\ Len(free.nodes) = k
      /\ \A x \in 1..k : /\ Alike(s.nodes[x], free.nodes[x]) /\ free.nodes[x].up = s.nodes[x].up
                         /\ free.nodes[x].dead = IF x \in olds THEN IsDir(s, x) ELSE s.nodes[x].dead
      /\ TreeOf(free).entries = T.entries \ ({e} \cup there)
      /\ e \notin there
      /\ \A g \in there : Has(s, to.node, to.name) /\ g.node = Kids(s, to.node)[to.name]
  BY <1>1, <1>3, FreedShape
<1>6. t = MoveIn(free, to, id)
  BY DEF Move, MoveIn, Freed
<1> HIDE DEF free, t, e
<1>7. /\ OtherParts(free, t) /\ ModelShape(t) /\ Len(t.nodes) = k
      /\ \A x \in 1..k : /\ Alike(free.nodes[x], t.nodes[x]) /\ t.nodes[x].dead = free.nodes[x].dead
                         /\ t.nodes[x].up = IF x = id THEN to.node ELSE free.nodes[x].up
                         /\ x # to.node => t.nodes[x].kids = free.nodes[x].kids
      /\ t.nodes[to.node].kids = Entered(free.nodes[to.node].kids, to.name, id)
  BY <1>2, <1>3, <1>5, <1>6, MoveInShape
<1>8. /\ DOMAIN t.nodes = 1..k
      /\ TreeOf(t).dirs = {x \in 1..k : IsDirKind(t.nodes[x].kind)}
      /\ TreeOf(t).up = [x \in 1..k |-> t.nodes[x].up]
      /\ TreeOf(t).dead = {x \in 1..k : t.nodes[x].dead}
  <2>1. ModelShape(t) /\ Len(t.nodes) = k
    BY <1>7
  <2> HIDE DEF k
  <2> QED BY <2>1, TreeIs
<1>9. \A g \in there : g \in T.entries /\ g.node \in 1..k /\ Replaces(T, id, g.node)
  <2> TAKE g \in there
  <2>1. g \in T.entries /\ g.node \in 1..k
    BY <1>1, TreeParts DEF At
  <2>2. /\ g.node # id /\ (IsDir(s, id) <=> IsDir(s, g.node))
        /\ IsDir(s, g.node) => IsEmpty(s, g.node)
    BY <1>5 DEF Replaceable
  <2>3. Under(T, g.node) = {}
    BY <2>2, NothingUnder
  <2> QED BY <2>1, <2>2, <2>3, <1>1, <1>2 DEF Replaces
<1>10. NodeMoved(T, u, e, to.node, to.name)
  BY <1>2, <1>4, <1>9 DEF NodeMoved
<1>11. OneTree(u)
  BY <1>2, <1>10, MoveKeeps
<1>12. \A x \in 1..k : /\ Alike(s.nodes[x], t.nodes[x])
                       /\ t.nodes[x].up = IF x = id THEN to.node ELSE s.nodes[x].up
                       /\ t.nodes[x].dead = IF x \in olds THEN IsDir(s, x) ELSE s.nodes[x].dead
  <2> HIDE DEF olds, k
  <2>1. \A x \in 1..k : Alike(s.nodes[x], t.nodes[x])
    BY <1>5, <1>7 DEF Alike
  <2>2. \A x \in 1..k : t.nodes[x].up = IF x = id THEN to.node ELSE s.nodes[x].up
    BY <1>5, <1>7
  <2>3. \A x \in 1..k : t.nodes[x].dead = IF x \in olds THEN IsDir(s, x) ELSE s.nodes[x].dead
    BY <1>5, <1>7
  <2> QED BY <2>1, <2>2, <2>3
<1>13. TreeOf(t).dirs = u.dirs
  BY <1>1, <1>8, <1>12 DEF Alike
<1>14. TreeOf(t).up = u.up
  <2>1. u.up = [x \in 1..k |-> IF x = id THEN to.node ELSE s.nodes[x].up]
    BY <1>1, <1>2
  <2>2. TreeOf(t).up = [x \in 1..k |-> IF x = id THEN to.node ELSE s.nodes[x].up]
    BY <1>8, <1>12
  <2> QED BY <2>1, <2>2
<1>15. TreeOf(t).dead = u.dead
  <2>1. \A x \in 1..k : t.nodes[x].dead <=> x \in u.dead
    <3> TAKE x \in 1..k
    <3>1. CASE x \notin olds
      <4>1. t.nodes[x].dead = s.nodes[x].dead
        BY <3>1, <1>12
      <4> QED BY <3>1, <4>1, <1>1
    <3>2. CASE x \in olds /\ IsDir(s, x)
      BY <3>2, <1>1, <1>12
    <3>3. CASE x \in olds /\ ~IsDir(s, x)
      <4>1. x \notin T.dead
        BY <3>3, <1>1, TreeParts
      <4> QED BY <3>3, <4>1, <1>1, <1>12
    <3> QED BY <3>1, <3>2, <3>3
  <2>2. u.dead \subseteq 1..k
    BY <1>1
  <2> HIDE DEF u
  <2> QED BY <2>1, <2>2, <1>8
<1>16. TreeOf(t).entries = u.entries
  <2>1. /\ DOMAIN free.nodes = DOMAIN t.nodes /\ to.node \in DOMAIN free.nodes
        /\ \A x \in DOMAIN free.nodes : x # to.node => t.nodes[x].kids = free.nodes[x].kids
        /\ t.nodes[to.node].kids = Entered(free.nodes[to.node].kids, to.name, id)
    BY <1>3, <1>5, <1>7, <1>8 DEF ModelShape
  <2>2. TreeOf(t).entries =
          (TreeOf(free).entries \ At(TreeOf(free), to.node, to.name))
            \cup {Entry(to.node, to.name, id)}
    <3> HIDE DEF k
    <3> QED BY <2>1, NameEntered
  <2>3. At(TreeOf(free), to.node, to.name) = {}
    BY <1>5 DEF At
  <2> QED BY <2>2, <2>3, <1>5
<1>17. TreeOf(t) = u
  <2>1. /\ u = [count |-> u.count, dirs |-> u.dirs, up |-> u.up, entries |-> u.entries,
                dead |-> u.dead, above |-> u.above]
        /\ u.count = k
    BY <1>1
  <2> HIDE DEF u
  <2> QED BY <2>1, <1>7, <1>11, <1>13, <1>14, <1>15, <1>16, TreeRebuilt
<1>18. Edit(T, u)
  <2> DEFINE f == Entry(to.node, to.name, id)
  <2>1. f.dir = to.node /\ f.name = to.name /\ f.node = id /\ f \in u.entries
    BY EntryParts
  <2> HIDE DEF f
  <2>2. f # e
    BY <2>1, <1>2, <1>5 DEF At
  <2>3. f \notin T.entries
    BY <2>1, <2>2, <1>2 DEF OneTree, Named
  <2>4. e \notin u.entries
    <3>1. e # Entry(to.node, to.name, id)
      BY <2>2 DEF f
    <3> QED BY <3>1
  <2> HIDE DEF u, T
  <2> QED BY <2>1, <2>3, <2>4, <1>2, <1>10 DEF Edit
<1>19. OtherParts(s, t)
  BY <1>5, <1>7 DEF OtherParts
<1>20. \A x \in 1..k : t.nodes[x].dead \in {s.nodes[x].dead, IsDir(s, x)}
  BY <1>12
<1>21. NodeMoved(TreeOf(s), TreeOf(t), Entry(from.node, from.name, id), to.node, to.name)
  <2> HIDE DEF u
  <2> QED BY <1>10, <1>17 DEF e
<1> QED
  BY <1>7, <1>11, <1>12, <1>17, <1>18, <1>19, <1>20, <1>21 DEF t

\* Some number of a set of them is the least.
LEMMA LeastOf ==
    ASSUME NEW S \in SUBSET Nat, S # {}
    PROVE  \E n \in S : \A i \in S : n <= i
<1>1. PICK k \in S : TRUE
  OBVIOUS
<1> DEFINE K == 0..k
           W == {0..i : i \in {j \in S : j <= k}}
<1>2. IsFiniteSet(0..k)
  BY <1>1, FS_Interval
<1>3. W # {} /\ W \in SUBSET (SUBSET K)
  BY <1>1
<1>4. \E low \in W : \A w \in W : w \subseteq low => w = low
  <2>1. IsFiniteSet(K)
    BY <1>2
  <2> HIDE DEF W, K
  <2> QED BY <1>3, <2>1, SmallestSet
<1>5. PICK n \in S : n <= k /\ \A w \in W : w \subseteq 0..n => w = 0..n
  BY <1>4
<1>6. ASSUME NEW i \in S, i < n PROVE FALSE
  <2>1. 0..i \in W
    BY <1>5, <1>6
  <2>2. 0..i \subseteq 0..n /\ n \in 0..n /\ n \notin 0..i
    BY <1>6, <1>5
  <2> HIDE DEF W
  <2> QED BY <2>1, <2>2, <1>5
<1> QED
  BY <1>5, <1>6

\* The order of recursive definitions: by one rank, then by another.
Lower(a, b, y, x) == a[y] < a[x] \/ (a[y] = a[x] /\ b[y] < b[x])

\* T holds at a point of D when it holds at all lower ones.
Hereditary(D, a, b, T) ==
    /\ a \in [D -> Nat] /\ b \in [D -> Nat]
    /\ \A x \in D : (\A y \in D : Lower(a, b, y, x) => y \in T) => x \in T

\* Induction along the ranks.
LEMMA RankInduction ==
    ASSUME NEW D, NEW a, NEW b, NEW T, Hereditary(D, a, b, T)
    PROVE  D \subseteq T
<1> SUFFICES ASSUME D \ T # {} PROVE FALSE
  OBVIOUS
<1>0. /\ a \in [D -> Nat] /\ b \in [D -> Nat]
      /\ \A x \in D : (\A y \in D : Lower(a, b, y, x) => y \in T) => x \in T
  BY DEF Hereditary
<1> USE <1>0
<1> DEFINE A == {a[x] : x \in D \ T}
<1>1. A # {} /\ A \in SUBSET Nat
  OBVIOUS
<1>2. PICK n \in A : \A i \in A : n <= i
  <2> HIDE DEF A
  <2> QED BY <1>1, LeastOf
<1> DEFINE B == {b[x] : x \in {y \in D \ T : a[y] = n}}
<1>3. B # {} /\ B \in SUBSET Nat
  <2>1. \A x \in D : b[x] \in Nat
    OBVIOUS
  <2>2. PICK x \in D \ T : a[x] = n
    BY <1>2
  <2>3. b[x] \in B
    BY <2>2
  <2>4. \A i \in B : i \in Nat
    BY <2>1
  <2> HIDE DEF B
  <2> QED BY <2>3, <2>4
<1>4. PICK k \in B : \A i \in B : k <= i
  <2> HIDE DEF B
  <2> QED BY <1>3, LeastOf
<1>5. PICK x \in D \ T : a[x] = n /\ b[x] = k
  BY <1>4
<1>6. ASSUME NEW y \in D, Lower(a, b, y, x) PROVE y \in T
  <2> SUFFICES ASSUME y \notin T PROVE FALSE
    OBVIOUS
  <2>1. a[y] \in A /\ a[y] \in Nat /\ b[y] \in Nat /\ n \in Nat /\ k \in Nat
    BY <1>2, <1>4
  <2>2. n <= a[y]
    BY <2>1, <1>2
  <2>3. a[y] = n /\ b[y] < k
    BY <1>5, <1>6, <2>1, <2>2 DEF Lower
  <2>4. b[y] \in B
    BY <2>3
  <2> HIDE DEF A, B
  <2>5. k <= b[y]
    BY <2>4, <1>4
  <2> QED BY <2>1, <2>3, <2>5
<1> QED
  BY <1>5, <1>6

\* A recursive definition whose value at a point depends on lower points only
\* defines something: G gives the value at a point from a function on all, and
\* W where it lies.
Recurses(D, a, b, V, W, F, G) ==
    /\ a \in [D -> Nat] /\ b \in [D -> Nat]
    /\ W \in [D -> SUBSET V] /\ \A x \in D : W[x] # {}
    /\ F = {f \in [D -> V] : \A x \in D : f[x] \in W[x]}
    /\ G \in [D -> [F -> V]] /\ \A x \in D, f \in F : G[x][f] \in W[x]
    /\ \A x \in D, f, g \in F :
         (\A y \in D : Lower(a, b, y, x) => f[y] = g[y]) => G[x][f] = G[x][g]
LEMMA RecursionExists ==
    ASSUME NEW D, NEW a, NEW b, NEW V, NEW W, NEW F, NEW G, Recurses(D, a, b, V, W, F, G)
    PROVE  \E f \in F : \A x \in D : f[x] = G[x][f]
<1>0. /\ a \in [D -> Nat] /\ b \in [D -> Nat]
      /\ W \in [D -> SUBSET V] /\ \A x \in D : W[x] # {}
      /\ F = {f \in [D -> V] : \A x \in D : f[x] \in W[x]}
      /\ G \in [D -> [F -> V]] /\ \A x \in D, f \in F : G[x][f] \in W[x]
      /\ \A x \in D, f, g \in F :
           (\A y \in D : Lower(a, b, y, x) => f[y] = g[y]) => G[x][f] = G[x][g]
  BY DEF Recurses
<1> USE <1>0
<1> DEFINE L(y, x) == Lower(a, b, y, x)
           Upto(x) == {f \in F : \A y \in D : y = x \/ L(y, x) => f[y] = G[y][f]}
           C(x) == CHOOSE f \in Upto(x) : TRUE
           T == {x \in D : Upto(x) # {} /\ \A f, g \in Upto(x) : f[x] = g[x]}
<1>1. \A x, y, z \in D : L(z, y) /\ L(y, x) => L(z, x)
  <2>1. \A x \in D : a[x] \in Nat /\ b[x] \in Nat
    OBVIOUS
  <2> QED BY <2>1 DEF Lower
<1>2. \A x \in D : ~L(x, x)
  BY DEF Lower
<1> HIDE DEF L
<1>3. \A x, y \in D : L(y, x) => Upto(x) \subseteq Upto(y)
  BY <1>1
<1>4. \A x \in T : C(x) \in Upto(x)
  BY Zenon
<1> DEFINE Glued(S, h) == \A y \in S : h[y] = C(y)[y]
<1>5. ASSUME NEW S, S \subseteq T, \A y \in S, z \in D : L(z, y) => z \in S,
             NEW h \in F, Glued(S, h)
      PROVE  \A y \in S : h[y] = G[y][h]
  <2> TAKE y \in S
  <2>1. C(y) \in Upto(y) /\ y \in D
    <3>1. y \in T
      BY <1>5
    <3>2. y \in D
      BY <3>1
    <3> HIDE DEF C, Upto, T
    <3> QED BY <3>1, <3>2, <1>4
  <2>2. ASSUME NEW z \in D, L(z, y) PROVE C(y)[z] = h[z]
    <3>1. z \in S /\ z \in T
      BY <1>5, <2>2
    <3> HIDE DEF C, Upto, T
    <3>2. C(y) \in Upto(z) /\ C(z) \in Upto(z)
      BY <2>1, <2>2, <3>1, <1>3, <1>4
    <3> USE DEF T
    <3>3. C(y)[z] = C(z)[z]
      BY <3>1, <3>2
    <3> QED BY <3>1, <3>3, <1>5
  <2>3. C(y) \in F /\ C(y)[y] = G[y][C(y)]
    BY <2>1
  <2> HIDE DEF C, Upto, T
  <2>4. G[y][C(y)] = G[y][h]
    BY <2>1, <2>2, <2>3 DEF L
  <2>5. h[y] = C(y)[y]
    BY <1>5
  <2> QED BY <2>3, <2>4, <2>5
<1>6. ASSUME NEW x \in D, \A y \in D : L(y, x) => y \in T
      PROVE  x \in T
  <2> DEFINE S == {y \in D : L(y, x)}
             h == [y \in D |-> IF y \in S THEN C(y)[y] ELSE CHOOSE v \in W[y] : TRUE]
             k == [h EXCEPT ![x] = G[x][h]]
  <2>1. S \subseteq T /\ \A y \in S, z \in D : L(z, y) => z \in S
    BY <1>1, <1>6
  <2>2. ASSUME NEW y \in D PROVE h[y] \in W[y]
    <3>1. CASE y \in S
      <4>1. C(y) \in F
        BY <2>1, <3>1, <1>4
      <4> HIDE DEF C, S
      <4> QED BY <3>1, <4>1
    <3>2. CASE y \notin S
      <4>1. h[y] = CHOOSE v \in W[y] : TRUE
        BY <3>2
      <4>2. W[y] # {}
        OBVIOUS
      <4> HIDE DEF h
      <4> QED BY <4>1, <4>2, Zenon
    <3> QED BY <3>1, <3>2
  <2>3. h \in F /\ Glued(S, h)
    <3>1. \A y \in D : W[y] \in SUBSET V
      OBVIOUS
    <3> HIDE DEF S, C
    <3>2. h \in [D -> V]
      <4>1. \A y \in D : h[y] \in V
        BY <2>2, <3>1
      <4>2. h = [y \in D |-> h[y]]
        OBVIOUS
      <4> HIDE DEF h
      <4> QED BY <4>1, <4>2
    <3>3. \A y \in S : h[y] = C(y)[y]
      BY DEF S
    <3> HIDE DEF h
    <3> QED BY <2>2, <3>2, <3>3
  <2> HIDE DEF h
  <2>4. \A y \in S : h[y] = G[y][h]
    <3> HIDE DEF C, Upto, T, Glued, S
    <3> QED BY <1>5, <2>1, <2>3
  <2>5. k \in F /\ k[x] = G[x][h] /\ \A y \in D : y # x => k[y] = h[y]
    <3>1. G[x][h] \in W[x] /\ W[x] \in SUBSET V /\ h \in [D -> V]
      BY <2>3
    <3>2. k \in [D -> V] /\ k[x] = G[x][h] /\ \A y \in D : y # x => k[y] = h[y]
      BY <3>1
    <3> HIDE DEF k
    <3>3. \A y \in D : k[y] \in W[y]
      BY <3>1, <3>2, <2>3
    <3> QED BY <3>2, <3>3
  <2> HIDE DEF k
  <2>6. \A y \in D : L(y, x) => G[y][k] = G[y][h]
    <3> TAKE y \in D
    <3> HAVE L(y, x)
    <3>1. \A z \in D : L(z, y) => k[z] = h[z]
      BY <1>1, <1>2, <2>5
    <3> HIDE DEF C, Upto, T, Glued, S
    <3>2. k \in F /\ h \in F
      BY <2>3, <2>5
    <3> QED BY <3>1, <3>2 DEF L
  <2>7. G[x][k] = G[x][h]
    <3>1. \A z \in D : L(z, x) => k[z] = h[z]
      BY <1>2, <2>5
    <3> HIDE DEF C, Upto, T, Glued, S
    <3>2. k \in F /\ h \in F
      BY <2>3, <2>5
    <3> QED BY <3>1, <3>2 DEF L
  <2>8. k \in Upto(x)
    BY <2>4, <2>5, <2>6, <2>7, <1>2
  <2>9. ASSUME NEW f \in Upto(x), NEW g \in Upto(x) PROVE f[x] = g[x]
    <3>1. ASSUME NEW y \in D, L(y, x) PROVE f[y] = g[y]
      <4>1. Upto(x) \subseteq Upto(y) /\ y \in T
        <5> HIDE DEF Upto, T, C
        <5> QED BY <1>3, <1>6, <3>1
      <4> HIDE DEF Upto
      <4> QED BY <4>1
    <3>2. G[x][f] = G[x][g]
      BY <3>1 DEF L
    <3> QED BY <3>2
  <2> QED BY <2>8, <2>9
<1>7. D \subseteq T
  <2> HIDE DEF T
  <2>1. Hereditary(D, a, b, T)
    BY <1>6 DEF L, Hereditary
  <2> QED BY <2>1, RankInduction
<1> DEFINE h == [y \in D |-> C(y)[y]]
<1>8. \A y \in D : C(y) \in F
  BY <1>4, <1>7
<1>9. h \in F /\ Glued(D, h)
  <2> HIDE DEF C
  <2>1. \A y \in D : h[y] \in W[y] /\ h[y] \in V
    BY <1>8
  <2>2. h = [y \in D |-> h[y]] /\ \A y \in D : h[y] = C(y)[y]
    OBVIOUS
  <2> HIDE DEF h
  <2> QED BY <2>1, <2>2
<1> HIDE DEF h, Glued, C, Upto, T
<1>10. \A y \in D : h[y] = G[y][h]
  BY <1>5, <1>7, <1>9
<1> QED
  BY <1>9, <1>10

-----------------------------------------------------------------------------
(* FsModel: the components of a path                                       *)

\* The function of Real is defined, and goes along the components.
LEMMA RealSteps ==
    ASSUME NEW p, p.comps \in Seq(Component)
    PROVE  \E f \in [0..Len(p.comps) -> Seq(Component)] :
             /\ Real(p) = f[Len(p.comps)] /\ f[0] = <<>>
             /\ \A i \in 1..Len(p.comps) :
                  f[i] = IF p.comps[i] = "." THEN f[i - 1] ELSE Append(f[i - 1], p.comps[i])
<1> DEFINE cs == p.comps
           n == Len(cs)
           D == 0..n
           V == Seq(Component)
           P(f) == f = [i \in D |-> RealTo(cs, i, f)]
           R == CHOOSE f : P(f)
<1>1. n \in Nat /\ \A i \in 1..n : cs[i] \in Component
  OBVIOUS
<1>2. \E f \in [D -> V] : \A i \in D : f[i] = RealTo(cs, i, f)
  <2> DEFINE a == [i \in D |-> i]
             b == [i \in D |-> 0]
             W == [i \in D |-> V]
             F == {f \in [D -> V] : \A i \in D : f[i] \in W[i]}
             G == [i \in D |-> [f \in F |-> RealTo(cs, i, f)]]
  <2>1. \A i \in D, f \in F : RealTo(cs, i, f) \in V
    <3> TAKE i \in D, f \in F
    <3>1. CASE i = 0
      BY <3>1 DEF RealTo
    <3>2. CASE i # 0
      <4>1. i - 1 \in D /\ i \in 1..n
        BY <3>2, <1>1
      <4>2. f[i - 1] \in V
        <5> HIDE DEF D, V
        <5> QED BY <4>1
      <4>3. \A ss \in V, c \in Component : Append(ss, c) \in V
        OBVIOUS
      <4> HIDE DEF n, cs, V, D
      <4> QED BY <3>2, <4>1, <4>2, <4>3, <1>1 DEF RealTo
    <3> QED BY <3>1, <3>2
  <2>2. a \in [D -> Nat] /\ b \in [D -> Nat]
    BY <1>1
  <2>3. W \in [D -> SUBSET V] /\ \A i \in D : W[i] # {}
    OBVIOUS
  <2>4. G \in [D -> [F -> V]] /\ \A i \in D, f \in F : G[i][f] \in W[i]
    <3> HIDE DEF F, V, D
    <3> QED BY <2>1
  <2>5. \A i \in D, f, g \in F :
          (\A j \in D : Lower(a, b, j, i) => f[j] = g[j]) => G[i][f] = G[i][g]
    <3> TAKE i \in D, f \in F, g \in F
    <3> HAVE \A j \in D : Lower(a, b, j, i) => f[j] = g[j]
    <3>1. i # 0 => i - 1 \in D /\ Lower(a, b, i - 1, i)
      BY <1>1 DEF Lower
    <3>2. RealTo(cs, i, f) = RealTo(cs, i, g)
      BY <3>1 DEF RealTo
    <3> HIDE DEF F
    <3> QED BY <3>2
  <2> HIDE DEF G, W, a, b, D, V
  <2>6. \E f \in F : \A i \in D : f[i] = G[i][f]
    <3>1. Recurses(D, a, b, V, W, F, G)
      BY <2>2, <2>3, <2>4, <2>5 DEF Recurses
    <3> HIDE DEF F
    <3> QED BY <3>1, RecursionExists
  <2>7. \A f \in F : f \in [D -> V]
    BY DEF F
  <2> HIDE DEF F
  <2>8. \A f \in F, i \in D : G[i][f] = RealTo(cs, i, f)
    BY DEF G
  <2> QED BY <2>6, <2>7, <2>8
<1> HIDE DEF D, V
<1>3. \E f : P(f)
  BY <1>2
<1>4. P(R)
  <2> HIDE DEF P
  <2> QED BY <1>3, Zenon
<1>5. \A f, g : P(f) /\ P(g) => f = g
  <2> SUFFICES ASSUME NEW f, NEW g, P(f), P(g) PROVE f = g
    OBVIOUS
  <2> DEFINE T == {i \in D : f[i] = g[i]}
             a == [i \in D |-> i]
             b == [i \in D |-> 0]
  <2>1. \A i \in D : f[i] = RealTo(cs, i, f) /\ g[i] = RealTo(cs, i, g)
    OBVIOUS
  <2>2. ASSUME NEW i \in D, \A j \in D : Lower(a, b, j, i) => j \in T PROVE i \in T
    <3>1. i # 0 => i - 1 \in D /\ Lower(a, b, i - 1, i)
      BY <1>1 DEF Lower, D
    <3> HIDE DEF P
    <3> QED BY <2>1, <2>2, <3>1 DEF RealTo
  <2>3. a \in [D -> Nat] /\ b \in [D -> Nat]
    BY <1>1 DEF D
  <2>4. D \subseteq T
    <3> HIDE DEF P, T, a, b
    <3>1. Hereditary(D, a, b, T)
      BY <2>2, <2>3 DEF Hereditary
    <3> QED BY <3>1, RankInduction
  <2> QED BY <2>4
<1>6. R \in [D -> V] /\ \A i \in D : R[i] = RealTo(cs, i, R)
  <2>1. PICK f \in [D -> V] : \A i \in D : f[i] = RealTo(cs, i, f)
    BY <1>2
  <2>2. P(f)
    BY <2>1
  <2> HIDE DEF P, R
  <2>3. R = f
    BY <1>4, <1>5, <2>2
  <2> QED BY <2>1, <2>3
<1>7. Real(p) = R[n]
  BY DEF Real, D
<1> HIDE DEF R, P
<1>8. R[0] = <<>> /\ \A i \in 1..n : R[i] = IF cs[i] = "." THEN R[i - 1] ELSE Append(R[i - 1], cs[i])
  BY <1>1, <1>6 DEF RealTo, D
<1> QED
  BY <1>6, <1>7, <1>8 DEF D, V

\* Induction up to a number.
Climbs(n, T) == n \in Nat /\ 0 \in T /\ \A i \in 1..n : i - 1 \in T => i \in T
LEMMA UpToInduction ==
    ASSUME NEW n, NEW T, Climbs(n, T)
    PROVE  0..n \subseteq T
<1> DEFINE D == 0..n
           a == [i \in D |-> i]
           b == [i \in D |-> 0]
<1>1. n \in Nat
  BY DEF Climbs
<1>2. \A i \in D : (\A j \in D : Lower(a, b, j, i) => j \in T) => i \in T
  <2> TAKE i \in D
  <2> HAVE \A j \in D : Lower(a, b, j, i) => j \in T
  <2>1. i # 0 => i - 1 \in D /\ Lower(a, b, i - 1, i) /\ i \in 1..n
    BY <1>1 DEF Lower
  <2> QED BY <2>1 DEF Climbs
<1>3. a \in [D -> Nat] /\ b \in [D -> Nat]
  BY <1>1
<1> HIDE DEF a, b
<1>4. Hereditary(D, a, b, T)
  BY <1>2, <1>3 DEF Hereditary
<1> QED
  BY <1>4, RankInduction

\* Its components are names, and none is ".".
LEMMA RealIs ==
    ASSUME NEW p, p.comps \in Seq(Component)
    PROVE  Real(p) \in Seq(Component) /\ \A i \in 1..Len(Real(p)) : Real(p)[i] # "."
<1> DEFINE n == Len(p.comps)
<1>1. PICK f \in [0..n -> Seq(Component)] :
             /\ Real(p) = f[n] /\ f[0] = <<>>
             /\ \A i \in 1..n :
                  f[i] = IF p.comps[i] = "." THEN f[i - 1] ELSE Append(f[i - 1], p.comps[i])
  BY RealSteps
<1>2. n \in Nat /\ \A i \in 1..n : p.comps[i] \in Component
  OBVIOUS
<1> HIDE DEF n
<1> DEFINE Proper(r) == \A j \in 1..Len(r) : r[j] # "."
           T == {i \in 0..n : Proper(f[i])}
<1>3. \A r \in Seq(Component), c \in Component : Proper(r) /\ c # "." => Proper(Append(r, c))
  OBVIOUS
<1>4. Proper(<<>>)
  OBVIOUS
<1> HIDE DEF Proper
<1>5. \A i \in 1..n : i - 1 \in T => i \in T
  <2> TAKE i \in 1..n
  <2> HAVE i - 1 \in T
  <2>1. i - 1 \in 0..n /\ i \in 0..n /\ f[i - 1] \in Seq(Component) /\ p.comps[i] \in Component
    BY <1>2
  <2> QED BY <1>1, <1>3, <2>1
<1>6. Climbs(n, T)
  <2>1. 0 \in T
    BY <1>1, <1>2, <1>4
  <2> HIDE DEF T
  <2> QED BY <1>2, <1>5, <2>1 DEF Climbs
<1>7. n \in T
  <2> HIDE DEF T
  <2>1. 0..n \subseteq T
    BY <1>6, UpToInduction
  <2> QED BY <1>2, <2>1
<1> QED
  BY <1>1, <1>2, <1>7 DEF Proper

\* One component more is one more there, unless it is ".".
LEMMA RealAppend ==
    ASSUME NEW p, p.comps \in Seq(Component), NEW q, NEW c \in Component, q.comps = Append(p.comps, c)
    PROVE  Real(q) = IF c = "." THEN Real(p) ELSE Append(Real(p), c)
<1> DEFINE n == Len(p.comps)
<1>1. n \in Nat /\ q.comps \in Seq(Component) /\ Len(q.comps) = n + 1 /\ q.comps[n + 1] = c
      /\ \A i \in 1..n : q.comps[i] = p.comps[i]
  OBVIOUS
<1>2. PICK f \in [0..n -> Seq(Component)] :
             /\ Real(p) = f[n] /\ f[0] = <<>>
             /\ \A i \in 1..n :
                  f[i] = IF p.comps[i] = "." THEN f[i - 1] ELSE Append(f[i - 1], p.comps[i])
  BY RealSteps
<1> HIDE DEF n
<1>3. PICK g \in [0..(n + 1) -> Seq(Component)] :
             /\ Real(q) = g[n + 1] /\ g[0] = <<>>
             /\ \A i \in 1..(n + 1) :
                  g[i] = IF q.comps[i] = "." THEN g[i - 1] ELSE Append(g[i - 1], q.comps[i])
  <2>1. PICK g \in [0..Len(q.comps) -> Seq(Component)] :
             /\ Real(q) = g[Len(q.comps)] /\ g[0] = <<>>
             /\ \A i \in 1..Len(q.comps) :
                  g[i] = IF q.comps[i] = "." THEN g[i - 1] ELSE Append(g[i - 1], q.comps[i])
    BY <1>1, RealSteps
  <2>2. Len(q.comps) = n + 1
    BY <1>1
  <2> QED BY <2>1, <2>2
<1>0. n \in Nat
  BY <1>1
<1> DEFINE T == {i \in 0..n : f[i] = g[i]}
<1>4. Climbs(n, T)
  <2>1. 0 \in T
    BY <1>1, <1>2, <1>3
  <2>2. \A i \in 1..n : i - 1 \in T => i \in T
    <3> TAKE i \in 1..n
    <3> HAVE i - 1 \in T
    <3>1. i \in 1..(n + 1) /\ i \in 0..n /\ q.comps[i] = p.comps[i] /\ f[i - 1] = g[i - 1]
      BY <1>1
    <3> QED BY <3>1, <1>2, <1>3
  <2> HIDE DEF T
  <2> QED BY <1>1, <2>1, <2>2 DEF Climbs
<1>5. n \in T
  <2> HIDE DEF T
  <2>1. 0..n \subseteq T
    BY <1>4, UpToInduction
  <2> QED BY <1>0, <2>1
<1>6. n + 1 \in 1..(n + 1) /\ (n + 1) - 1 = n
  BY <1>1
<1>7. g[n + 1] = IF c = "." THEN g[n] ELSE Append(g[n], c)
  BY <1>1, <1>3, <1>6
<1> QED
  BY <1>2, <1>3, <1>5, <1>7

\* Where no component is ".", they are all there.
LEMMA RealWhole ==
    ASSUME NEW p, p.comps \in Seq(Component), \A i \in 1..Len(p.comps) : p.comps[i] # "."
    PROVE  Real(p) = p.comps
<1> DEFINE n == Len(p.comps)
           cs == p.comps
<1>1. PICK f \in [0..n -> Seq(Component)] :
             /\ Real(p) = f[n] /\ f[0] = <<>>
             /\ \A i \in 1..n :
                  f[i] = IF p.comps[i] = "." THEN f[i - 1] ELSE Append(f[i - 1], p.comps[i])
  BY RealSteps
<1> DEFINE T == {i \in 0..n : f[i] = SubSeq(cs, 1, i)}
<1>2. n \in Nat /\ SubSeq(cs, 1, 0) = <<>> /\ SubSeq(cs, 1, n) = cs
  OBVIOUS
<1>3. \A i \in 1..n : Append(SubSeq(cs, 1, i - 1), cs[i]) = SubSeq(cs, 1, i)
  OBVIOUS
<1>4. Climbs(n, T)
  <2>1. 0 \in T
    BY <1>1, <1>2
  <2>2. \A i \in 1..n : i - 1 \in T => i \in T
    <3> TAKE i \in 1..n
    <3> HAVE i - 1 \in T
    <3>1. i \in 0..n /\ f[i - 1] = SubSeq(cs, 1, i - 1)
      BY <1>2
    <3>2. f[i] = Append(f[i - 1], cs[i])
      BY <1>1
    <3> QED BY <3>1, <3>2, <1>3
  <2> HIDE DEF T, n
  <2> QED BY <1>2, <2>1, <2>2 DEF Climbs
<1>5. n \in T
  <2> HIDE DEF T
  <2>1. 0..n \subseteq T
    BY <1>4, UpToInduction
  <2> QED BY <1>2, <2>1
<1> QED
  BY <1>1, <1>2, <1>5

-----------------------------------------------------------------------------
(* FsModel: the model in order                                             *)

\* The names that an entry may have.
GoodNames == Component \ ({".", ".."} \cup LongNames)

\* A node that nothing is mounted on.
Clear(s, n) == n \in DOMAIN s.nodes /\ s.nodes[n].over = 0
Seat(s, n) == Clear(s, n) /\ IsDir(s, n)

\* What hangs together: parents, mounts and links are in the model; nothing is
\* made in a directory that another one is mounted on, and no process is there.
NodePlain(s, x) ==
    /\ x.link \in Path
    /\ x.over = 0 \/ (Seat(s, x.over) /\ IsDirKind(x.kind) /\ DOMAIN x.kids = {})
    /\ x.vup = 0 \/ Seat(s, x.vup)
    /\ x.up = 0 \/ Clear(s, x.up)
    /\ DOMAIN x.kids \subseteq GoodNames
Plain(s) ==
    /\ \A n \in DOMAIN s.nodes : NodePlain(s, s.nodes[n])
    /\ Seat(s, RootNode) /\ Clear(s, s.cwd)
    /\ \A f \in DOMAIN s.fds : Clear(s, s.fds[f].node)

\* The model is in order: the inductive invariant.
Sound(s) == ModelShape(s) /\ ModelOK(s) /\ OneTree(TreeOf(s)) /\ Plain(s)

\* Its nodes and what they refer to.
LEMMA NodesAre ==
    ASSUME NEW s, Sound(s)
    PROVE  /\ Len(s.nodes) \in Nat /\ DOMAIN s.nodes = 1..Len(s.nodes)
           /\ DOMAIN s.nodes \subseteq Nat /\ 0 \notin DOMAIN s.nodes
           /\ RootNode \in DOMAIN s.nodes /\ s.nodes[RootNode].over = 0
           /\ \A n \in DOMAIN s.nodes : NodePlain(s, s.nodes[n])
           /\ \A n \in DOMAIN s.nodes : \A c \in DOMAIN s.nodes[n].kids :
                s.nodes[n].kids[c] \in DOMAIN s.nodes
<1>1. Len(s.nodes) \in Nat /\ DOMAIN s.nodes = 1..Len(s.nodes)
  BY DEF Sound, ModelShape
<1>2. /\ RootNode \in DOMAIN s.nodes /\ s.nodes[RootNode].over = 0
      /\ \A n \in DOMAIN s.nodes : NodePlain(s, s.nodes[n])
  BY DEF Sound, Plain, Clear, Seat
<1>3. ASSUME NEW n \in DOMAIN s.nodes, NEW c \in DOMAIN s.nodes[n].kids
      PROVE  s.nodes[n].kids[c] \in DOMAIN s.nodes
  <2> DEFINE e == Entry(n, c, s.nodes[n].kids[c])
  <2>1. e \in TreeOf(s).entries
    BY <1>3, EntryIn, EntryParts
  <2>2. e.node \in 1..TreeOf(s).count /\ TreeOf(s).count = Len(s.nodes)
    BY <2>1, TreeParts, TreeIs DEF Sound
  <2>3. e.node = s.nodes[n].kids[c]
    BY EntryParts
  <2> QED BY <1>1, <2>2, <2>3
<1> QED
  BY <1>1, <1>2, <1>3

\* Where a walk goes from a node, to a mount, upwards or from the root, is a
\* node again, and in the view of a process never one that is mounted on.
LEMMA TurnsAre ==
    ASSUME NEW s, Sound(s), NEW view, NEW n \in DOMAIN s.nodes
    PROVE  /\ Enter(s, view, n) \in DOMAIN s.nodes
           /\ Up(s, view, n) \in DOMAIN s.nodes
           /\ \A p : Origin(s, view, n, p) \in DOMAIN s.nodes
           /\ view = "virtual" => Clear(s, Enter(s, view, n))
           /\ Clear(s, n) => Clear(s, Up(s, view, n))
           /\ view = "virtual" => \A p : Clear(s, Origin(s, view, n, p))
<1>1. /\ RootNode \in DOMAIN s.nodes /\ \A x \in DOMAIN s.nodes : NodePlain(s, s.nodes[x])
  BY NodesAre
<1>2. \A x \in DOMAIN s.nodes :
        /\ Enter(s, view, x) \in DOMAIN s.nodes
        /\ view = "virtual" => Clear(s, Enter(s, view, x))
  BY <1>1 DEF Enter, NodePlain, Clear, Seat
<1>3. Up(s, view, n) \in DOMAIN s.nodes /\ (Clear(s, n) => Clear(s, Up(s, view, n)))
  BY <1>1 DEF Up, NodePlain, Clear, Seat
<1> QED
  BY <1>1, <1>2, <1>3 DEF Origin

-----------------------------------------------------------------------------
(* FsModel: what a walk finds                                              *)

Errnos == {"ok", "ENOENT", "ENOTDIR", "ENAMETOOLONG", "ELOOP"}
Outcomes == [err : Errnos, node : Nat, links : Nat]
\* What a walk x may come to.
Within(s, x) ==
    {r \in Outcomes : r.links >= x.links /\ (r.err = "ok" => r.node \in DOMAIN s.nodes)}
Walkers(s) == {f \in [Walks(s) -> Outcomes] : \A x \in Walks(s) : f[x] \in Within(s, x)}

\* Walks come to an end: a link costs one of those that are left, and a name
\* one of the components.
LinksLeft(x) == IF x.links > MaxLinks THEN 0 ELSE MaxLinks + 1 - x.links
Sooner(y, x) ==
    LinksLeft(y) < LinksLeft(x) \/ (LinksLeft(y) = LinksLeft(x) /\ Len(y.cs) < Len(x.cs))

LEMMA FoundIs ==
    ASSUME NEW n, NEW links, NEW e
    PROVE  /\ Found(n, links).err = "ok" /\ Found(n, links).node = n
           /\ Found(n, links).links = links
           /\ Lost(e, links).err = e /\ Lost(e, links).node = 0 /\ Lost(e, links).links = links
BY DEF Found, Lost

LEMMA WalkOfIs ==
    ASSUME NEW cur, NEW cs, NEW last, NEW slash, NEW links
    PROVE  LET x == WalkOf(cur, cs, last, slash, links) IN
           x.cur = cur /\ x.cs = cs /\ x.last = last /\ x.slash = slash /\ x.links = links
BY DEF WalkOf

\* The walks that a walk continues with are walks, and end sooner.
LEMMA OnwardIs ==
    ASSUME FsNames, NEW s, Sound(s), NEW view, NEW x \in Walks(s), x.cs # <<>>,
           NEW n \in DOMAIN s.nodes, NEW links \in Nat, links >= x.links
    PROVE  LET y == Onward(s, view, x, n, links) IN
           /\ y \in Walks(s) /\ Sooner(y, x) /\ y.links = links
           /\ y.cur = Enter(s, view, n) /\ y.cs = Tail(x.cs) /\ y.last = x.last
           /\ y.slash = x.slash /\ Len(y.cs) = Len(x.cs) - 1
<1> DEFINE y == Onward(s, view, x, n, links)
<1>1. x.cs \in Seq(Component) /\ x.last \in BOOLEAN /\ x.slash \in BOOLEAN /\ x.links \in Nat
  BY DEF Walks
<1>2. Tail(x.cs) \in Seq(Component) /\ Len(Tail(x.cs)) = Len(x.cs) - 1 /\ Len(x.cs) \in Nat \ {0}
  <2> DEFINE cs == x.cs
  <2>1. cs \in Seq(Component) /\ cs # <<>>
    BY <1>1
  <2> HIDE DEF cs
  <2>2. Tail(cs) \in Seq(Component) /\ Len(Tail(cs)) = Len(cs) - 1 /\ Len(cs) \in Nat \ {0}
    BY <2>1
  <2> QED BY <2>2 DEF cs
<1>3. Enter(s, view, n) \in DOMAIN s.nodes
  BY TurnsAre
<1>4. /\ y.links = links /\ y.cur = Enter(s, view, n) /\ y.cs = Tail(x.cs) /\ y.last = x.last
      /\ y.slash = x.slash
  BY DEF Onward, WalkOf
<1>5. y \in Walks(s)
  BY <1>1, <1>2, <1>3 DEF Walks, Onward, WalkOf
<1> HIDE DEF y
<1>6. Sooner(y, x)
  <2>1. Len(y.cs) < Len(x.cs)
    BY <1>2, <1>4
  <2>2. LinksLeft(y) = LinksLeft(x) \/ LinksLeft(y) < LinksLeft(x)
    BY <1>1, <1>4 DEF LinksLeft, FsNames
  <2> QED BY <2>1, <2>2 DEF Sooner
<1> QED
  BY <1>2, <1>4, <1>5, <1>6 DEF y
LEMMA ThroughParts ==
    ASSUME NEW s, NEW view, NEW x, NEW link
    PROVE  LET y == Through(s, view, x, link) IN
           /\ y.links = x.links + 1 /\ y.cur = Origin(s, view, x.cur, link) /\ y.cs = Real(link)
           /\ y.last = TRUE /\ y.slash = AsksDir(link)
BY DEF Through, WalkOf
LEMMA ThroughIs ==
    ASSUME FsNames, NEW s, Sound(s), NEW view, NEW x \in Walks(s), x.links + 1 <= MaxLinks,
           NEW link \in Path
    PROVE  Through(s, view, x, link) \in Walks(s) /\ Sooner(Through(s, view, x, link), x)
<1> DEFINE y == Through(s, view, x, link)
<1>1. x.cur \in DOMAIN s.nodes /\ x.links \in Nat
  BY DEF Walks
<1>2. link.comps \in Seq(Component) /\ link.slash \in BOOLEAN
  BY DEF Path
<1>3. Real(link) \in Seq(Component) /\ AsksDir(link) \in BOOLEAN
  BY <1>2, RealIs DEF AsksDir
<1>4. Origin(s, view, x.cur, link) \in DOMAIN s.nodes
  BY <1>1, TurnsAre
<1>5. /\ y.links = x.links + 1 /\ y.cur = Origin(s, view, x.cur, link) /\ y.cs = Real(link)
      /\ y.last = TRUE /\ y.slash = AsksDir(link)
  BY DEF Through, WalkOf
<1>6. y \in Walks(s)
  BY <1>1, <1>3, <1>4 DEF Walks, Through, WalkOf
<1> HIDE DEF y
<1>7. Sooner(y, x)
  BY <1>1, <1>5 DEF Sooner, LinksLeft, FsNames
<1> QED
  BY <1>5, <1>6, <1>7 DEF y

\* Ends of a walk.
LEMMA EndsAre ==
    ASSUME NEW s, NEW x, x.links \in Nat, NEW links \in Nat, links >= x.links
    PROVE  /\ \A n \in DOMAIN s.nodes : n \in Nat => Found(n, links) \in Within(s, x)
           /\ \A e \in Errnos : e # "ok" => Lost(e, links) \in Within(s, x)
<1>1. \A n \in DOMAIN s.nodes : n \in Nat => Found(n, links) \in Outcomes
  BY DEF Outcomes, Found, Errnos
<1>2. \A e \in Errnos : e # "ok" => Lost(e, links) \in Outcomes
  BY DEF Outcomes, Lost
<1> QED
  BY <1>1, <1>2, FoundIs DEF Within

\* on has answers for the walks that end sooner; h has the same.
Answers(s, x, on) == \A y \in Walks(s) : Sooner(y, x) => on[y] \in Within(s, y)
SameAnswers(s, x, h, on) == \A y \in Walks(s) : Sooner(y, x) => h[y] = on[y]

\* The walks that a step asks about, and what it makes of their answers.
LEMMA NextNodeIs ==
    ASSUME FsNames, NEW s, Sound(s), NEW view, NEW x \in Walks(s), x.cs # <<>>,
           Has(s, x.cur, Head(x.cs)), NEW on, Answers(s, x, on)
    PROVE  /\ NextNode(s, view, x, on) \in Within(s, x)
           /\ \A h : SameAnswers(s, x, h, on) => NextNode(s, view, x, h) = NextNode(s, view, x, on)
<1> DEFINE child == Kids(s, x.cur)[Head(x.cs)]
           link == s.nodes[child].link
           y == Through(s, view, x, link)
<1>1. child \in DOMAIN s.nodes /\ link \in Path /\ x.links \in Nat /\ child \in Nat
  BY NodesAre DEF Has, Kids, Walks, NodePlain
<1>2. CASE s.nodes[child].kind # "link" \/ ~(Tail(x.cs) # <<>> \/ x.slash \/ x.last)
  <2>1. \A h : NextNode(s, view, x, h) = Found(child, x.links)
    BY <1>2 DEF NextNode
  <2>2. x.links \in Nat /\ x.links + 1 \in Nat /\ x.links >= x.links /\ x.links + 1 >= x.links
    BY <1>1
  <2> QED BY <2>1, <2>2, <1>1, EndsAre DEF Errnos
<1>3. CASE /\ ~(s.nodes[child].kind # "link" \/ ~(Tail(x.cs) # <<>> \/ x.slash \/ x.last))
           /\ x.links + 1 > MaxLinks
  <2>1. \A h : NextNode(s, view, x, h) = Lost("ELOOP", x.links + 1)
    BY <1>3 DEF NextNode
  <2>2. x.links \in Nat /\ x.links + 1 \in Nat /\ x.links >= x.links /\ x.links + 1 >= x.links
    BY <1>1
  <2> QED BY <2>1, <2>2, <1>1, EndsAre DEF Errnos
<1>4. CASE /\ ~(s.nodes[child].kind # "link" \/ ~(Tail(x.cs) # <<>> \/ x.slash \/ x.last))
           /\ ~(x.links + 1 > MaxLinks) /\ IsEmptyPath(link)
  <2>1. \A h : NextNode(s, view, x, h) = Lost("ENOENT", x.links + 1)
    BY <1>4 DEF NextNode
  <2>2. x.links \in Nat /\ x.links + 1 \in Nat /\ x.links >= x.links /\ x.links + 1 >= x.links
    BY <1>1
  <2> QED BY <2>1, <2>2, <1>1, EndsAre DEF Errnos
<1>5. CASE /\ ~(s.nodes[child].kind # "link" \/ ~(Tail(x.cs) # <<>> \/ x.slash \/ x.last))
           /\ ~(x.links + 1 > MaxLinks) /\ ~IsEmptyPath(link)
  <2>1. \A h : NextNode(s, view, x, h) = h[y]
    BY <1>5 DEF NextNode
  <2>2. x.links + 1 <= MaxLinks
    <3>1. MaxLinks \in Nat
      BY DEF FsNames
    <3> QED BY <3>1, <1>1, <1>5
  <2>3. y \in Walks(s) /\ Sooner(y, x) /\ y.links = x.links + 1
    <3>1. link \in Path
      BY <1>1
    <3> HIDE DEF child, link
    <3>2. y \in Walks(s) /\ Sooner(y, x)
      BY <2>2, <3>1, ThroughIs
    <3>3. y.links = x.links + 1
      BY DEF Through, WalkOf
    <3> QED BY <3>2, <3>3
  <2> HIDE DEF y, child, link
  <2>4. on[y] \in Within(s, x)
    <3>1. on[y] \in Within(s, y)
      BY <2>3 DEF Answers
    <3> QED BY <3>1, <2>3, <1>1 DEF Within, Outcomes
  <2> QED BY <2>1, <2>3, <2>4 DEF SameAnswers
<1> QED
  BY <1>2, <1>3, <1>4, <1>5

LEMMA WalkedIs ==
    ASSUME FsNames, NEW s, Sound(s), NEW view, NEW x \in Walks(s), NEW on, Answers(s, x, on)
    PROVE  /\ Walked(s, view, x, on) \in Within(s, x)
           /\ \A h : SameAnswers(s, x, h, on) => Walked(s, view, x, h) = Walked(s, view, x, on)
<1> DEFINE up == Up(s, view, x.cur)
           r(h) == NextNode(s, view, x, h)
           Alike2(h) == SameAnswers(s, x, h, on)
<1>1. x.cur \in DOMAIN s.nodes /\ x.links \in Nat /\ up \in DOMAIN s.nodes /\ x.cur \in Nat
  BY TurnsAre, NodesAre DEF Walks
<1>2. ASSUME x.cs # <<>>, NEW n \in DOMAIN s.nodes, NEW links \in Nat, links >= x.links
      PROVE  /\ on[Onward(s, view, x, n, links)] \in Within(s, x)
             /\ \A h : Alike2(h) =>
                  h[Onward(s, view, x, n, links)] = on[Onward(s, view, x, n, links)]
  <2> DEFINE y == Onward(s, view, x, n, links)
  <2>1. y \in Walks(s) /\ Sooner(y, x) /\ y.links = links
    BY <1>2, OnwardIs
  <2> HIDE DEF y
  <2>2. on[y] \in Within(s, y)
    BY <2>1 DEF Answers
  <2>3. on[y] \in Within(s, x)
    BY <2>1, <2>2, <1>1, <1>2 DEF Within, Outcomes
  <2> QED BY <2>1, <2>3 DEF y, SameAnswers
<1>3. CASE x.cs = <<>>
  <2>1. \A h : Walked(s, view, x, h) = Found(x.cur, x.links)
    BY <1>3 DEF Walked, WalkedTo
  <2>2. x.links \in Nat /\ x.links + 1 \in Nat /\ x.links >= x.links /\ x.links + 1 >= x.links
    BY <1>1
  <2> QED BY <2>1, <2>2, <1>1, EndsAre DEF Errnos
<1>4. CASE x.cs # <<>> /\ Head(x.cs) = ".."
  <2>1. \A h : Walked(s, view, x, h) = h[Onward(s, view, x, up, x.links)]
    BY <1>4 DEF Walked, WalkedTo
  <2>2. x.links >= x.links
    BY <1>1
  <2> QED BY <2>1, <2>2, <1>1, <1>2, <1>4
<1>5. CASE \E e \in {"ENAMETOOLONG", "ENOTDIR", "ENOENT"} :
              \A h : Walked(s, view, x, h) = Lost(e, x.links)
  <2>1. x.links >= x.links
    BY <1>1
  <2> QED BY <2>1, <1>1, <1>5, EndsAre DEF Errnos
<1>6. CASE /\ x.cs # <<>> /\ Head(x.cs) # ".." /\ Head(x.cs) \notin LongNames
           /\ IsDir(s, x.cur) /\ Has(s, x.cur, Head(x.cs))
  <2>1. r(on) \in Within(s, x) /\ \A h : Alike2(h) => r(h) = r(on)
    BY <1>6, NextNodeIs
  <2> DEFINE W(h) == IF r(h).err # "ok" THEN r(h)
              ELSE IF (Tail(x.cs) # <<>> \/ x.slash) /\ ~IsDir(s, r(h).node)
                THEN Lost("ENOTDIR", r(h).links)
              ELSE h[Onward(s, view, x, r(h).node, r(h).links)]
  <2>2. \A h : Walked(s, view, x, h) = W(h)
    BY <1>6 DEF Walked, WalkedTo
  <2> HIDE DEF r
  <2>3. CASE r(on).err # "ok"
    <3>1. \A h : Alike2(h) => W(h) = r(on)
      BY <2>1, <2>3
    <3>0. Alike2(on)
      BY DEF SameAnswers
    <3> HIDE DEF W
    <3> QED BY <2>1, <2>2, <3>0, <3>1
  <2>4. CASE r(on).err = "ok" /\ (Tail(x.cs) # <<>> \/ x.slash) /\ ~IsDir(s, r(on).node)
    <3>1. \A h : Alike2(h) => W(h) = Lost("ENOTDIR", r(on).links)
      BY <2>1, <2>4
    <3>2. Lost("ENOTDIR", r(on).links) \in Within(s, x)
      <4>1. r(on).links \in Nat /\ r(on).links >= x.links
        BY <2>1 DEF Within, Outcomes
      <4> QED BY <4>1, <1>1, EndsAre DEF Errnos
    <3>0. Alike2(on)
      BY DEF SameAnswers
    <3> HIDE DEF W
    <3> QED BY <2>2, <3>0, <3>1, <3>2
  <2>5. CASE r(on).err = "ok" /\ ~((Tail(x.cs) # <<>> \/ x.slash) /\ ~IsDir(s, r(on).node))
    <3> DEFINE y == Onward(s, view, x, r(on).node, r(on).links)
    <3>1. \A h : Alike2(h) => W(h) = h[y]
      BY <2>1, <2>5
    <3>2. r(on).node \in DOMAIN s.nodes /\ r(on).links \in Nat /\ r(on).links >= x.links
      BY <2>1, <2>5 DEF Within, Outcomes
    <3>3. on[y] \in Within(s, x) /\ \A h : Alike2(h) => h[y] = on[y]
      BY <1>2, <1>6, <3>2
    <3>0. Alike2(on)
      BY DEF SameAnswers
    <3> HIDE DEF W, y
    <3> QED BY <2>2, <3>0, <3>1, <3>3
  <2> QED BY <2>3, <2>4, <2>5
<1> QED
  BY <1>3, <1>4, <1>5, <1>6 DEF Walked, WalkedTo

\* So the recursion of Walk is defined: it is what a step makes of itself.
Walker(s, view) == CHOOSE f : f = [x \in Walks(s) |-> Walked(s, view, x, f)]

LEMMA WalkerIs ==
    ASSUME FsNames, NEW s, Sound(s), NEW view
    PROVE  /\ Walker(s, view) \in Walkers(s)
           /\ \A x \in Walks(s) : Walker(s, view)[x] = Walked(s, view, x, Walker(s, view))
           /\ \A from, names, follow, dirOnly, before :
                Walk(s, view, from, names, follow, dirOnly, before) =
                  Walker(s, view)[WalkOf(from, names, follow, dirOnly, before)]
<1> DEFINE D == Walks(s)
           V == Outcomes
           W == [x \in D |-> Within(s, x)]
           F == Walkers(s)
           G == [x \in D |-> [f \in F |-> Walked(s, view, x, f)]]
           a == [x \in D |-> LinksLeft(x)]
           b == [x \in D |-> Len(x.cs)]
           P(f) == f = [x \in Walks(s) |-> Walked(s, view, x, f)]
           R == Walker(s, view)
<1>1. \A x, y \in D : Lower(a, b, y, x) <=> Sooner(y, x)
  BY DEF Lower, Sooner
<1>2. a \in [D -> Nat] /\ b \in [D -> Nat]
  <2>1. \A x \in D : x.links \in Nat /\ x.cs \in Seq(Component)
    BY DEF Walks
  <2>2. \A x \in D : LinksLeft(x) \in Nat /\ Len(x.cs) \in Nat
    BY <2>1 DEF LinksLeft, FsNames
  <2> HIDE DEF D
  <2> QED BY <2>2
<1>3. \A x \in D, f \in F : Walked(s, view, x, f) \in Within(s, x)
  <2> TAKE x \in D, f \in F
  <2>1. Answers(s, x, f)
    BY DEF Walkers, Answers
  <2> HIDE DEF F
  <2> QED BY <2>1, WalkedIs
<1>4. \A x \in D, f, g \in F :
        (\A y \in D : Lower(a, b, y, x) => f[y] = g[y]) => G[x][f] = G[x][g]
  <2> TAKE x \in D, f \in F, g \in F
  <2> HAVE \A y \in D : Lower(a, b, y, x) => f[y] = g[y]
  <2>1. Answers(s, x, f)
    BY DEF Walkers, Answers
  <2>2. SameAnswers(s, x, g, f)
    BY <1>1 DEF SameAnswers
  <2>3. G[x][f] = Walked(s, view, x, f) /\ G[x][g] = Walked(s, view, x, g)
    OBVIOUS
  <2> HIDE DEF F, G, a, b
  <2> QED BY <2>1, <2>2, <2>3, WalkedIs
<1>5. Recurses(D, a, b, V, W, F, G)
  <2>1. W \in [D -> SUBSET V] /\ F = {f \in [D -> V] : \A x \in D : f[x] \in W[x]}
    BY DEF Within, Walkers
  <2>2. \A x \in D : W[x] # {}
    <3> TAKE x \in D
    <3>1. x.cur \in DOMAIN s.nodes /\ x.cur \in Nat /\ x.links \in Nat /\ x.links >= x.links
      BY NodesAre DEF Walks
    <3>2. Found(x.cur, x.links) \in Within(s, x)
      BY <3>1, EndsAre
    <3> QED BY <3>2
  <2>3. G \in [D -> [F -> V]] /\ \A x \in D, f \in F : G[x][f] \in W[x]
    <3>1. \A x \in D : Within(s, x) \subseteq V
      BY DEF Within
    <3> HIDE DEF F, D, V
    <3> QED BY <1>3, <3>1
  <2> HIDE DEF D, V, W, F, G, a, b
  <2> QED BY <1>2, <1>4, <2>1, <2>2, <2>3 DEF Recurses
<1>6. \E f : P(f)
  <2> HIDE DEF V, W, a, b
  <2>1. PICK f \in F : \A x \in D : f[x] = G[x][f]
    <3> HIDE DEF D, F, G
    <3> QED BY <1>5, RecursionExists
  <2>2. f = [x \in D |-> Walked(s, view, x, f)]
    <3>1. f \in [D -> Outcomes]
      BY DEF Walkers
    <3>2. \A x \in D : f[x] = Walked(s, view, x, f)
      BY <2>1
    <3> HIDE DEF D, F, G
    <3> QED BY <3>1, <3>2
  <2> QED BY <2>2
<1>7. P(R)
  <2>1. R = CHOOSE f : P(f)
    BY DEF Walker
  <2> HIDE DEF P, R
  <2> QED BY <1>6, <2>1, Zenon
<1>8. \A from, names, follow, dirOnly, before :
        Walk(s, view, from, names, follow, dirOnly, before) =
          R[WalkOf(from, names, follow, dirOnly, before)]
  BY DEF Walk, Walker
<1> HIDE DEF R
<1>9. \A x \in D : R[x] = Walked(s, view, x, R)
  BY <1>7
<1>10. R \in Walkers(s)
  <2> DEFINE T == {x \in D : R[x] \in Within(s, x)}
  <2>1. \A x \in D : (\A y \in D : Lower(a, b, y, x) => y \in T) => x \in T
    <3> TAKE x \in D
    <3> HAVE \A y \in D : Lower(a, b, y, x) => y \in T
    <3>1. Answers(s, x, R)
      BY <1>1 DEF Answers
    <3>2. Walked(s, view, x, R) \in Within(s, x)
      BY <3>1, WalkedIs
    <3> QED BY <1>9, <3>2
  <2>2. D \subseteq T
    <3> HIDE DEF D, T, a, b
    <3>1. Hereditary(D, a, b, T)
      BY <1>2, <2>1 DEF Hereditary
    <3> QED BY <3>1, RankInduction
  <2>3. \A x \in D : R[x] \in Outcomes
    BY <2>2 DEF Within
  <2>4. R = [x \in D |-> R[x]]
    <3>1. DOMAIN [x \in Walks(s) |-> Walked(s, view, x, R)] = D
      OBVIOUS
    <3> QED BY <1>7, <3>1
  <2> QED BY <2>2, <2>3, <2>4 DEF Walkers
<1> QED
  BY <1>8, <1>9, <1>10 DEF R

-----------------------------------------------------------------------------
(* FsModel: what walks find                                                *)

\* T holds of a walk when it holds of all that end sooner.
Inherits(s, T) == \A x \in Walks(s) : (\A y \in Walks(s) : Sooner(y, x) => y \in T) => x \in T

\* Induction along walks.
LEMMA WalkInduction ==
    ASSUME FsNames, NEW s, NEW T, Inherits(s, T)
    PROVE  Walks(s) \subseteq T
<1> DEFINE D == Walks(s)
           a == [x \in D |-> LinksLeft(x)]
           b == [x \in D |-> Len(x.cs)]
<1>1. \A x, y \in D : Lower(a, b, y, x) <=> Sooner(y, x)
  BY DEF Lower, Sooner
<1>2. a \in [D -> Nat] /\ b \in [D -> Nat]
  <2>1. \A x \in D : x.links \in Nat /\ x.cs \in Seq(Component)
    BY DEF Walks
  <2>2. \A x \in D : LinksLeft(x) \in Nat /\ Len(x.cs) \in Nat
    BY <2>1 DEF LinksLeft, FsNames
  <2> HIDE DEF D
  <2> QED BY <2>2
<1>3. Hereditary(D, a, b, T)
  <2> HIDE DEF a, b
  <2> QED BY <1>1, <1>2 DEF Hereditary, Inherits
<1> HIDE DEF a, b, D
<1>4. D \subseteq T
  BY <1>3, RankInduction
<1> QED
  BY <1>4 DEF D

\* The parts of a walk.
LEMMA WalkParts ==
    ASSUME NEW s, Sound(s), NEW x \in Walks(s)
    PROVE  /\ x.cur \in DOMAIN s.nodes /\ x.cur \in Nat /\ x.cs \in Seq(Component)
           /\ x.last \in BOOLEAN /\ x.slash \in BOOLEAN /\ x.links \in Nat
           /\ x.cs # <<>> => Head(x.cs) \in Component /\ Tail(x.cs) \in Seq(Component)
<1>1. x.cs \in Seq(Component) /\ x.cur \in DOMAIN s.nodes
  BY DEF Walks
<1>2. x.cs # <<>> => Head(x.cs) \in Component /\ Tail(x.cs) \in Seq(Component)
  <2> DEFINE cs == x.cs
  <2>1. cs \in Seq(Component)
    BY <1>1
  <2> HIDE DEF cs
  <2>2. cs # <<>> => Head(cs) \in Component /\ Tail(cs) \in Seq(Component)
    BY <2>1
  <2> QED BY <2>2 DEF cs
<1> QED
  BY <1>1, <1>2, NodesAre DEF Walks

\* Whether the walk x follows the link under its first name, which is node n.
Follows(s, x, n) == s.nodes[n].kind = "link" /\ (Tail(x.cs) # <<>> \/ x.slash \/ x.last)
FirstKid(s, x) == Kids(s, x.cur)[Head(x.cs)]
Named1(s, x) == /\ x.cs # <<>> /\ Head(x.cs) # ".." /\ Head(x.cs) \notin LongNames
                /\ IsDir(s, x.cur) /\ Has(s, x.cur, Head(x.cs))
\* Whether what the first name leads to, node n, will do for the rest of x.
Suits(s, x, n) == (Tail(x.cs) # <<>> \/ x.slash) => IsDir(s, n)

\* What a walk is: at its end, one step up, one name further, or an error.
LEMMA WalkerSteps ==
    ASSUME FsNames, NEW s, Sound(s), NEW view, NEW x \in Walks(s)
    PROVE  LET on == Walker(s, view)
               r == NextNode(s, view, x, on)
           IN  /\ on[x] \in Within(s, x)
               /\ x.cs = <<>> => on[x] = Found(x.cur, x.links)
               /\ x.cs # <<>> /\ Head(x.cs) = ".." =>
                    on[x] = on[Onward(s, view, x, Up(s, view, x.cur), x.links)]
               /\ x.cs # <<>> /\ Head(x.cs) # ".." /\ ~Named1(s, x) =>
                    \E e \in Errnos \ {"ok"} : on[x] = Lost(e, x.links)
               /\ Named1(s, x) =>
                    /\ r \in Within(s, x)
                    /\ r.err # "ok" => on[x] = r
                    /\ r.err = "ok" /\ ~Suits(s, x, r.node) => on[x] = Lost("ENOTDIR", r.links)
                    /\ r.err = "ok" /\ Suits(s, x, r.node) =>
                         on[x] = on[Onward(s, view, x, r.node, r.links)]
<1> DEFINE on == Walker(s, view)
           r == NextNode(s, view, x, on)
<1>1. on \in Walkers(s) /\ on[x] = Walked(s, view, x, on)
  BY WalkerIs
<1> HIDE DEF on
<1>2. on[x] \in Within(s, x)
  BY <1>1 DEF Walkers
<1>3. Answers(s, x, on)
  BY <1>1 DEF Walkers, Answers
<1>4. Named1(s, x) => r \in Within(s, x)
  BY <1>3, NextNodeIs DEF Named1
<1> HIDE DEF r
<1>5. x.cs = <<>> => on[x] = Found(x.cur, x.links)
  BY <1>1 DEF Walked, WalkedTo
<1>6. x.cs # <<>> /\ Head(x.cs) = ".." =>
        on[x] = on[Onward(s, view, x, Up(s, view, x.cur), x.links)]
  BY <1>1 DEF Walked, WalkedTo
<1>7. x.cs # <<>> /\ Head(x.cs) # ".." /\ ~Named1(s, x) =>
        \E e \in Errnos \ {"ok"} : on[x] = Lost(e, x.links)
  BY <1>1 DEF Walked, WalkedTo, Named1, Errnos
<1>8. Named1(s, x) =>
        on[x] = IF r.err # "ok" THEN r
                ELSE IF ~Suits(s, x, r.node) THEN Lost("ENOTDIR", r.links)
                ELSE on[Onward(s, view, x, r.node, r.links)]
  <2> SUFFICES ASSUME Named1(s, x)
               PROVE  on[x] = IF r.err # "ok" THEN r
                      ELSE IF ~Suits(s, x, r.node) THEN Lost("ENOTDIR", r.links)
                      ELSE on[Onward(s, view, x, r.node, r.links)]
    OBVIOUS
  <2>1. on[x] = IF r.err # "ok" THEN r
                ELSE IF (Tail(x.cs) # <<>> \/ x.slash) /\ ~IsDir(s, r.node)
                  THEN Lost("ENOTDIR", r.links)
                ELSE on[Onward(s, view, x, r.node, r.links)]
    BY <1>1 DEF Walked, WalkedTo, Named1, r
  <2>2. ((Tail(x.cs) # <<>> \/ x.slash) /\ ~IsDir(s, r.node)) <=> ~Suits(s, x, r.node)
    BY DEF Suits
  <2> QED BY <2>1, <2>2
<1> QED
  BY <1>2, <1>4, <1>5, <1>6, <1>7, <1>8 DEF on, r

\* What the first name of a walk stands for: the node itself, what its link
\* leads to, or an error.
LEMMA NextSteps ==
    ASSUME FsNames, NEW s, Sound(s), NEW view, NEW x \in Walks(s), Named1(s, x)
    PROVE  LET on == Walker(s, view)
               r == NextNode(s, view, x, on)
               n == FirstKid(s, x)
               link == s.nodes[n].link
           IN  /\ n \in DOMAIN s.nodes /\ link \in Path
               /\ ~Follows(s, x, n) => r = Found(n, x.links)
               /\ Follows(s, x, n) /\ (x.links + 1 > MaxLinks \/ IsEmptyPath(link)) =>
                    r = Lost(IF x.links + 1 > MaxLinks THEN "ELOOP" ELSE "ENOENT", x.links + 1)
               /\ Follows(s, x, n) /\ ~(x.links + 1 > MaxLinks \/ IsEmptyPath(link)) =>
                    /\ r = on[Through(s, view, x, link)]
                    /\ Through(s, view, x, link) \in Walks(s)
                    /\ Sooner(Through(s, view, x, link), x)
<1> DEFINE on == Walker(s, view)
           r == NextNode(s, view, x, on)
           n == FirstKid(s, x)
           link == s.nodes[n].link
<1>1. n \in DOMAIN s.nodes /\ link \in Path /\ x.links \in Nat /\ MaxLinks \in Nat
  BY NodesAre DEF FirstKid, Named1, Has, Kids, Walks, NodePlain, FsNames
<1>2. n = Kids(s, x.cur)[Head(x.cs)]
  BY DEF FirstKid
<1> HIDE DEF on, n
<1>3. ~Follows(s, x, n) => r = Found(n, x.links)
  BY <1>2 DEF NextNode, Follows
<1>4. Follows(s, x, n) => r = IF x.links + 1 > MaxLinks THEN Lost("ELOOP", x.links + 1)
                              ELSE IF IsEmptyPath(link) THEN Lost("ENOENT", x.links + 1)
                              ELSE on[Through(s, view, x, link)]
  BY <1>2 DEF NextNode, Follows
<1> HIDE DEF r
<1>5. x.links + 1 <= MaxLinks => /\ Through(s, view, x, link) \in Walks(s)
                                 /\ Sooner(Through(s, view, x, link), x)
  <2> HIDE DEF link
  <2> QED BY <1>1, ThroughIs
<1> QED
  BY <1>1, <1>3, <1>4, <1>5 DEF on, n, r

\* The host's own temp directories are out of reach: what a process starts from
\* is not one of them, and so is nothing that a walk finds.
LEMMA WalkIsClear ==
    ASSUME FsNames, NEW s, Sound(s), NEW x \in Walks(s), Clear(s, x.cur),
           Walker(s, "virtual")[x].err = "ok"
    PROVE  Clear(s, Walker(s, "virtual")[x].node)
<1> DEFINE on == Walker(s, "virtual")
           T == {x_1 \in Walks(s) : Clear(s, x_1.cur) /\ on[x_1].err = "ok" => Clear(s, on[x_1].node)}
<1>1. ASSUME NEW y \in Walks(s), \A z \in Walks(s) : Sooner(z, y) => z \in T,
             Clear(s, y.cur), on[y].err = "ok"
      PROVE  Clear(s, on[y].node)
  <2>1. CASE y.cs = <<>>
    <3>1. on[y] = Found(y.cur, y.links)
      BY <2>1, WalkerSteps
    <3> QED BY <3>1, <1>1, FoundIs
  <2>2. ASSUME y.cs # <<>>, NEW n \in DOMAIN s.nodes, NEW links \in Nat, links >= y.links,
               Clear(s, Enter(s, "virtual", n)), on[y] = on[Onward(s, "virtual", y, n, links)]
        PROVE  Clear(s, on[y].node)
    <3> DEFINE z == Onward(s, "virtual", y, n, links)
    <3>1. z \in Walks(s) /\ Sooner(z, y) /\ z.cur = Enter(s, "virtual", n)
      BY <2>2, OnwardIs
    <3> HIDE DEF z, on
    <3> QED BY <3>1, <1>1, <2>2 DEF z
  <2>3. CASE y.cs # <<>> /\ Head(y.cs) = ".."
    <3>1. on[y] = on[Onward(s, "virtual", y, Up(s, "virtual", y.cur), y.links)]
      BY <2>3, WalkerSteps
    <3>2. y.cur \in DOMAIN s.nodes /\ y.links \in Nat /\ y.links >= y.links
      BY WalkParts
    <3>3. Up(s, "virtual", y.cur) \in DOMAIN s.nodes
      BY <3>2, TurnsAre
    <3>4. Clear(s, Enter(s, "virtual", Up(s, "virtual", y.cur)))
      BY <3>3, TurnsAre
    <3> HIDE DEF on
    <3> QED BY <3>1, <3>2, <3>3, <3>4, <2>2, <2>3
  <2>4. CASE Named1(s, y)
    <3> DEFINE r == NextNode(s, "virtual", y, on)
    <3>1. /\ r \in Within(s, y) /\ (r.err # "ok" => on[y] = r)
          /\ r.err = "ok" /\ ~Suits(s, y, r.node) => on[y] = Lost("ENOTDIR", r.links)
          /\ r.err = "ok" /\ Suits(s, y, r.node) =>
               on[y] = on[Onward(s, "virtual", y, r.node, r.links)]
      BY <2>4, WalkerSteps
    <3> HIDE DEF on, r
    <3>2. r.err = "ok" /\ on[y] = on[Onward(s, "virtual", y, r.node, r.links)]
      BY <3>1, <1>1, FoundIs
    <3>3. r.node \in DOMAIN s.nodes /\ r.links \in Nat /\ r.links >= y.links
      BY <3>1, <3>2 DEF Within, Outcomes
    <3>4. Clear(s, Enter(s, "virtual", r.node))
      BY <3>3, TurnsAre
    <3> QED BY <3>2, <3>3, <3>4, <2>2, <2>4 DEF Named1
  <2>5. CASE y.cs # <<>> /\ Head(y.cs) # ".." /\ ~Named1(s, y)
    <3>1. \E e \in Errnos \ {"ok"} : on[y] = Lost(e, y.links)
      BY <2>5, WalkerSteps
    <3> QED BY <3>1, <1>1, FoundIs
  <2> QED BY <2>1, <2>3, <2>4, <2>5 DEF Named1
<1> HIDE DEF on
<1>2. Inherits(s, T)
  BY <1>1 DEF Inherits
<1>3. Walks(s) \subseteq T
  <2> HIDE DEF T
  <2> QED BY <1>2, WalkInduction
<1> QED
  BY <1>3 DEF on

\* A lookup is a walk, unless its path is empty.
Looks(s, start, p, last, links) ==
    start \in DOMAIN s.nodes /\ p \in Path /\ last \in BOOLEAN /\ links \in Nat /\ ~IsEmptyPath(p)
LookupOf(s, view, start, p, last, links) ==
    WalkOf(Origin(s, view, start, p), Real(p), last, AsksDir(p), links)
LEMMA LookupIs ==
    ASSUME FsNames, NEW s, Sound(s), NEW view, NEW start, NEW p, NEW last, NEW links,
           Looks(s, start, p, last, links)
    PROVE  LookupOf(s, view, start, p, last, links) \in Walks(s)
<1>1. p.comps \in Seq(Component) /\ p.slash \in BOOLEAN /\ start \in DOMAIN s.nodes
  BY DEF Path, Looks
<1>2. Real(p) \in Seq(Component) /\ AsksDir(p) \in BOOLEAN
  BY <1>1, RealIs DEF AsksDir
<1>3. Origin(s, view, start, p) \in DOMAIN s.nodes
  BY <1>1, TurnsAre
<1> QED
  BY <1>2, <1>3 DEF WalkOf, Walks, Looks, LookupOf
LEMMA LookupWalks ==
    ASSUME FsNames, NEW s, Sound(s), NEW view, NEW start, NEW p, NEW last, NEW links
    PROVE  LET x == LookupOf(s, view, start, p, last, links) IN
           /\ Lookup(s, view, start, p, last, links) =
                IF IsEmptyPath(p) THEN Lost("ENOENT", links) ELSE Walker(s, view)[x]
           /\ x.cur = Origin(s, view, start, p) /\ x.cs = Real(p) /\ x.last = last
           /\ x.slash = AsksDir(p) /\ x.links = links
BY WalkerIs, WalkOfIs DEF Lookup, LookupOf

\* What a lookup finds is a node, in the view of a process never one that is
\* mounted on.
LEMMA LookupFinds ==
    ASSUME FsNames, NEW s, Sound(s), NEW view, NEW start \in DOMAIN s.nodes, NEW p \in Path,
           NEW last \in BOOLEAN, NEW links \in Nat, Lookup(s, view, start, p, last, links).err = "ok"
    PROVE  LET r == Lookup(s, view, start, p, last, links) IN
           /\ r.node \in DOMAIN s.nodes /\ r.links \in Nat /\ r.links >= links
           /\ view = "virtual" => Clear(s, r.node)
<1> DEFINE x == LookupOf(s, view, start, p, last, links)
           r == Lookup(s, view, start, p, last, links)
<1>1. ~IsEmptyPath(p)
  BY FoundIs DEF Lookup
<1>2. x \in Walks(s) /\ r = Walker(s, view)[x] /\ x.cur = Origin(s, view, start, p) /\ x.links = links
  <2>1. Looks(s, start, p, last, links)
    BY <1>1 DEF Looks
  <2>2. x \in Walks(s)
    BY <2>1, LookupIs
  <2> QED BY <1>1, <2>2, LookupWalks
<1> HIDE DEF x
<1>3. r \in Within(s, x)
  BY <1>2, WalkerSteps
<1>4. r.node \in DOMAIN s.nodes /\ r.links \in Nat /\ r.links >= links
  BY <1>2, <1>3 DEF Within, Outcomes
<1>5. view = "virtual" => Clear(s, r.node)
  <2> SUFFICES ASSUME view = "virtual" PROVE Clear(s, r.node)
    OBVIOUS
  <2>1. Clear(s, x.cur)
    BY <1>2, TurnsAre
  <2> QED BY <1>2, <2>1, WalkIsClear
<1> QED
  BY <1>4, <1>5

-----------------------------------------------------------------------------
(* FsModel: where a chain of links ends                                    *)

\* The components but the last, and the last.
LEMMA FrontLast ==
    ASSUME NEW cs \in Seq(Component), cs # <<>>
    PROVE  /\ Front(cs) \in Seq(Component) /\ Last(cs) \in Component /\ Len(cs) \in Nat \ {0}
           /\ Last(cs) = cs[Len(cs)] /\ Len(Front(cs)) = Len(cs) - 1
           /\ cs = Append(Front(cs), Last(cs))
<1> DEFINE n == Len(cs)
           f == SubSeq(cs, 1, n - 1)
<1>1. n \in Nat \ {0} /\ \A i \in 1..n : cs[i] \in Component
  OBVIOUS
<1>2. f \in Seq(Component) /\ Len(f) = n - 1 /\ \A i \in 1..(n - 1) : f[i] = cs[i]
  <2>1. 1 \in Int /\ n - 1 \in Int /\ \A i \in 1..(n - 1) : cs[i] \in Component
    BY <1>1
  <2> HIDE DEF n
  <2>2. /\ f \in Seq(Component) /\ Len(f) = IF 1 <= n - 1 THEN n - 1 - 1 + 1 ELSE 0
        /\ \A i \in 1..(n - 1 - 1 + 1) : f[i] = cs[1 + i - 1]
    BY <2>1, SubSeqProperties
  <2> HIDE DEF f
  <2> QED BY <1>1, <2>2
<1>3. cs = Append(f, cs[n])
  BY <1>1, <1>2
<1> QED
  BY <1>1, <1>2, <1>3 DEF Front, Last

\* Where the directory of a chase's path is looked for.
ChaseWalk(s, x) ==
    WalkOf(Origin(s, "virtual", x.cur, x.path), Front(Real(x.path)), TRUE, TRUE, x.links)

DirsFound == [err : Errnos \cup {"EEXIST"}, node : Nat, links : Nat]
LEMMA ChaseParts ==
    ASSUME FsNames, NEW s, Sound(s), NEW x \in Chases(s)
    PROVE  /\ x.cur \in DOMAIN s.nodes /\ x.path \in Path /\ x.links \in Nat
           /\ Real(x.path) \in Seq(Component)
           /\ Real(x.path) # <<>> => /\ Last(Real(x.path)) \in Component \ {"."}
                                     /\ ChaseWalk(s, x) \in Walks(s)
                                     /\ ChaseWalk(s, x).links = x.links
                                     /\ Clear(s, ChaseWalk(s, x).cur)
<1>1. x.cur \in DOMAIN s.nodes /\ x.path \in Path /\ x.links \in Nat
  BY DEF Chases
<1> DEFINE real == Real(x.path)
<1>2. real \in Seq(Component) /\ \A i \in 1..Len(real) : real[i] # "."
  <2>1. x.path.comps \in Seq(Component)
    BY <1>1 DEF Path
  <2> QED BY <2>1, RealIs
<1> HIDE DEF real
<1>3. ASSUME real # <<>> PROVE Last(real) \in Component \ {"."} /\ Front(real) \in Seq(Component)
  BY <1>2, <1>3, FrontLast
<1>4. Origin(s, "virtual", x.cur, x.path) \in DOMAIN s.nodes
      /\ Clear(s, Origin(s, "virtual", x.cur, x.path))
  BY <1>1, TurnsAre
<1>5. ChaseWalk(s, x).links = x.links /\ Clear(s, ChaseWalk(s, x).cur)
  BY <1>4 DEF ChaseWalk, WalkOf
<1>6. real # <<>> => ChaseWalk(s, x) \in Walks(s)
  BY <1>1, <1>3, <1>4 DEF ChaseWalk, WalkOf, Walks, real
<1> QED
  BY <1>1, <1>2, <1>3, <1>5, <1>6 DEF real

\* The directory that a chase comes to.
LEMMA ChasedDirIs ==
    ASSUME FsNames, NEW s, Sound(s), NEW x \in Chases(s)
    PROVE  LET dir == ChasedDir(s, x) IN
           /\ dir \in DirsFound /\ dir.links >= x.links
           /\ dir.err = "ok" => /\ Real(x.path) # <<>> /\ ~IsEmptyPath(x.path)
                                /\ dir = Walker(s, "virtual")[ChaseWalk(s, x)]
                                /\ dir.node \in DOMAIN s.nodes /\ Clear(s, dir.node)
           /\ ~IsEmptyPath(x.path) /\ Real(x.path) # <<>> =>
                dir = Walker(s, "virtual")[ChaseWalk(s, x)]
<1> DEFINE dir == ChasedDir(s, x)
           y == ChaseWalk(s, x)
           on == Walker(s, "virtual")
<1>1. x.links \in Nat /\ x.links >= x.links
  BY ChaseParts
<1>2. CASE IsEmptyPath(x.path)
  <2>1. dir = Lost("ENOENT", x.links)
    BY <1>2 DEF ChasedDir
  <2>2. Lost("ENOENT", x.links) \in DirsFound /\ Lost("ENOENT", x.links).err # "ok"
    BY <1>1 DEF Lost, DirsFound, Errnos
  <2> QED BY <1>1, <1>2, <2>1, <2>2, FoundIs
<1>3. CASE ~IsEmptyPath(x.path) /\ Real(x.path) = <<>>
  <2>1. dir = Lost("EEXIST", x.links)
    BY <1>3 DEF ChasedDir
  <2>2. Lost("EEXIST", x.links) \in DirsFound /\ Lost("EEXIST", x.links).err # "ok"
    BY <1>1 DEF Lost, DirsFound, Errnos
  <2> QED BY <1>1, <1>3, <2>1, <2>2, FoundIs
<1>4. CASE ~IsEmptyPath(x.path) /\ Real(x.path) # <<>>
  <2>1. dir = on[y]
    <3>1. dir = Walk(s, "virtual", Origin(s, "virtual", x.cur, x.path), Front(Real(x.path)),
                     TRUE, TRUE, x.links)
      BY <1>4 DEF ChasedDir
    <3>2. \A from, names, follow, dirOnly, before :
            Walk(s, "virtual", from, names, follow, dirOnly, before) =
              on[WalkOf(from, names, follow, dirOnly, before)]
      BY WalkerIs
    <3> HIDE DEF dir, on
    <3> QED BY <3>1, <3>2 DEF ChaseWalk
  <2>2. y \in Walks(s) /\ y.links = x.links /\ Clear(s, y.cur)
    BY <1>4, ChaseParts
  <2> HIDE DEF y, on, dir
  <2>3. on[y] \in Within(s, y)
    BY <2>2, WalkerSteps DEF on
  <2>4. on[y] \in DirsFound /\ on[y].links >= x.links
    BY <2>2, <2>3 DEF Within, Outcomes, DirsFound
  <2>5. on[y].err = "ok" => Clear(s, on[y].node) /\ on[y].node \in DOMAIN s.nodes
    BY <2>2, WalkIsClear DEF on, Clear
  <2> QED BY <2>1, <2>4, <2>5, <1>4 DEF on, y, dir
<1> QED
  BY <1>2, <1>3, <1>4

\* Ends of chases: a name in a directory where something can be made, or an errno.
ChaseEnds(s) ==
    {v \in [dir : DirsFound, name : Component \cup {"none"}] :
       v.dir.err = "ok" => Clear(s, v.dir.node) /\ v.name \in Component \ {"."}}

\* A chase goes on with fewer links left.
Shorter(y, x) == LinksLeft(y) < LinksLeft(x)
\* A chase that comes to a link it may follow, which is at the name of node n.
ChaseNext(s, x) == s.nodes[Kids(s, ChasedDir(s, x).node)[Last(Real(x.path))]]
GoesOn(s, x) ==
    LET dir == ChasedDir(s, x) IN
    /\ dir.err = "ok" /\ Has(s, dir.node, Last(Real(x.path)))
    /\ ChaseNext(s, x).kind = "link" /\ dir.links + 1 <= MaxLinks
NextChase(s, x) ==
    ChaseOf(ChasedDir(s, x).node, ChaseNext(s, x).link, ChasedDir(s, x).links + 1)
Stopped(s, x) == [dir |-> ChasedDir(s, x),
                  name |-> IF ChasedDir(s, x).err = "ok" THEN Last(Real(x.path)) ELSE "none"]

LEMMA ChasedIs ==
    ASSUME FsNames, NEW s, Sound(s), NEW x \in Chases(s)
    PROVE  /\ \A on : Chased(s, x, on) = IF GoesOn(s, x) THEN on[NextChase(s, x)] ELSE Stopped(s, x)
           /\ Stopped(s, x) \in ChaseEnds(s)
           /\ GoesOn(s, x) => /\ NextChase(s, x) \in Chases(s) /\ Shorter(NextChase(s, x), x)
                              /\ NextChase(s, x).links = ChasedDir(s, x).links + 1
                              /\ NextChase(s, x).cur = ChasedDir(s, x).node
                              /\ NextChase(s, x).path = ChaseNext(s, x).link
                              /\ NextChase(s, x).links <= MaxLinks
<1>1. \A on : Chased(s, x, on) = IF GoesOn(s, x) THEN on[NextChase(s, x)] ELSE Stopped(s, x)
  BY DEF Chased, ChasedIn, GoesOn, NextChase, Stopped, ChaseNext
<1> DEFINE dir == ChasedDir(s, x)
<1>2. /\ dir \in DirsFound /\ dir.links >= x.links
      /\ dir.err = "ok" => Real(x.path) # <<>> /\ dir.node \in DOMAIN s.nodes /\ Clear(s, dir.node)
  BY ChasedDirIs
<1>3. Stopped(s, x) \in ChaseEnds(s)
  <2> HIDE DEF dir
  <2>1. dir.err = "ok" => Last(Real(x.path)) \in Component \ {"."}
    BY <1>2, ChaseParts
  <2>2. Stopped(s, x) = [dir |-> dir, name |-> IF dir.err = "ok" THEN Last(Real(x.path)) ELSE "none"]
    BY DEF Stopped, dir
  <2> QED BY <1>2, <2>1, <2>2 DEF ChaseEnds
<1>4. ASSUME GoesOn(s, x)
      PROVE  /\ NextChase(s, x) \in Chases(s) /\ Shorter(NextChase(s, x), x)
             /\ NextChase(s, x).links = dir.links + 1
             /\ NextChase(s, x).cur = dir.node
             /\ NextChase(s, x).path = ChaseNext(s, x).link
             /\ NextChase(s, x).links <= MaxLinks
  <2>1. dir.err = "ok" /\ Has(s, dir.node, Last(Real(x.path))) /\ dir.links + 1 <= MaxLinks
    BY <1>4 DEF GoesOn
  <2> HIDE DEF dir
  <2>2. dir.node \in DOMAIN s.nodes /\ dir.links \in Nat /\ x.links \in Nat
    BY <1>2, <2>1, ChaseParts DEF DirsFound
  <2>3. ChaseNext(s, x).link \in Path
    BY <2>1, <2>2, NodesAre DEF Has, Kids, NodePlain, dir, ChaseNext
  <2>4. /\ NextChase(s, x).links = dir.links + 1 /\ NextChase(s, x).cur = dir.node
        /\ NextChase(s, x).path = ChaseNext(s, x).link
    BY DEF NextChase, ChaseOf, dir
  <2>5. NextChase(s, x) \in Chases(s)
    BY <2>2, <2>3 DEF NextChase, ChaseOf, Chases, dir
  <2>6. Shorter(NextChase(s, x), x)
    BY <2>1, <2>2, <2>4, <1>2 DEF Shorter, LinksLeft, FsNames
  <2> QED BY <2>1, <2>4, <2>5, <2>6
<1> QED
  BY <1>1, <1>3, <1>4

Chaser(s) == CHOOSE f : f = [x \in Chases(s) |-> Chased(s, x, f)]

\* T holds of a chase when it holds of all that go on with fewer links.
Passes(s, T) == \A x \in Chases(s) : (\A y \in Chases(s) : Shorter(y, x) => y \in T) => x \in T

\* Induction along chases.
LEMMA ChaseInduction ==
    ASSUME FsNames, NEW s, NEW T, Passes(s, T)
    PROVE  Chases(s) \subseteq T
<1> DEFINE D == Chases(s)
           a == [x \in D |-> LinksLeft(x)]
           b == [x \in D |-> 0]
<1>1. \A x, y \in D : Lower(a, b, y, x) <=> Shorter(y, x)
  BY DEF Lower, Shorter
<1>2. a \in [D -> Nat] /\ b \in [D -> Nat]
  BY DEF LinksLeft, FsNames, Chases
<1>3. Hereditary(D, a, b, T)
  <2> HIDE DEF a, b
  <2> QED BY <1>1, <1>2 DEF Hereditary, Passes
<1> HIDE DEF a, b, D
<1>4. D \subseteq T
  BY <1>3, RankInduction
<1> QED
  BY <1>4 DEF D

\* So the recursion of CreateEnd is defined.
LEMMA ChaserIs ==
    ASSUME FsNames, NEW s, Sound(s)
    PROVE  /\ Chaser(s) \in [Chases(s) -> ChaseEnds(s)]
           /\ \A x \in Chases(s) : Chaser(s)[x] =
                IF GoesOn(s, x) THEN Chaser(s)[NextChase(s, x)] ELSE Stopped(s, x)
           /\ \A start, p, links : CreateEnd(s, start, p, links) = Chaser(s)[ChaseOf(start, p, links)]
<1> DEFINE D == Chases(s)
           V == ChaseEnds(s)
           W == [x \in D |-> V]
           F == {f \in [D -> V] : \A x \in D : f[x] \in W[x]}
           G == [x \in D |-> [f \in F |-> Chased(s, x, f)]]
           a == [x \in D |-> LinksLeft(x)]
           b == [x \in D |-> 0]
           P(f) == f = [x \in Chases(s) |-> Chased(s, x, f)]
           R == Chaser(s)
<1>1. \A x, y \in D : Lower(a, b, y, x) <=> Shorter(y, x)
  BY DEF Lower, Shorter
<1>2. a \in [D -> Nat] /\ b \in [D -> Nat]
  BY DEF LinksLeft, FsNames, Chases
<1>3. \A x \in D, f \in F : Chased(s, x, f) \in V
  <2> TAKE x \in D, f \in F
  <2>1. Chased(s, x, f) = IF GoesOn(s, x) THEN f[NextChase(s, x)] ELSE Stopped(s, x)
    BY ChasedIs
  <2>2. Stopped(s, x) \in V /\ (GoesOn(s, x) => NextChase(s, x) \in D)
    BY ChasedIs
  <2> HIDE DEF V, D
  <2> QED BY <2>1, <2>2
<1>4. \A x \in D, f, g \in F :
        (\A y \in D : Lower(a, b, y, x) => f[y] = g[y]) => G[x][f] = G[x][g]
  <2> TAKE x \in D, f \in F, g \in F
  <2> HAVE \A y \in D : Lower(a, b, y, x) => f[y] = g[y]
  <2>1. /\ Chased(s, x, f) = IF GoesOn(s, x) THEN f[NextChase(s, x)] ELSE Stopped(s, x)
        /\ Chased(s, x, g) = IF GoesOn(s, x) THEN g[NextChase(s, x)] ELSE Stopped(s, x)
        /\ GoesOn(s, x) => NextChase(s, x) \in D /\ Shorter(NextChase(s, x), x)
    <3> HIDE DEF F, a, b
    <3> QED BY ChasedIs
  <2>3. GoesOn(s, x) => Lower(a, b, NextChase(s, x), x)
    BY <1>1, <2>1
  <2>2. G[x][f] = Chased(s, x, f) /\ G[x][g] = Chased(s, x, g)
    OBVIOUS
  <2> HIDE DEF F, a, b, D, G
  <2> QED BY <2>1, <2>2, <2>3
<1>5. Recurses(D, a, b, V, W, F, G)
  <2>1. W \in [D -> SUBSET V]
    OBVIOUS
  <2>2. \A x \in D : W[x] # {}
    <3> HIDE DEF V
    <3> QED BY ChasedIs DEF V
  <2>3. G \in [D -> [F -> V]] /\ \A x \in D, f \in F : G[x][f] \in W[x]
    <3> HIDE DEF F, D, V
    <3> QED BY <1>3
  <2> HIDE DEF D, V, W, G, a, b
  <2> QED BY <1>2, <1>4, <2>1, <2>2, <2>3 DEF Recurses
<1>6. \E f : P(f)
  <2> HIDE DEF V, W, a, b
  <2>1. PICK f \in F : \A x \in D : f[x] = G[x][f]
    <3> HIDE DEF D, F, G
    <3> QED BY <1>5, RecursionExists
  <2>2. f = [x \in D |-> Chased(s, x, f)]
    <3>1. f \in [D -> V]
      OBVIOUS
    <3>2. \A x \in D : f[x] = Chased(s, x, f)
      BY <2>1
    <3> HIDE DEF D, F, G
    <3> QED BY <3>1, <3>2
  <2> QED BY <2>2
<1>7. P(R)
  <2>1. R = CHOOSE f : P(f)
    BY DEF Chaser
  <2> HIDE DEF P, R
  <2> QED BY <1>6, <2>1, Zenon
<1>8. \A start, p, links : CreateEnd(s, start, p, links) = R[ChaseOf(start, p, links)]
  BY DEF CreateEnd, Chaser
<1> HIDE DEF R
<1>9. \A x \in D : R[x] = IF GoesOn(s, x) THEN R[NextChase(s, x)] ELSE Stopped(s, x)
  <2>1. \A x \in D : R[x] = Chased(s, x, R)
    BY <1>7
  <2> QED BY <2>1, ChasedIs
<1>10. R \in [D -> V]
  <2> DEFINE T == {x \in D : R[x] \in V}
  <2>1. Passes(s, T)
    <3> SUFFICES ASSUME NEW x \in D, \A y \in D : Shorter(y, x) => y \in T PROVE x \in T
      BY DEF Passes
    <3>1. CASE GoesOn(s, x)
      <4>1. NextChase(s, x) \in T
        BY <3>1, ChasedIs
      <4> QED BY <3>1, <4>1, <1>9
    <3>2. CASE ~GoesOn(s, x)
      <4>1. Stopped(s, x) \in V
        BY ChasedIs
      <4> HIDE DEF V
      <4> QED BY <3>2, <4>1, <1>9
    <3> QED BY <3>1, <3>2
  <2>2. D \subseteq T
    <3> HIDE DEF T
    <3> QED BY <2>1, ChaseInduction
  <2>3. R = [x \in D |-> R[x]]
    <3>1. DOMAIN [x \in Chases(s) |-> Chased(s, x, R)] = D
      OBVIOUS
    <3> QED BY <1>7, <3>1
  <2> HIDE DEF V, D
  <2> QED BY <2>2, <2>3 DEF D
<1> QED
  BY <1>8, <1>9, <1>10 DEF R

-----------------------------------------------------------------------------
(* FsModel: what lookups promise of the places they find.  Whatever the    *)
(* paths, the links and the slashes: a place to make something in is a     *)
(* directory that nothing is mounted on, and its name is one.              *)

GoodPlace(s, place) ==
    IsDir(s, place.node) /\ Clear(s, place.node) /\ place.name \in GoodNames
\* Where an *at call may start from.
GoodStart(s, start) == start.err = "ok" => Clear(s, start.node)

LEMMA PlaceIs ==
    ASSUME NEW n, NEW name, NEW slash, NEW e
    PROVE  /\ Place(n, name, slash).err = "ok" /\ Place(n, name, slash).node = n
           /\ Place(n, name, slash).name = name /\ Place(n, name, slash).slash = slash
           /\ NoPlace(e).err = e
BY DEF Place, NoPlace

\* Descriptors and the current directory are such.
LEMMA StartIsGood ==
    ASSUME NEW s, Sound(s), NEW fd, NEW p
    PROVE  GoodStart(s, AtStart(s, fd, p)) /\ GoodStart(s, Found(s.cwd, 0))
BY FoundIs DEF AtStart, FdDir, GoodStart, Sound, Plain, Seat

\* The path of a path's directory.
LEMMA DirOfIs ==
    ASSUME NEW p \in Path, p.comps # <<>>
    PROVE  /\ DirOf(p) \in Path /\ DirOf(p).comps = Front(p.comps) /\ DirOf(p).abs = p.abs
           /\ DirOf(p).slash = FALSE /\ LastOf(p) = Last(p.comps) /\ LastOf(p) \in Component
<1>1. Front(p.comps) \in Seq(Component) /\ Last(p.comps) \in Component
      /\ Last(p.comps) = p.comps[Len(p.comps)]
  <2> DEFINE cs == p.comps
  <2>1. cs \in Seq(Component) /\ cs # <<>>
    BY DEF Path
  <2> HIDE DEF cs
  <2>2. Front(cs) \in Seq(Component) /\ Last(cs) \in Component /\ Last(cs) = cs[Len(cs)]
    BY <2>1, FrontLast
  <2> QED BY <2>2 DEF cs
<1> QED
  BY <1>1 DEF DirOf, LastOf, Path

\* The place that a path names.
LEMMA ParentIsGood ==
    ASSUME FsNames, NEW s, Sound(s), NEW start, GoodStart(s, start), NEW p \in Path,
           Parent(s, start, p).err = "ok"
    PROVE  GoodPlace(s, Parent(s, start, p))
<1> DEFINE place == ParentUnchecked(s, start, p)
<1>1. /\ place.err = "ok" /\ Parent(s, start, p) = place /\ IsDir(s, place.node)
      /\ place.name \notin LongNames
  <2>1. Parent(s, start, p) = Checked(s, place)
    BY DEF Parent
  <2> HIDE DEF place
  <2> QED BY <2>1, PlaceIs DEF Checked
<1>2. p.comps # <<>> /\ LastOf(p) \notin {".", ".."}
  BY <1>1 DEF ParentUnchecked, NoPlace
<1>3. \E r : /\ place = PlaceIn(r, p)
             /\ r.err = "ok" => Clear(s, r.node)
  <2>1. CASE start.err # "ok" \/ IsEmptyPath(DirOf(p))
    <3>1. place = PlaceIn(start, p)
      BY <1>2, <2>1 DEF ParentUnchecked, IsEmptyPath
    <3> QED BY <3>1 DEF GoodStart
  <2>2. CASE ~(start.err # "ok" \/ IsEmptyPath(DirOf(p)))
    <3> DEFINE r == Resolve(s, "virtual", start.node, DirOf(p), TRUE)
    <3>1. place = PlaceIn(r, p)
      BY <1>2, <2>2 DEF ParentUnchecked, IsEmptyPath
    <3>2. DirOf(p) \in Path /\ start.node \in DOMAIN s.nodes /\ 0 \in Nat
      BY <1>2, <2>2, DirOfIs DEF GoodStart, Clear
    <3>3. r = Lookup(s, "virtual", start.node, DirOf(p), TRUE, 0)
      BY DEF Resolve
    <3> HIDE DEF r, place
    <3>4. r.err = "ok" => Clear(s, r.node)
      BY <3>2, <3>3, LookupFinds
    <3> QED BY <3>1, <3>4
  <2> QED BY <2>1, <2>2
<1> HIDE DEF place
<1>4. PICK r : place = PlaceIn(r, p) /\ (r.err = "ok" => Clear(s, r.node))
  BY <1>3
<1>5. r.err = "ok" /\ place.node = r.node /\ place.name = LastOf(p)
  BY <1>1, <1>4, PlaceIs DEF PlaceIn
<1> QED
  BY <1>1, <1>2, <1>4, <1>5, DirOfIs DEF GoodPlace, GoodNames

\* Where O_CREAT makes a file, through however many links.
LEMMA CreateAtIsGood ==
    ASSUME FsNames, NEW s, Sound(s), NEW start, Clear(s, start), NEW p \in Path, NEW links \in Nat,
           CreateAt(s, start, p, links).err = "ok"
    PROVE  GoodPlace(s, CreateAt(s, start, p, links))
<1> DEFINE end == CreateEnd(s, start, p, links)
           x == ChaseOf(start, p, links)
<1>1. CreateAt(s, start, p, links) = CreateIn(s, end)
  BY DEF CreateAt
<1>2. x \in Chases(s)
  BY DEF Chases, ChaseOf, Clear
<1>3. end \in ChaseEnds(s)
  BY <1>2, ChaserIs
<1> HIDE DEF end
<1>4. /\ end.dir.err = "ok" /\ end.name # ".." /\ end.name \notin LongNames
      /\ IsDir(s, end.dir.node) /\ CreateIn(s, end) = Place(end.dir.node, end.name, FALSE)
  BY <1>1 DEF CreateIn, NoPlace, Place
<1>5. Clear(s, end.dir.node) /\ end.name \in Component \ {"."}
  BY <1>3, <1>4 DEF ChaseEnds
<1>6. CreateAt(s, start, p, links).node = end.dir.node
      /\ CreateAt(s, start, p, links).name = end.name
  BY <1>1, <1>4 DEF Place
<1> QED
  BY <1>4, <1>5, <1>6 DEF GoodPlace, GoodNames

-----------------------------------------------------------------------------
(* FsModel: what every call keeps                                          *)

\* Nodes stay what they are, whatever becomes of their names and parents, and
\* nothing is mounted on or below new ones.
SameNode(x, y) == y.kind = x.kind /\ y.link = x.link /\ y.over = x.over /\ y.vup = x.vup
SameNodes(s, t) ==
    /\ t.mac = s.mac /\ Len(t.nodes) >= Len(s.nodes)
    /\ \A x \in 1..Len(s.nodes) : SameNode(s.nodes[x], t.nodes[x])
    /\ \A x \in 1..Len(t.nodes) :
         x > Len(s.nodes) => t.nodes[x].over = 0 /\ t.nodes[x].vup = 0

\* What a call may make of it: an edit of the tree, or none.
Keeps(s, t) ==
    Sound(t) /\ (Edit(TreeOf(s), TreeOf(t)) \/ TreeOf(t) = TreeOf(s)) /\ SameNodes(s, t)
\* The same of calls that take no name away.
Grows(s, t) == Keeps(s, t) /\ TreeOf(s).entries \subseteq TreeOf(t).entries

\* What hangs together still does: parents that change become ones that
\* nothing is mounted on, and new names are proper ones in such directories.
GoodNode(s, x) == x.link \in Path /\ x.over = 0 /\ x.vup = 0 /\ Clear(s, x.up)
GoodEntry(s, e) == Clear(s, e.dir) /\ e.name \in GoodNames
LEMMA PlainKept ==
    ASSUME NEW s, Sound(s), NEW t, ModelShape(t), SameNodes(s, t),
           Clear(s, t.cwd), \A f \in DOMAIN t.fds : Clear(s, t.fds[f].node),
           \A x \in 1..Len(s.nodes) : t.nodes[x].up = s.nodes[x].up \/ Clear(s, t.nodes[x].up),
           \A x \in 1..Len(t.nodes) : x > Len(s.nodes) => GoodNode(s, t.nodes[x]),
           \A e \in TreeOf(t).entries : e \in TreeOf(s).entries \/ GoodEntry(s, e)
    PROVE  Plain(t)
<1> DEFINE k == Len(s.nodes)
           l == Len(t.nodes)
<1>1. /\ DOMAIN s.nodes = 1..k /\ k \in Nat /\ DOMAIN t.nodes = 1..l /\ l \in Nat /\ l >= k
      /\ \A x \in 1..k : NodePlain(s, s.nodes[x])
      /\ Seat(s, RootNode)
  BY DEF Sound, ModelShape, Plain, SameNodes
<1>2. \A n : /\ Clear(s, n) => Clear(t, n)
             /\ Seat(s, n) => Seat(t, n)
  BY <1>1 DEF Clear, SameNodes, SameNode, Seat, IsDir, Kind
<1>3. ASSUME NEW x \in 1..l, NEW c \in DOMAIN t.nodes[x].kids
      PROVE  x \in 1..k /\ (c \in DOMAIN s.nodes[x].kids \/ (Clear(s, x) /\ c \in GoodNames))
  <2>1. PICK e \in TreeOf(t).entries : e.dir = x /\ e.name = c
    <3> DEFINE e == Entry(x, c, t.nodes[x].kids[c])
    <3>1. e.dir = x /\ e.name = c /\ e.node = t.nodes[x].kids[c]
      BY EntryParts
    <3>2. e = Entry(e.dir, e.name, e.node)
      BY <3>1
    <3> HIDE DEF e
    <3>3. e \in TreeOf(t).entries
      BY <3>1, <3>2, <1>1, <1>3, EntryIn
    <3> QED BY <3>1, <3>3
  <2>2. CASE e \in TreeOf(s).entries
    BY <2>1, <2>2, <1>1, EntryIn
  <2>3. CASE GoodEntry(s, e)
    BY <2>1, <2>3, <1>1 DEF GoodEntry, Clear
  <2> QED BY <2>2, <2>3
<1>4. ASSUME NEW x \in 1..k PROVE NodePlain(t, t.nodes[x])
  <2>1. SameNode(s.nodes[x], t.nodes[x]) /\ NodePlain(s, s.nodes[x]) /\ x \in 1..l
    BY <1>1 DEF SameNodes
  <2>2. DOMAIN t.nodes[x].kids \subseteq GoodNames
    BY <2>1, <1>3 DEF NodePlain
  <2>3. t.nodes[x].over = 0 \/ (/\ Seat(t, t.nodes[x].over) /\ IsDirKind(t.nodes[x].kind)
                              /\ DOMAIN t.nodes[x].kids = {})
    <3>1. CASE s.nodes[x].over = 0
      BY <2>1, <3>1 DEF SameNode
    <3>2. CASE s.nodes[x].over # 0
      <4>1. Seat(s, s.nodes[x].over) /\ IsDirKind(s.nodes[x].kind)
            /\ DOMAIN s.nodes[x].kids = {} /\ ~Clear(s, x)
        BY <3>2, <2>1 DEF NodePlain, Clear
      <4>2. DOMAIN t.nodes[x].kids = {}
        BY <4>1, <2>1, <1>3
      <4> QED BY <4>1, <4>2, <2>1, <1>2 DEF SameNode
    <3> QED BY <3>1, <3>2
  <2>4. (t.nodes[x].vup = 0 \/ Seat(t, t.nodes[x].vup)) /\ t.nodes[x].link \in Path
    BY <2>1, <1>2 DEF NodePlain, SameNode
  <2>5. t.nodes[x].up = 0 \/ Clear(t, t.nodes[x].up)
    BY <2>1, <1>2 DEF NodePlain
  <2> QED BY <2>2, <2>3, <2>4, <2>5 DEF NodePlain
<1>5. ASSUME NEW x \in 1..l, x > k PROVE NodePlain(t, t.nodes[x])
  <2>1. DOMAIN t.nodes[x].kids = {}
    BY <1>1, <1>3, <1>5
  <2>2. GoodNode(s, t.nodes[x])
    BY <1>5
  <2> QED BY <2>1, <2>2, <1>2 DEF NodePlain, GoodNode
<1>6. \A x \in 1..l : x \in 1..k \/ x > k
  BY <1>1
<1> QED
  BY <1>1, <1>2, <1>4, <1>5, <1>6 DEF Plain

\* Nothing else than the nodes changes.
LEMMA OthersClear ==
    ASSUME NEW s, Sound(s), NEW t, OtherParts(s, t)
    PROVE  Clear(s, t.cwd) /\ \A f \in DOMAIN t.fds : Clear(s, t.fds[f].node)
BY DEF Sound, Plain, OtherParts

\* What hangs together still does when a node is made, a name is removed, or a
\* node is moved.
LEMMA MadePlain ==
    ASSUME NEW s, Sound(s), NEW t, ModelShape(t), OneTree(TreeOf(t)), OtherParts(s, t), NEW n, NEW c,
           NodeMade(TreeOf(s), TreeOf(t), n, c), Clear(s, n), c \in GoodNames,
           \A x \in 1..Len(s.nodes) : Alike(s.nodes[x], t.nodes[x]),
           NEW node, Alike(node, t.nodes[Len(t.nodes)]),
           node.link \in Path, node.over = 0, node.vup = 0
    PROVE  Plain(t) /\ SameNodes(s, t) /\ Clear(t, Len(t.nodes))
<1> DEFINE k == Len(s.nodes)
           l == Len(t.nodes)
<1>1. /\ TreeOf(s).count = k /\ k \in Nat /\ TreeOf(s).up = [x \in 1..k |-> s.nodes[x].up]
      /\ TreeOf(t).count = l /\ TreeOf(t).up = [x \in 1..l |-> t.nodes[x].up]
      /\ DOMAIN s.nodes = 1..k /\ DOMAIN t.nodes = 1..l
  BY TreeIs DEF Sound
<1>2. /\ l = k + 1 /\ TreeOf(t).entries = TreeOf(s).entries \cup {Entry(n, c, l)}
      /\ TreeOf(t).up = [x \in 1..l |-> IF x = l THEN n ELSE TreeOf(s).up[x]]
  BY <1>1 DEF NodeMade
<1>3. SameNodes(s, t)
  <2>1. \A x \in 1..l : x > k => x = l
    BY <1>1, <1>2
  <2>2. t.nodes[l].over = 0 /\ t.nodes[l].vup = 0
    BY DEF Alike
  <2>3. t.mac = s.mac /\ l >= k /\ \A x \in 1..k : SameNode(s.nodes[x], t.nodes[x])
    BY <1>1, <1>2 DEF SameNode, Alike, OtherParts
  <2> QED BY <2>1, <2>2, <2>3 DEF SameNodes
<1>4. \A x \in 1..k : t.nodes[x].up = s.nodes[x].up
  <2> TAKE x \in 1..k
  <2>1. x \in 1..l /\ x # l
    BY <1>1, <1>2
  <2> HIDE DEF k, l
  <2>2. TreeOf(t).up[x] = TreeOf(s).up[x]
    BY <1>2, <2>1
  <2>3. TreeOf(t).up[x] = t.nodes[x].up /\ TreeOf(s).up[x] = s.nodes[x].up
    BY <1>1, <2>1
  <2> QED BY <2>2, <2>3
<1>5. l \in 1..l /\ t.nodes[l].up = n /\ \A x \in 1..l : x > k => x = l
  <2>1. l \in 1..l /\ \A x \in 1..l : x > k => x = l
    BY <1>1, <1>2
  <2> HIDE DEF k, l
  <2>2. TreeOf(t).up[l] = n /\ TreeOf(t).up[l] = t.nodes[l].up
    BY <1>1, <1>2, <2>1
  <2> QED BY <2>1, <2>2
<1>6. \A x \in 1..l : x > k => GoodNode(s, t.nodes[x])
  BY <1>5 DEF GoodNode, Alike
<1>7. \A e \in TreeOf(t).entries : e \in TreeOf(s).entries \/ GoodEntry(s, e)
  BY <1>2, EntryParts DEF GoodEntry
<1>8. Clear(s, t.cwd) /\ \A f \in DOMAIN t.fds : Clear(s, t.fds[f].node)
  BY OthersClear
<1>9. Plain(t)
  BY <1>3, <1>4, <1>6, <1>7, <1>8, PlainKept
<1>10. Clear(t, l)
  BY <1>1, <1>5 DEF Clear, Alike
<1> QED
  BY <1>3, <1>9, <1>10
LEMMA RemovedPlain ==
    ASSUME NEW s, Sound(s), NEW t, ModelShape(t), OneTree(TreeOf(t)), OtherParts(s, t), NEW e,
           NameRemoved(TreeOf(s), TreeOf(t), e),
           \A x \in 1..Len(s.nodes) : Alike(s.nodes[x], t.nodes[x])
    PROVE  Plain(t) /\ SameNodes(s, t)
<1> DEFINE k == Len(s.nodes)
           l == Len(t.nodes)
<1>1. /\ TreeOf(s).count = k /\ k \in Nat /\ TreeOf(s).up = [x \in 1..k |-> s.nodes[x].up]
      /\ TreeOf(t).count = l /\ TreeOf(t).up = [x \in 1..l |-> t.nodes[x].up]
      /\ DOMAIN s.nodes = 1..k /\ DOMAIN t.nodes = 1..l
  BY TreeIs DEF Sound
<1>2. l = k /\ TreeOf(t).entries = TreeOf(s).entries \ {e} /\ TreeOf(t).up = TreeOf(s).up
  BY <1>1 DEF NameRemoved
<1>3. SameNodes(s, t)
  BY <1>1, <1>2 DEF SameNodes, SameNode, Alike, OtherParts
<1>4. \A x \in 1..k : t.nodes[x].up = s.nodes[x].up
  <2> HIDE DEF k, l
  <2> QED BY <1>1, <1>2
<1>5. Clear(s, t.cwd) /\ \A f \in DOMAIN t.fds : Clear(s, t.fds[f].node)
  BY OthersClear
<1>6. Plain(t)
  <2>1. \A x \in 1..l : ~(x > k)
    BY <1>1, <1>2
  <2>2. \A g \in TreeOf(t).entries : g \in TreeOf(s).entries
    BY <1>2
  <2> QED BY <1>3, <1>4, <1>5, <2>1, <2>2, PlainKept
<1> QED
  BY <1>3, <1>6
LEMMA MovedPlain ==
    ASSUME NEW s, Sound(s), NEW t, ModelShape(t), OneTree(TreeOf(t)), OtherParts(s, t), NEW e,
           NEW d, NEW c, NodeMoved(TreeOf(s), TreeOf(t), e, d, c), Clear(s, d), c \in GoodNames,
           \A x \in 1..Len(s.nodes) : Alike(s.nodes[x], t.nodes[x])
    PROVE  Plain(t) /\ SameNodes(s, t)
<1> DEFINE k == Len(s.nodes)
           l == Len(t.nodes)
<1>1. /\ TreeOf(s).count = k /\ k \in Nat /\ TreeOf(s).up = [x \in 1..k |-> s.nodes[x].up]
      /\ TreeOf(t).count = l /\ TreeOf(t).up = [x \in 1..l |-> t.nodes[x].up]
      /\ DOMAIN s.nodes = 1..k /\ DOMAIN t.nodes = 1..l
  BY TreeIs DEF Sound
<1>2. /\ l = k /\ TreeOf(t).up = [TreeOf(s).up EXCEPT ![e.node] = d]
      /\ \A g \in TreeOf(t).entries : g \in TreeOf(s).entries \/ g = Entry(d, c, e.node)
  BY <1>1 DEF NodeMoved
<1>3. SameNodes(s, t)
  BY <1>1, <1>2 DEF SameNodes, SameNode, Alike, OtherParts
<1>4. \A x \in 1..k : t.nodes[x].up = s.nodes[x].up \/ Clear(s, t.nodes[x].up)
  <2>1. \A x \in 1..k : TreeOf(t).up[x] = TreeOf(s).up[x] \/ TreeOf(t).up[x] = d
    BY <1>1, <1>2
  <2> HIDE DEF k, l
  <2> QED BY <1>1, <1>2, <2>1
<1>5. Clear(s, t.cwd) /\ \A f \in DOMAIN t.fds : Clear(s, t.fds[f].node)
  BY OthersClear
<1>6. \A g \in TreeOf(t).entries : g \in TreeOf(s).entries \/ GoodEntry(s, g)
  BY <1>2, EntryParts DEF GoodEntry
<1>7. Plain(t)
  <2>1. \A x \in 1..l : ~(x > k)
    BY <1>1, <1>2
  <2> QED BY <1>3, <1>4, <1>5, <1>6, <2>1, PlainKept
<1> QED
  BY <1>3, <1>7

\* The tree is read off kinds, parents, names and who is dead.
LEMMA SameTree ==
    ASSUME NEW s, ModelShape(s), OneTree(TreeOf(s)),
           NEW t, ModelShape(t), Len(t.nodes) = Len(s.nodes),
           \A x \in 1..Len(s.nodes) :
             /\ t.nodes[x].kind = s.nodes[x].kind /\ t.nodes[x].up = s.nodes[x].up
             /\ t.nodes[x].kids = s.nodes[x].kids /\ t.nodes[x].dead = s.nodes[x].dead
    PROVE  TreeOf(t) = TreeOf(s)
<1> DEFINE k == Len(s.nodes)
           T == TreeOf(s)
<1>1. /\ k \in Nat /\ DOMAIN s.nodes = 1..k /\ T.count = k
      /\ T.dirs = {x \in 1..k : IsDirKind(s.nodes[x].kind)}
      /\ T.up = [x \in 1..k |-> s.nodes[x].up]
      /\ T.dead = {x \in 1..k : s.nodes[x].dead}
  BY TreeIs
<1>2. /\ DOMAIN t.nodes = 1..k
      /\ TreeOf(t).dirs = {x \in 1..k : IsDirKind(t.nodes[x].kind)}
      /\ TreeOf(t).up = [x \in 1..k |-> t.nodes[x].up]
      /\ TreeOf(t).dead = {x \in 1..k : t.nodes[x].dead}
  BY TreeIs
<1>3. TreeOf(t).dirs = T.dirs /\ TreeOf(t).dead = T.dead
  BY <1>1, <1>2
<1>4. TreeOf(t).up = T.up
  BY <1>1, <1>2
<1>5. TreeOf(t).entries = T.entries
  <2>1. \A d \in 1..k : EntriesOf(t, d) = EntriesOf(s, d)
    BY DEF EntriesOf, Kids
  <2>2. /\ TreeOf(t).entries = UNION {EntriesOf(t, d) : d \in 1..k}
        /\ T.entries = UNION {EntriesOf(s, d) : d \in 1..k}
    BY <1>1, <1>2 DEF TreeOf
  <2>3. {EntriesOf(t, d) : d \in 1..k} = {EntriesOf(s, d) : d \in 1..k}
    BY <2>1
  <2> QED BY <2>2, <2>3
<1>6. T = [count |-> T.count, dirs |-> T.dirs, up |-> T.up, entries |-> T.entries,
           dead |-> T.dead, above |-> T.above]
  BY DEF TreeOf
<1> HIDE DEF T, k
<1>7. T.count = Len(t.nodes) /\ OneTree(T)
  BY <1>1 DEF k, T
<1> QED
  BY <1>3, <1>4, <1>5, <1>6, <1>7, TreeRebuilt DEF T

\* An edit of nodes leaves the rest of the model in order.
LEMMA PartsKept ==
    ASSUME NEW s, ModelShape(s), ModelOK(s), NEW t, ModelShape(t), OtherParts(s, t),
           NEW k, k = Len(s.nodes), k <= Len(t.nodes),
           \A x \in 1..k : Alike(s.nodes[x], t.nodes[x]) /\ t.nodes[x].dead \in BOOLEAN,
           \A x \in 1..Len(t.nodes) : x > k =>
             /\ t.nodes[x].kind \in Kinds /\ t.nodes[x].dead \in BOOLEAN
             /\ t.nodes[x].len \in 0..MaxLen
    PROVE  ModelOK(t)
<1>1. /\ DOMAIN s.nodes = 1..k /\ k \in Nat
      /\ DOMAIN t.nodes = 1..Len(t.nodes) /\ Len(t.nodes) \in Nat
      /\ 1..k \subseteq DOMAIN t.nodes
  BY DEF ModelShape
<1>2. \A x \in 1..k : IsDir(t, x) <=> IsDir(s, x)
  BY <1>1 DEF IsDir, Kind, Alike
<1>3. \A x : IsDir(s, x) => x \in 1..k
  BY <1>1 DEF IsDir, Kind, IsDirKind
<1>4. \A x \in DOMAIN t.nodes : /\ t.nodes[x].kind \in Kinds
                                /\ t.nodes[x].dead \in BOOLEAN
                                /\ t.nodes[x].len \in 0..MaxLen
  <2> TAKE x \in DOMAIN t.nodes
  <2>1. CASE x \in 1..k
    BY <2>1, <1>1 DEF ModelOK, Alike
  <2>2. CASE x > k
    BY <2>2, <1>1
  <2> QED BY <2>1, <2>2, <1>1
<1>5. t.mac \in BOOLEAN /\ t.next \in Nat /\ t.next >= 3 /\ IsDir(t, t.cwd)
  BY <1>2, <1>3 DEF ModelOK, OtherParts
<1>6. \A f \in DOMAIN t.fds :
         /\ f \in 3..(t.next - 1)
         /\ t.fds[f] \in [node : DOMAIN t.nodes, dir : BOOLEAN, pos : 0..MaxLen, write : BOOLEAN]
         /\ t.fds[f].dir <=> IsDir(t, t.fds[f].node)
  <2> TAKE f \in DOMAIN t.fds
  <2>1. /\ f \in 3..(s.next - 1) /\ t.fds[f] = s.fds[f] /\ t.next = s.next
        /\ s.fds[f] \in [node : DOMAIN s.nodes, dir : BOOLEAN, pos : 0..MaxLen, write : BOOLEAN]
        /\ s.fds[f].dir <=> IsDir(s, s.fds[f].node)
    BY DEF OtherParts, ModelOK
  <2>2. s.fds[f].node \in 1..k
    BY <2>1, <1>1
  <2>3. s.fds[f] \in [node : DOMAIN t.nodes, dir : BOOLEAN, pos : 0..MaxLen, write : BOOLEAN]
    BY <2>1, <1>1
  <2> QED BY <2>1, <2>2, <2>3, <1>2
<1> QED
  BY <1>4, <1>5, <1>6 DEF ModelOK

\* Doing nothing keeps the model in order.
LEMMA SameKeeps == ASSUME NEW s, Sound(s) PROVE Grows(s, s)
BY DEF Grows, Keeps, SameNodes, SameNode, Sound, ModelShape

\* A node of its own for what the calls make: none of them has names or is dead.
LEMMA NodeIs ==
    ASSUME NEW kind, NEW link
    PROVE  LET x == Node(kind, link, 0) IN
           /\ NodeShape(x) /\ DOMAIN x.kids = {} /\ x.dead = FALSE /\ x.kind = kind /\ x.len = 0
           /\ x.link = link /\ x.over = 0 /\ x.vup = 0
BY DEF Node, NodeShape, NoKids

\* Making a node keeps the model in order.
LEMMA AddKeeps ==
    ASSUME FsBounds, NEW s, Sound(s), NEW n, IsDir(s, n), Clear(s, n), ~IsDetached(s, n),
           NEW c, ~Has(s, n, c), c \in GoodNames, NEW kind \in Kinds, NEW link \in Path
    PROVE  LET t == Add(s, n, c, Node(kind, link, 0)) IN
           /\ Keeps(s, t) /\ Len(t.nodes) = Len(s.nodes) + 1
           /\ t.nodes[Len(t.nodes)].kind = kind /\ Clear(t, Len(t.nodes))
           /\ NodeMade(TreeOf(s), TreeOf(t), n, c)
<1> DEFINE k == Len(s.nodes)
           node == Node(kind, link, 0)
           t == Add(s, n, c, node)
<1>1. /\ NodeShape(node) /\ DOMAIN node.kids = {}
      /\ node.dead = FALSE /\ node.kind = kind /\ node.len = 0
      /\ node.link = link /\ node.over = 0 /\ node.vup = 0
  <2>1. NodeShape(node)
    BY DEF Node, NodeShape, NoKids
  <2> QED BY <2>1 DEF Node, NoKids
<1>2. ModelShape(s) /\ ModelOK(s) /\ OneTree(TreeOf(s)) /\ k \in Nat /\ DOMAIN s.nodes = 1..k
  BY DEF Sound, ModelShape
<1> HIDE DEF node, k
<1>3. /\ OtherParts(s, t) /\ ModelShape(t) /\ Len(t.nodes) = k + 1
      /\ \A x \in 1..k : Alike(s.nodes[x], t.nodes[x]) /\ t.nodes[x].dead = s.nodes[x].dead
      /\ Alike(node, t.nodes[k + 1]) /\ t.nodes[k + 1].dead = node.dead
      /\ OneTree(TreeOf(t)) /\ Edit(TreeOf(s), TreeOf(t))
      /\ NodeMade(TreeOf(s), TreeOf(t), n, c)
  BY <1>1, <1>2, AddEdits DEF k
<1> HIDE DEF t
<1>4. \A x \in 1..k : t.nodes[x].dead \in BOOLEAN
  BY <1>2, <1>3 DEF ModelOK
<1>5. \A x \in 1..Len(t.nodes) : x > k =>
        /\ t.nodes[x].kind \in Kinds /\ t.nodes[x].dead \in BOOLEAN /\ t.nodes[x].len \in 0..MaxLen
  <2>1. \A x \in 1..Len(t.nodes) : x > k => x = k + 1
    BY <1>2, <1>3
  <2>2. t.nodes[k + 1].kind = kind /\ t.nodes[k + 1].dead = FALSE /\ t.nodes[k + 1].len = 0
    BY <1>1, <1>3 DEF Alike
  <2>3. 0 \in 0..MaxLen
    BY DEF FsBounds
  <2> QED BY <2>1, <2>2, <2>3
<1>6. ModelOK(t)
  <2>1. k <= Len(t.nodes)
    BY <1>2, <1>3
  <2> QED BY <2>1, <1>2, <1>3, <1>4, <1>5, PartsKept DEF k
<1>7. Plain(t) /\ SameNodes(s, t) /\ Clear(t, Len(t.nodes))
  <2>1. /\ \A x \in 1..Len(s.nodes) : Alike(s.nodes[x], t.nodes[x])
        /\ Alike(node, t.nodes[Len(t.nodes)])
        /\ node.link \in Path /\ node.over = 0 /\ node.vup = 0
    BY <1>1, <1>3 DEF k
  <2> QED BY <2>1, <1>3, MadePlain
<1> QED
  BY <1>1, <1>3, <1>6, <1>7 DEF Keeps, Sound, Alike, t, node, k

\* A new node, at a place that names a directory.
LEMMA AddAtKeeps ==
    ASSUME FsBounds, NEW s, Sound(s), NEW place, place.err = "ok" => GoodPlace(s, place),
           NEW kind \in Kinds, NEW link \in Path, NEW exists
    PROVE  LET r == AddAt(s, place, Node(kind, link, 0), exists) IN
           /\ Grows(s, r.model)
           /\ exists # "ok" /\ r.err = "ok" => /\ r.model.nodes[Len(r.model.nodes)].kind = kind
                                               /\ Clear(r.model, Len(r.model.nodes))
<1> DEFINE r == AddAt(s, place, Node(kind, link, 0), exists)
           t == Add(s, place.node, place.name, Node(kind, link, 0))
<1>1. CASE place.err = "ok" /\ ~Has(s, place.node, place.name) /\ ~IsDetached(s, place.node)
  <2>1. r = Done(t)
    BY <1>1 DEF AddAt, CheckLive
  <2>2. /\ Grows(s, t) /\ t.nodes[Len(t.nodes)].kind = kind /\ Clear(t, Len(t.nodes))
    <3>1. /\ Keeps(s, t) /\ t.nodes[Len(t.nodes)].kind = kind /\ Clear(t, Len(t.nodes))
          /\ NodeMade(TreeOf(s), TreeOf(t), place.node, place.name)
      BY <1>1, AddKeeps DEF GoodPlace
    <3> HIDE DEF t
    <3> QED BY <3>1 DEF Grows, NodeMade
  <2> HIDE DEF t, r
  <2> QED BY <2>1, <2>2 DEF Done, r
<1>2. CASE ~(place.err = "ok" /\ ~Has(s, place.node, place.name) /\ ~IsDetached(s, place.node))
  <2>1. \E e : r = Fail(s, e) /\ (exists # "ok" => e # "ok")
    BY <1>2 DEF AddAt, CheckLive
  <2>2. r.model = s /\ (exists # "ok" => r.err # "ok")
    BY <2>1 DEF Fail
  <2> QED BY <2>2, SameKeeps
<1> QED
  BY <1>1, <1>2

\* Descriptors, the current directory and the counter change, the nodes do not.
LEMMA NodesKept ==
    ASSUME NEW s, Sound(s), NEW t, t.nodes = s.nodes, ModelShape(t), ModelOK(t), t.mac = s.mac,
           Clear(s, t.cwd), \A f \in DOMAIN t.fds : Clear(s, t.fds[f].node)
    PROVE  Keeps(s, t) /\ TreeOf(t) = TreeOf(s)
<1>1. TreeOf(t) = TreeOf(s)
  BY SameTree DEF Sound
<1>2. Plain(t)
  BY DEF Plain, Sound, Clear, NodePlain, Seat, IsDir, Kind
<1>3. SameNodes(s, t)
  BY DEF SameNodes, SameNode, Sound, ModelShape
<1> QED
  BY <1>1, <1>2, <1>3 DEF Keeps, Sound

\* Taking a descriptor for a node keeps the model in order and edits nothing.
LEMMA AllocKeeps ==
    ASSUME NEW s, Sound(s), NEW n \in DOMAIN s.nodes, NEW dir \in BOOLEAN, NEW write \in BOOLEAN,
           dir <=> IsDir(s, n), MaxLen \in Nat, Clear(s, n)
    PROVE  LET t == AllocFd(s, n, dir, write).model IN Keeps(s, t) /\ TreeOf(t) = TreeOf(s)
<1> DEFINE new == [node |-> n, dir |-> dir, pos |-> 0, write |-> write]
           fds == [f \in DOMAIN s.fds \cup {s.next} |-> IF f = s.next THEN new ELSE s.fds[f]]
           t == AllocFd(s, n, dir, write).model
<1>1. t = [s EXCEPT !.fds = fds, !.next = s.next + 1]
  BY DEF AllocFd
<1>2. t = [mac |-> s.mac, nodes |-> s.nodes, cwd |-> s.cwd, fds |-> fds, next |-> s.next + 1]
  BY <1>1 DEF Sound, ModelShape
<1>3. new \in [node : DOMAIN s.nodes, dir : BOOLEAN, pos : 0..MaxLen, write : BOOLEAN]
      /\ new.node = n /\ new.dir = dir
  OBVIOUS
<1> HIDE DEF new
<1>4. fds = [f \in DOMAIN fds |-> fds[f]] /\ DOMAIN fds = DOMAIN s.fds \cup {s.next}
      /\ fds[s.next] = new /\ \A f \in DOMAIN s.fds : f # s.next => fds[f] = s.fds[f]
  OBVIOUS
<1> HIDE DEF fds, t
<1>5. ModelShape(t)
  BY <1>2, <1>4 DEF Sound, ModelShape
<1>6. \A x : IsDir(t, x) <=> IsDir(s, x)
  BY <1>2 DEF IsDir, Kind
<1>7. s.next \in Nat /\ s.next >= 3 /\ \A f \in DOMAIN s.fds : f \in 3..(s.next - 1)
  BY DEF Sound, ModelOK
<1>8. \A f \in DOMAIN fds :
        /\ f \in 3..s.next
        /\ fds[f] \in [node : DOMAIN s.nodes, dir : BOOLEAN, pos : 0..MaxLen, write : BOOLEAN]
        /\ fds[f].dir <=> IsDir(s, fds[f].node)
  <2> TAKE f \in DOMAIN fds
  <2>1. CASE f = s.next
    BY <2>1, <1>3, <1>4, <1>7
  <2>2. CASE f # s.next
    <3>1. f \in DOMAIN s.fds /\ fds[f] = s.fds[f]
      BY <2>2, <1>4
    <3> QED BY <3>1, <1>7 DEF Sound, ModelOK
  <2> QED BY <2>1, <2>2
<1>9. ModelOK(t)
  <2>1. t.mac = s.mac /\ t.nodes = s.nodes /\ t.cwd = s.cwd /\ t.fds = fds /\ t.next = s.next + 1
    BY <1>2
  <2>2. /\ t.mac \in BOOLEAN /\ IsDir(t, t.cwd)
        /\ \A n_1 \in DOMAIN t.nodes : /\ t.nodes[n_1].kind \in Kinds
                                      /\ t.nodes[n_1].dead \in BOOLEAN
                                      /\ t.nodes[n_1].len \in 0..MaxLen
    BY <2>1, <1>6 DEF Sound, ModelOK
  <2>3. t.next \in Nat /\ t.next >= 3 /\ t.next - 1 = s.next
    BY <2>1, <1>7
  <2>4. \A f \in DOMAIN t.fds :
        /\ f \in 3..(t.next - 1)
        /\ t.fds[f] \in [node : DOMAIN t.nodes, dir : BOOLEAN, pos : 0..MaxLen, write : BOOLEAN]
        /\ t.fds[f].dir <=> IsDir(t, t.fds[f].node)
    BY <2>1, <2>3, <1>6, <1>8
  <2> QED BY <2>2, <2>3, <2>4 DEF ModelOK
<1>10. t.nodes = s.nodes /\ t.mac = s.mac /\ t.cwd = s.cwd /\ t.fds = fds
  BY <1>2
<1>11. Clear(s, t.cwd) /\ \A f \in DOMAIN t.fds : Clear(s, t.fds[f].node)
  BY <1>3, <1>4, <1>10 DEF Sound, Plain
<1> QED
  BY <1>5, <1>9, <1>10, <1>11, NodesKept DEF t

\* Nodes that stay what they are do so over two steps.
LEMMA SameNodesOn ==
    ASSUME NEW s, NEW t, NEW u, SameNodes(s, t), SameNodes(t, u),
           Len(s.nodes) \in Nat, Len(t.nodes) \in Nat, Len(u.nodes) \in Nat
    PROVE  SameNodes(s, u)
<1>1. u.mac = s.mac /\ Len(u.nodes) >= Len(s.nodes)
  BY DEF SameNodes
<1>2. \A x \in 1..Len(s.nodes) : SameNode(s.nodes[x], u.nodes[x])
  <2> TAKE x \in 1..Len(s.nodes)
  <2>1. x \in 1..Len(t.nodes)
    BY DEF SameNodes
  <2>2. SameNode(s.nodes[x], t.nodes[x]) /\ SameNode(t.nodes[x], u.nodes[x])
    BY <2>1 DEF SameNodes
  <2> QED BY <2>2 DEF SameNode
<1>3. ASSUME NEW x \in 1..Len(u.nodes), x > Len(s.nodes)
      PROVE  u.nodes[x].over = 0 /\ u.nodes[x].vup = 0
  <2>1. CASE x > Len(t.nodes)
    BY <2>1, <1>3 DEF SameNodes
  <2>2. CASE ~(x > Len(t.nodes))
    <3>1. x \in 1..Len(t.nodes)
      BY <2>2
    <3>2. SameNode(t.nodes[x], u.nodes[x]) /\ t.nodes[x].over = 0 /\ t.nodes[x].vup = 0
      BY <3>1, <1>3 DEF SameNodes
    <3> QED BY <3>2 DEF SameNode
  <2> QED BY <2>1, <2>2
<1> QED
  BY <1>1, <1>2, <1>3 DEF SameNodes

\* Two steps of which the second edits nothing.
LEMMA KeepsOn ==
    ASSUME NEW s, NEW t, NEW u, Sound(s), Grows(s, t), Keeps(t, u), TreeOf(u) = TreeOf(t)
    PROVE  Grows(s, u)
<1>1. Len(s.nodes) \in Nat /\ Len(t.nodes) \in Nat /\ Len(u.nodes) \in Nat
  BY DEF Grows, Keeps, Sound, ModelShape
<1>2. SameNodes(s, u)
  BY <1>1, SameNodesOn DEF Grows, Keeps
<1> QED
  BY <1>2 DEF Grows, Keeps

LEMMA NoPathIs == NoPath \in Path /\ IsEmptyPath(NoPath)
BY DEF NoPath, Path, Rel, IsEmptyPath

\* Making a file and opening it keep the model in order.
LEMMA CreateKeeps ==
    ASSUME FsBounds, NEW s, Sound(s), NEW place, place.err = "ok" => GoodPlace(s, place), NEW flags
    PROVE  Grows(s, CreateFile(s, place, flags).model)
<1> DEFINE r == AddAt(s, place, Node("file", NoPath, 0), "EEXIST")
           t == AllocFd(r.model, Len(r.model.nodes), FALSE, "write" \in flags).model
<1>1. Grows(s, r.model) /\ (r.err = "ok" => /\ r.model.nodes[Len(r.model.nodes)].kind = "file"
                                            /\ Clear(r.model, Len(r.model.nodes)))
  <2>1. "file" \in Kinds /\ "EEXIST" # "ok" /\ NoPath \in Path
    BY NoPathIs DEF Kinds
  <2> QED BY <2>1, AddAtKeeps
<1> HIDE DEF r
<1>2. CASE r.err # "ok"
  BY <1>1, <1>2 DEF CreateFile, OpenNew, r
<1>3. CASE r.err = "ok"
  <2>1. CreateFile(s, place, flags).model = t
    BY <1>3 DEF CreateFile, OpenNew, r
  <2>2. Len(r.model.nodes) \in DOMAIN r.model.nodes
    <3>1. TreeOf(r.model).count \in Nat \ {0} /\ TreeOf(r.model).count = Len(r.model.nodes)
      BY <1>1, TreeParts, TreeIs DEF Grows, Keeps, Sound
    <3>2. DOMAIN r.model.nodes = 1..Len(r.model.nodes)
      BY <1>1, TreeIs DEF Grows, Keeps, Sound
    <3> QED BY <3>1, <3>2
  <2>3. ~IsDir(r.model, Len(r.model.nodes))
    BY <1>1, <1>3, <2>2 DEF IsDir, Kind, IsDirKind
  <2>4. ("write" \in flags) \in BOOLEAN /\ MaxLen \in Nat
    BY DEF FsBounds
  <2>5. Keeps(r.model, t) /\ TreeOf(t) = TreeOf(r.model)
    BY <1>1, <1>3, <2>2, <2>3, <2>4, AllocKeeps DEF Grows, Keeps
  <2> HIDE DEF t
  <2> QED BY <1>1, <2>1, <2>5, KeepsOn
<1> QED
  BY <1>2, <1>3

-----------------------------------------------------------------------------
(* FsModel: what a slash leads to                                          *)

\* What a slash leads to.
TrailOK(s, t) ==
    /\ t.is \in {"missing", "dangling", "error", "dir", "nondir"}
    /\ t.is = "dangling" => t.end.err = "ok" /\ GoodPlace(s, t.end)
    /\ t.is = "dir" => IsDir(s, t.node)
    /\ t.is = "error" => t.err # "ok"

\* What is said of a name with a slash: where something is to be made, a directory is.
LEMMA TrailOfIs ==
    ASSUME NEW s, NEW r, NEW end, end.err = "ok" /\ r.err = "ENOENT" => GoodPlace(s, end)
    PROVE  TrailOK(s, TrailOf(s, r, end))
<1>1. CASE r.err = "ENOENT" /\ end.err = "ok"
  BY <1>1 DEF TrailOf, TrailOK
<1>2. CASE r.err = "ENOENT" /\ end.err # "ok"
  BY <1>2 DEF TrailOf, TrailOK
<1>3. CASE r.err \notin {"ENOENT", "ok"}
  BY <1>3 DEF TrailOf, TrailOK
<1>4. CASE r.err = "ok"
  BY <1>4 DEF TrailOf, TrailOK
<1> QED
  BY <1>1, <1>2, <1>3, <1>4

\* The same of every name.
LEMMA TrailIs ==
    ASSUME FsNames, NEW s, Sound(s), NEW start, NEW place, NEW p \in Path, Clear(s, start.node)
    PROVE  TrailOK(s, Trail(s, start, place, p))
<1>1. CASE ~Has(s, place.node, place.name)
  <2>1. Trail(s, start, place, p) = [is |-> "missing"]
    BY <1>1 DEF Trail
  <2> QED BY <2>1 DEF TrailOK
<1>2. CASE Has(s, place.node, place.name)
  <2>1. \E r, end : /\ Trail(s, start, place, p) = TrailOf(s, r, end)
                    /\ end.err = "ok" /\ r.err = "ENOENT" => GoodPlace(s, end)
    <3> DEFINE id == Kids(s, place.node)[place.name]
    <3>1. CASE s.nodes[id].kind # "link"
      <4>1. Trail(s, start, place, p) = TrailOf(s, Found(id, 0), NoPlace("ok"))
        BY <1>2, <3>1 DEF Trail
      <4>2. Found(id, 0).err # "ENOENT"
        BY DEF Found
      <4> QED BY <4>1, <4>2
    <3>2. CASE s.nodes[id].kind = "link"
      <4>1. Trail(s, start, place, p) =
              TrailOf(s, Follow(s, "virtual", place.node, id, 0), CreateAt(s, start.node, p, 0))
        BY <1>2, <3>2 DEF Trail
      <4>2. 0 \in Nat
        OBVIOUS
      <4> QED BY <4>1, <4>2, CreateAtIsGood
    <3> QED BY <3>1, <3>2
  <2> QED BY <2>1, TrailOfIs
<1> QED
  BY <1>1, <1>2

\* The place that owns a name: the parent that a lookup found, or the one a
\* directory was reached through.
Owns(s, place) == place.node \in DOMAIN s.nodes /\ Has(s, place.node, place.name)

\* A directory that has an owner is found under a name of its parent.
LEMMA OwnerIs ==
    ASSUME NEW s, Sound(s), NEW n, IsDir(s, n), OwnerOf(s, n).err = "ok"
    PROVE  Owns(s, OwnerOf(s, n)) /\ GoodPlace(s, OwnerOf(s, n))
<1> DEFINE up == s.nodes[n].up
<1>1. n \in 1..Len(s.nodes) /\ DOMAIN s.nodes = 1..Len(s.nodes)
  BY TreeIs DEF Sound, IsDir, Kind, IsDirKind
<1>2. NamesIn(s, n) # {} /\ OwnerOf(s, n) = Place(up, CHOOSE c \in NamesIn(s, n) : TRUE, FALSE)
  BY DEF OwnerOf, NoPlace
<1>3. up # 0 /\ (CHOOSE c \in NamesIn(s, n) : TRUE) \in DOMAIN Kids(s, up)
  BY <1>2 DEF NamesIn
<1>4. up \in TreeOf(s).dirs
  <2> DEFINE T == TreeOf(s)
  <2>1. ModelShape(s) /\ OneTree(T)
    BY DEF Sound
  <2>2. /\ T.up = [x \in 1..Len(s.nodes) |-> s.nodes[x].up]
        /\ T.count = Len(s.nodes) /\ T.count \in Nat
    BY <2>1, TreeIs
  <2>3. RootedBy(T.count, T.dirs, T.up, T.above)
    BY <2>1, TreeParts
  <2>4. T.up[n] = up /\ n \in 1..T.count
    BY <2>2, <1>1
  <2>5. T.up[n] # 0
    BY <2>4, <1>3
  <2> HIDE DEF T, up
  <2>6. n # Top /\ n \in 2..T.count
    BY <2>2, <2>3, <2>4, <2>5 DEF RootedBy, Top
  <2>7. T.up[n] \in T.dirs
    BY <2>3, <2>6 DEF RootedBy
  <2> QED BY <2>4, <2>7 DEF T
<1>5. up \in DOMAIN s.nodes /\ IsDir(s, up)
  BY <1>1, <1>4, TreeIs DEF Sound
<1>6. OwnerOf(s, n).node = up /\ OwnerOf(s, n).name \in DOMAIN Kids(s, up)
  BY <1>2, <1>3 DEF Place
<1>7. Clear(s, up) /\ DOMAIN Kids(s, up) \subseteq GoodNames
  <2>1. NodePlain(s, s.nodes[n]) /\ NodePlain(s, s.nodes[up])
    BY <1>1, <1>5, NodesAre
  <2> QED BY <2>1, <1>3 DEF NodePlain, Kids
<1> QED
  BY <1>5, <1>6, <1>7 DEF Owns, Has, GoodPlace

\* A slash on a name looks through links.
LEMMA SlashIs ==
    ASSUME NEW s, Sound(s), NEW place, GoodPlace(s, place), NEW t, TrailOK(s, t),
           ThroughSlash(s, place, t).err = "ok", t.is = "dir" => Has(s, place.node, place.name)
    PROVE  LET to == ThroughSlash(s, place, t) IN GoodPlace(s, to) /\ Owns(s, to)
<1>1. t.is = "dir"
  <2>1. t.is \in {"missing", "dangling", "error", "dir", "nondir"}
    BY DEF TrailOK
  <2>2. CASE t.is = "error"
    BY <2>2 DEF TrailOK, ThroughSlash, NoPlace
  <2>3. CASE t.is \in {"missing", "dangling"}
    BY <2>3 DEF ThroughSlash, NoPlace
  <2>4. CASE t.is = "nondir"
    BY <2>4 DEF ThroughSlash, NoPlace
  <2> QED BY <2>1, <2>2, <2>3, <2>4
<1>2. CASE Kids(s, place.node)[place.name] = t.node
  <2>1. ThroughSlash(s, place, t) = place
    BY <1>1, <1>2 DEF ThroughSlash
  <2>2. place.node \in DOMAIN s.nodes
    BY DEF GoodPlace, Clear
  <2> QED BY <2>1, <2>2, <1>1 DEF Owns
<1>3. CASE Kids(s, place.node)[place.name] # t.node
  <2>1. ThroughSlash(s, place, t) = OwnerOf(s, t.node)
    BY <1>1, <1>3 DEF ThroughSlash
  <2> QED BY <2>1, <1>1, OwnerIs DEF TrailOK
<1> QED
  BY <1>2, <1>3

-----------------------------------------------------------------------------
(* FsOps: every operation keeps the model in order                         *)

\* A call that fails changes nothing.
LEMMA FailKeeps == ASSUME NEW s, Sound(s), NEW e PROVE Grows(s, Fail(s, e).model)
BY SameKeeps DEF Fail

\* What is a directory has its name.
LEMMA TrailHas ==
    ASSUME NEW s, NEW start, NEW place, NEW p, Trail(s, start, place, p).is = "dir"
    PROVE  Has(s, place.node, place.name)
BY DEF Trail

\* A place is found only from where there is something.
LEMMA PlacedFrom ==
    ASSUME NEW s, NEW start, GoodStart(s, start), NEW p, Parent(s, start, p).err = "ok"
    PROVE  Clear(s, start.node)
<1>1. ParentUnchecked(s, start, p).err = "ok"
  BY DEF Parent, Checked, NoPlace
<1>2. start.err = "ok"
  BY <1>1 DEF ParentUnchecked, NoPlace, PlaceIn
<1> QED
  BY <1>2 DEF GoodStart

\* mkdir of a name with a slash.
LEMMA MkdirTrailKeeps ==
    ASSUME FsBounds, NEW s, Sound(s), NEW place, GoodPlace(s, place), NEW t, TrailOK(s, t)
    PROVE  Grows(s, MkdirTrail(s, place, t).model)
<1>1. t.is \in {"missing", "dangling", "error", "dir", "nondir"}
  BY DEF TrailOK
<1>2. CASE t.is \in {"missing", "dangling"}
  <2> DEFINE spot == IF t.is = "missing" THEN place ELSE t.end
  <2>1. MkdirTrail(s, place, t) = AddAt(s, spot, Node("dir", NoPath, 0), "EEXIST")
    BY <1>2 DEF MkdirTrail
  <2>2. GoodPlace(s, spot) /\ "dir" \in Kinds /\ NoPath \in Path
    BY <1>2, NoPathIs DEF TrailOK, Kinds
  <2> HIDE DEF spot
  <2> QED BY <2>1, <2>2, AddAtKeeps
<1>3. CASE t.is \in {"error", "dir", "nondir"}
  <2>1. \E e : MkdirTrail(s, place, t) = Fail(s, e)
    BY <1>3 DEF MkdirTrail
  <2> QED BY <2>1, FailKeeps
<1> QED
  BY <1>1, <1>2, <1>3

\* mkdir and mkdirat.
LEMMA MkdirKeeps ==
    ASSUME FsBounds, FsNames, NEW s, Sound(s), NEW fd, NEW p \in Path
    PROVE  Grows(s, Mkdir(s, fd, p).model)
<1> DEFINE start == AtStart(s, fd, p)
           place == Parent(s, start, p)
<1>1. place.err = "ok" => GoodPlace(s, place) /\ Clear(s, start.node)
  BY StartIsGood, ParentIsGood, PlacedFrom
<1>2. Mkdir(s, fd, p) \in {Fail(s, RootErrno(s, "EEXIST")), MkdirAt(s, start, place, p)}
  BY DEF Mkdir
<1> HIDE DEF start, place
<1>3. Grows(s, MkdirAt(s, start, place, p).model)
  <2>1. CASE place.err = "ok" /\ place.slash /\ s.mac
    <3>1. MkdirAt(s, start, place, p) = MkdirTrail(s, place, Trail(s, start, place, p))
      BY <2>1 DEF MkdirAt
    <3> QED BY <2>1, <3>1, <1>1, TrailIs, MkdirTrailKeeps
  <2>2. CASE ~(place.err = "ok" /\ place.slash /\ s.mac)
    <3>1. MkdirAt(s, start, place, p) = AddAt(s, place, Node("dir", NoPath, 0), "EEXIST")
      BY <2>2 DEF MkdirAt
    <3>2. "dir" \in Kinds /\ NoPath \in Path
      BY NoPathIs DEF Kinds
    <3> QED BY <3>1, <3>2, <1>1, AddAtKeeps
  <2> QED BY <2>1, <2>2
<1> QED
  BY <1>2, <1>3, FailKeeps

\* symlink.
LEMMA SymlinkKeeps ==
    ASSUME FsBounds, FsNames, NEW s, Sound(s), NEW target \in Path, NEW p \in Path
    PROVE  Grows(s, Symlink(s, target, p).model)
<1> DEFINE place == Parent(s, Found(s.cwd, 0), p)
<1>1. place.err = "ok" => GoodPlace(s, place)
  BY StartIsGood, ParentIsGood
<1>2. \/ Symlink(s, target, p) = SymlinkAt(s, target, place, p)
      \/ \E e : Symlink(s, target, p) = Fail(s, e)
  BY DEF Symlink
<1> HIDE DEF place
<1>3. \/ SymlinkAt(s, target, place, p) = AddAt(s, place, Node("link", target, 0), "EEXIST")
      \/ \E e : SymlinkAt(s, target, place, p) = Fail(s, e)
  BY DEF SymlinkAt
<1>4. Grows(s, AddAt(s, place, Node("link", target, 0), "EEXIST").model)
  <2>1. "link" \in Kinds
    BY DEF Kinds
  <2> QED BY <2>1, <1>1, AddAtKeeps
<1> QED
  BY <1>2, <1>3, <1>4, FailKeeps

\* bind, on macOS through a last link.
LEMMA BindKeeps ==
    ASSUME FsBounds, FsNames, NEW s, Sound(s), NEW p \in Path
    PROVE  Grows(s, Bind(s, p).model)
<1> DEFINE place == Parent(s, Found(s.cwd, 0), p)
           end == CreateAt(s, s.cwd, p, 0)
           used == IF end.err = "EEXIST" THEN NoPlace("EADDRINUSE") ELSE end
           through == /\ s.mac /\ Has(s, place.node, place.name)
                      /\ s.nodes[Kids(s, place.node)[place.name]].kind = "link"
           spot == IF through THEN used ELSE place
<1>1. place.err = "ok" => GoodPlace(s, place)
  BY StartIsGood, ParentIsGood
<1>2. used.err = "ok" => GoodPlace(s, used)
  <2>1. end.err = "ok" => GoodPlace(s, end)
    <3>1. Clear(s, s.cwd) /\ 0 \in Nat
      BY DEF Sound, Plain
    <3> QED BY <3>1, CreateAtIsGood
  <2> HIDE DEF end
  <2> QED BY <2>1 DEF NoPlace
<1>3. Bind(s, p) = BindAt(s, place, p) \/ \E e : Bind(s, p) = Fail(s, e)
  BY DEF Bind
<1>4. \/ BindAt(s, place, p) = AddAt(s, spot, Node("socket", NoPath, 0), "EADDRINUSE")
      \/ \E e : BindAt(s, place, p) = Fail(s, e)
  <2> HIDE DEF place
  <2> QED BY DEF BindAt
<1>5. spot.err = "ok" => GoodPlace(s, spot)
  <2> HIDE DEF place, used, through
  <2> QED BY <1>1, <1>2
<1> HIDE DEF spot, place
<1>6. Grows(s, AddAt(s, spot, Node("socket", NoPath, 0), "EADDRINUSE").model)
  <2>1. "socket" \in Kinds /\ NoPath \in Path
    BY NoPathIs DEF Kinds
  <2> QED BY <2>1, <1>5, AddAtKeeps
<1> QED
  BY <1>3, <1>4, <1>6, FailKeeps

\* mkstemp in the current directory.
LEMMA MkstempKeeps ==
    ASSUME FsBounds, NEW s, Sound(s), NEW name \in Component
    PROVE  Grows(s, Mkstemp(s, name).model)
<1> DEFINE place == Place(s.cwd, name, FALSE)
<1>1. name \in GoodNames => GoodPlace(s, place)
  BY DEF Place, Sound, ModelOK, Plain, GoodPlace
<1>2. \/ name \in GoodNames /\ Mkstemp(s, name) = CreateFile(s, place, {"write"})
      \/ \E e : Mkstemp(s, name) = Fail(s, e)
  BY DEF Mkstemp, GoodNames
<1> HIDE DEF place
<1> QED
  BY <1>1, <1>2, CreateKeeps, FailKeeps

\* Setting the length of a node changes nothing else.
LEMMA LenEdits ==
    ASSUME NEW x, NodeShape(x), NEW v, NEW y, y = [x EXCEPT !.len = v]
    PROVE  /\ NodeShape(y) /\ y.kind = x.kind /\ y.len = v
           /\ y.kids = x.kids /\ y.up = x.up /\ y.dead = x.dead
           /\ y.link = x.link /\ y.over = x.over /\ y.vup = x.vup
BY DEF NodeShape

\* A file gets another length.
LEMMA LenKeeps ==
    ASSUME NEW s, Sound(s), NEW n \in DOMAIN s.nodes, NEW v \in 0..MaxLen
    PROVE  LET t == [s EXCEPT !.nodes[n].len = v] IN
           /\ Keeps(s, t) /\ TreeOf(t) = TreeOf(s)
           /\ OtherParts(s, t) /\ t.nodes[n].kind = s.nodes[n].kind
<1> DEFINE y == [s.nodes[n] EXCEPT !.len = v]
           t == Put(s, n, y)
           k == Len(s.nodes)
<1>1. ModelShape(s) /\ ModelOK(s) /\ OneTree(TreeOf(s)) /\ DOMAIN s.nodes = 1..k /\ k \in Nat
  BY DEF Sound, ModelShape
<1>2. /\ NodeShape(y) /\ y.kind = s.nodes[n].kind /\ y.len = v
      /\ y.kids = s.nodes[n].kids /\ y.up = s.nodes[n].up /\ y.dead = s.nodes[n].dead
      /\ y.link = s.nodes[n].link /\ y.over = s.nodes[n].over /\ y.vup = s.nodes[n].vup
  <2>1. NodeShape(s.nodes[n])
    BY <1>1 DEF ModelShape
  <2> QED BY <2>1, LenEdits
<1>3. [s EXCEPT !.nodes[n].len = v] = t
  BY DEF Put
<1> HIDE DEF y
<1>4. /\ OtherParts(s, t) /\ ModelShape(t) /\ Len(t.nodes) = k
      /\ t.nodes[n] = y /\ \A x \in 1..k : x # n => t.nodes[x] = s.nodes[x]
  BY <1>1, <1>2, PutShape
<1> HIDE DEF t, k
<1>5. \A x \in 1..k :
        /\ t.nodes[x].kind = s.nodes[x].kind /\ t.nodes[x].up = s.nodes[x].up
        /\ t.nodes[x].kids = s.nodes[x].kids /\ t.nodes[x].dead = s.nodes[x].dead
        /\ t.nodes[x].link = s.nodes[x].link /\ t.nodes[x].over = s.nodes[x].over
        /\ t.nodes[x].vup = s.nodes[x].vup
  <2> TAKE x \in 1..k
  <2>1. CASE x = n
    BY <2>1, <1>2, <1>4
  <2>2. CASE x # n
    BY <2>2, <1>4
  <2> QED BY <2>1, <2>2
<1>6. TreeOf(t) = TreeOf(s)
  BY <1>1, <1>4, <1>5, SameTree DEF k
<1>7. ModelOK(t)
  <2>1. DOMAIN t.nodes = 1..k
    BY <1>4 DEF ModelShape
  <2>2. \A x : IsDir(t, x) <=> IsDir(s, x)
    BY <2>1, <1>1, <1>5 DEF IsDir, Kind
  <2>3. \A x \in 1..k : t.nodes[x].len \in 0..MaxLen
    <3> TAKE x \in 1..k
    <3>1. CASE x = n
      BY <3>1, <1>2, <1>4
    <3>2. CASE x # n
      BY <3>2, <1>1, <1>4 DEF ModelOK
    <3> QED BY <3>1, <3>2
  <2>4. \A x \in 1..k : t.nodes[x].kind \in Kinds /\ t.nodes[x].dead \in BOOLEAN
    BY <1>1, <1>5 DEF ModelOK
  <2>5. /\ t.mac \in BOOLEAN /\ t.next \in Nat /\ t.next >= 3 /\ IsDir(t, t.cwd)
        /\ \A f \in DOMAIN t.fds :
             /\ f \in 3..(t.next - 1)
             /\ t.fds[f] \in
                  [node : DOMAIN t.nodes, dir : BOOLEAN, pos : 0..MaxLen, write : BOOLEAN]
             /\ t.fds[f].dir <=> IsDir(t, t.fds[f].node)
    BY <1>1, <1>4, <2>1, <2>2 DEF ModelOK, OtherParts
  <2> QED BY <2>1, <2>3, <2>4, <2>5 DEF ModelOK
<1>8. SameNodes(s, t)
  BY <1>1, <1>4, <1>5 DEF SameNodes, SameNode, OtherParts, k
<1>9. Plain(t)
  <2>1. DOMAIN t.nodes = 1..k
    BY <1>4 DEF ModelShape
  <2>2. \A x : /\ Clear(s, x) => Clear(t, x)
               /\ Seat(s, x) => Seat(t, x)
    BY <2>1, <1>1, <1>5 DEF Clear, Seat, IsDir, Kind
  <2>3. Plain(s)
    BY DEF Sound
  <2>4. \A x \in 1..k : NodePlain(t, t.nodes[x])
    <3> TAKE x \in 1..k
    <3>1. NodePlain(s, s.nodes[x]) /\ SameNode(s.nodes[x], t.nodes[x])
          /\ t.nodes[x].kids = s.nodes[x].kids /\ t.nodes[x].up = s.nodes[x].up
      BY <2>3, <1>1, <1>5 DEF Plain, SameNode
    <3> DEFINE a == s.nodes[x]
               b == t.nodes[x]
    <3>2. /\ b.link = a.link /\ b.over = a.over /\ b.vup = a.vup /\ b.kind = a.kind
          /\ b.kids = a.kids /\ b.up = a.up
      BY <3>1 DEF SameNode
    <3>3. NodePlain(s, a)
      BY <3>1
    <3> HIDE DEF k, a, b
    <3>4. NodePlain(t, b)
      BY <3>2, <3>3, <2>2 DEF NodePlain
    <3> QED BY <3>4 DEF b
  <2>5. Clear(t, t.cwd) /\ Seat(t, RootNode) /\ \A f \in DOMAIN t.fds : Clear(t, t.fds[f].node)
    BY <2>2, <2>3, <1>4 DEF Plain, OtherParts
  <2> QED BY <2>1, <2>4, <2>5 DEF Plain
<1> QED
  BY <1>1, <1>3, <1>4, <1>5, <1>6, <1>7, <1>8, <1>9 DEF Keeps, Sound

\* What was found is opened, and truncated when that was asked.
LEMMA OpenNodeKeeps ==
    ASSUME FsBounds, NEW s, Sound(s), NEW n, Clear(s, n), NEW flags
    PROVE  Grows(s, OpenNode(s, n, flags).model)
<1> DEFINE t == IF "trunc" \in flags THEN [s EXCEPT !.nodes[n].len = 0] ELSE s
           write == "write" \in flags
<1>1. \/ IsDir(s, n) /\ OpenNode(s, n, flags) = AllocFd(s, n, TRUE, FALSE)
      \/ /\ Kind(s, n) = "file" /\ ~IsDir(s, n)
         /\ OpenNode(s, n, flags) = AllocFd(t, n, FALSE, write)
      \/ \E e : OpenNode(s, n, flags) = Fail(s, e)
  <2>1. CASE IsDir(s, n)
    <3>1. Kind(s, n) \notin {"link", "file"}
      BY <2>1 DEF IsDir, IsDirKind
    <3>2. OpenNode(s, n, flags) = IF flags \cap {"write", "trunc"} # {} THEN Fail(s, "EISDIR")
                                  ELSE AllocFd(s, n, TRUE, FALSE)
      BY <2>1, <3>1 DEF OpenNode
    <3> QED BY <2>1, <3>2
  <2>2. CASE ~IsDir(s, n) /\ Kind(s, n) = "link"
    BY <2>2 DEF OpenNode
  <2>3. CASE ~IsDir(s, n) /\ Kind(s, n) = "file"
    BY <2>3 DEF OpenNode
  <2>4. CASE ~IsDir(s, n) /\ Kind(s, n) \notin {"link", "file"}
    BY <2>4 DEF OpenNode
  <2> QED BY <2>1, <2>2, <2>3, <2>4
<1>2. MaxLen \in Nat /\ 0 \in 0..MaxLen /\ write \in BOOLEAN
  BY DEF FsBounds
<1>3. CASE IsDir(s, n) /\ OpenNode(s, n, flags) = AllocFd(s, n, TRUE, FALSE)
  <2>1. n \in DOMAIN s.nodes
    BY <1>3 DEF IsDir, Kind, IsDirKind
  <2>2. /\ Keeps(s, AllocFd(s, n, TRUE, FALSE).model)
        /\ TreeOf(AllocFd(s, n, TRUE, FALSE).model) = TreeOf(s)
    BY <2>1, <1>2, <1>3, AllocKeeps
  <2> QED BY <2>2, <1>3 DEF Grows
<1>4. CASE /\ Kind(s, n) = "file" /\ ~IsDir(s, n)
           /\ OpenNode(s, n, flags) = AllocFd(t, n, FALSE, write)
  <2>1. n \in DOMAIN s.nodes
    BY <1>4 DEF Kind
  <2>2. Grows(s, t) /\ TreeOf(t) = TreeOf(s) /\ t.nodes[n].kind = s.nodes[n].kind
    <3>1. CASE "trunc" \in flags
      BY <3>1, <2>1, <1>2, LenKeeps DEF Grows
    <3>2. CASE "trunc" \notin flags
      BY <3>2, SameKeeps
    <3> QED BY <3>1, <3>2
  <2> HIDE DEF t, write
  <2>3. n \in DOMAIN t.nodes
    <3>1. TreeOf(t).count = Len(t.nodes) /\ DOMAIN t.nodes = 1..Len(t.nodes)
      BY <2>2, TreeIs DEF Grows, Keeps, Sound
    <3>2. TreeOf(s).count = Len(s.nodes) /\ DOMAIN s.nodes = 1..Len(s.nodes)
      BY TreeIs DEF Sound
    <3> QED BY <2>1, <2>2, <3>1, <3>2
  <2>4. ~IsDir(t, n)
    BY <1>4, <2>1, <2>2, <2>3 DEF IsDir, Kind
  <2>5. Clear(t, n)
    <3>1. n \in 1..Len(s.nodes)
      BY <2>1 DEF Sound, ModelShape
    <3> QED BY <3>1, <2>2, <2>3 DEF Clear, Grows, Keeps, SameNodes, SameNode
  <2>6. Keeps(t, AllocFd(t, n, FALSE, write).model)
        /\ TreeOf(AllocFd(t, n, FALSE, write).model) = TreeOf(t)
    BY <1>2, <2>2, <2>3, <2>4, <2>5, AllocKeeps DEF Grows, Keeps
  <2> QED BY <1>4, <2>2, <2>6, KeepsOn
<1> QED
  BY <1>1, <1>3, <1>4, FailKeeps

\* open and openat, of what is there and of what O_CREAT makes.
LEMMA OpenKeeps ==
    ASSUME FsBounds, FsNames, NEW s, Sound(s), NEW fd, NEW p \in Path, NEW flags
    PROVE  Grows(s, Open(s, fd, p, flags).model)
<1> DEFINE start == AtStart(s, fd, p)
           r == Resolve(s, "virtual", start.node, p, "nofollow" \notin flags)
<1>1. \A slashed : Grows(s, OpenFrom(s, start, slashed, p, flags).model)
  <2> TAKE slashed
  <2>1. \/ OpenFrom(s, start, slashed, p, flags) = OpenPlain(s, start, p, flags)
        \/ \E e : OpenFrom(s, start, slashed, p, flags) = Fail(s, e)
    BY DEF OpenFrom
  <2>2. \/ OpenPlain(s, start, p, flags) = CreateFile(s, Parent(s, start, p), flags)
        \/ start.err = "ok" /\ OpenPlain(s, start, p, flags) = OpenFound(s, start, r, p, flags)
        \/ \E e : OpenPlain(s, start, p, flags) = Fail(s, e)
    <3> HIDE DEF start
    <3> QED BY DEF OpenPlain
  <2>3. \/ r.err = "ok" /\ OpenFound(s, start, r, p, flags) = OpenNode(s, r.node, flags)
        \/ OpenFound(s, start, r, p, flags) = CreateFile(s, CreateAt(s, start.node, p, 0), flags)
        \/ \E e : OpenFound(s, start, r, p, flags) = Fail(s, e)
    <3> HIDE DEF start, r
    <3> QED BY DEF OpenFound
  <2>0. GoodStart(s, start)
    BY StartIsGood
  <2>9. r = Lookup(s, "virtual", start.node, p, "nofollow" \notin flags, 0)
    BY DEF Resolve
  <2> HIDE DEF start, r
  <2>4. Grows(s, CreateFile(s, Parent(s, start, p), flags).model)
    BY <2>0, ParentIsGood, CreateKeeps
  <2>5. start.err = "ok" => Grows(s, CreateFile(s, CreateAt(s, start.node, p, 0), flags).model)
    <3>1. start.err = "ok" => Clear(s, start.node) /\ 0 \in Nat
      BY <2>0 DEF GoodStart
    <3> QED BY <3>1, CreateAtIsGood, CreateKeeps
  <2>6. start.err = "ok" /\ r.err = "ok" => Grows(s, OpenNode(s, r.node, flags).model)
    <3>1. start.err = "ok" => start.node \in DOMAIN s.nodes /\ 0 \in Nat
      BY <2>0 DEF GoodStart, Clear
    <3>2. ("nofollow" \notin flags) \in BOOLEAN
      OBVIOUS
    <3>3. start.err = "ok" /\ r.err = "ok" => Clear(s, r.node)
      BY <2>9, <3>1, <3>2, LookupFinds
    <3> QED BY <3>3, OpenNodeKeeps
  <2> QED BY <2>1, <2>2, <2>3, <2>4, <2>5, <2>6, FailKeeps
<1>2. \/ \E slashed : Open(s, fd, p, flags) = OpenFrom(s, start, slashed, p, flags)
      \/ \E e : Open(s, fd, p, flags) = Fail(s, e)
  BY DEF Open
<1> QED
  BY <1>1, <1>2, FailKeeps

\* The directory a path leads to.
LEMMA ToDirIs ==
    ASSUME FsNames, NEW s, Sound(s), NEW p \in Path, ToDir(s, FromCwd(s, p, TRUE)).err = "ok"
    PROVE  LET n == ToDir(s, FromCwd(s, p, TRUE)).node IN IsDir(s, n) /\ Clear(s, n)
<1> DEFINE r == FromCwd(s, p, TRUE)
<1>1. r = Lookup(s, "virtual", s.cwd, p, TRUE, 0) /\ s.cwd \in DOMAIN s.nodes /\ 0 \in Nat
  BY DEF FromCwd, Resolve, Sound, Plain, Clear
<1> HIDE DEF r
<1>2. r.err = "ok" => Clear(s, r.node)
  BY <1>1, LookupFinds
<1> QED
  BY <1>2 DEF ToDir, Lost, r

\* open of a directory.
LEMMA OpenDirKeeps ==
    ASSUME FsBounds, FsNames, NEW s, Sound(s), NEW p \in Path
    PROVE  Grows(s, OpenDir(s, p).model)
<1> DEFINE r == ToDir(s, FromCwd(s, p, TRUE))
<1>1. r.err = "ok" => IsDir(s, r.node) /\ Clear(s, r.node)
  BY ToDirIs
<1>2. OpenDir(s, p) = OpenedDir(s, r)
  BY DEF OpenDir
<1> HIDE DEF r
<1>3. CASE r.err # "ok"
  BY <1>2, <1>3, FailKeeps DEF OpenedDir
<1>4. CASE r.err = "ok"
  <2>1. r.node \in DOMAIN s.nodes
    BY <1>1, <1>4 DEF IsDir, Kind, IsDirKind
  <2>2. MaxLen \in Nat
    BY DEF FsBounds
  <2>3. OpenDir(s, p) = AllocFd(s, r.node, TRUE, FALSE)
    BY <1>2, <1>4 DEF OpenedDir
  <2>4. /\ Keeps(s, AllocFd(s, r.node, TRUE, FALSE).model)
        /\ TreeOf(AllocFd(s, r.node, TRUE, FALSE).model) = TreeOf(s)
    BY <2>1, <2>2, <1>1, <1>4, AllocKeeps
  <2> QED BY <2>3, <2>4 DEF Grows
<1> QED
  BY <1>3, <1>4

\* chdir.
LEMMA ChdirKeeps ==
    ASSUME FsNames, NEW s, Sound(s), NEW p \in Path
    PROVE  Grows(s, Chdir(s, p).model)
<1> DEFINE r == ToDir(s, FromCwd(s, p, TRUE))
           t == [s EXCEPT !.cwd = r.node]
<1>1. r.err = "ok" => IsDir(s, r.node) /\ Clear(s, r.node)
  BY ToDirIs
<1>2. Chdir(s, p) = MovedTo(s, r)
  BY DEF Chdir
<1> HIDE DEF r
<1>3. CASE r.err # "ok"
  BY <1>2, <1>3, FailKeeps DEF MovedTo
<1>4. CASE r.err = "ok"
  <2>1. Chdir(s, p).model = t
    BY <1>2, <1>4 DEF MovedTo, Done
  <2>2. t = [mac |-> s.mac, nodes |-> s.nodes, cwd |-> r.node, fds |-> s.fds, next |-> s.next]
    BY DEF Sound, ModelShape
  <2> HIDE DEF t
  <2>3. \A x : IsDir(t, x) <=> IsDir(s, x)
    BY <2>2 DEF IsDir, Kind
  <2>4. ModelShape(t)
    BY <2>2 DEF Sound, ModelShape
  <2>5. ModelOK(t)
    BY <2>2, <2>3, <1>1, <1>4 DEF Sound, ModelOK
  <2>6. /\ t.nodes = s.nodes /\ t.mac = s.mac /\ Clear(s, t.cwd)
        /\ \A f \in DOMAIN t.fds : Clear(s, t.fds[f].node)
    BY <2>2, <1>1, <1>4 DEF Sound, Plain
  <2> QED BY <2>1, <2>4, <2>5, <2>6, NodesKept DEF Grows
<1> QED
  BY <1>3, <1>4

\* A descriptor's position moves, within the bound.
LEMMA PosKeeps ==
    ASSUME NEW s, Sound(s), NEW f \in DOMAIN s.fds, NEW pos \in 0..MaxLen
    PROVE  LET t == [s EXCEPT !.fds[f].pos = pos] IN Keeps(s, t) /\ TreeOf(t) = TreeOf(s)
<1> DEFINE fds == [s.fds EXCEPT ![f].pos = pos]
           t == [s EXCEPT !.fds[f].pos = pos]
<1>1. t = [mac |-> s.mac, nodes |-> s.nodes, cwd |-> s.cwd, fds |-> fds, next |-> s.next]
  BY DEF Sound, ModelShape
<1>2. fds = [g \in DOMAIN fds |-> fds[g]] /\ DOMAIN fds = DOMAIN s.fds
  OBVIOUS
<1>3. \A g \in DOMAIN s.fds :
        /\ g \in 3..(s.next - 1)
        /\ s.fds[g] \in [node : DOMAIN s.nodes, dir : BOOLEAN, pos : 0..MaxLen, write : BOOLEAN]
        /\ s.fds[g].dir <=> IsDir(s, s.fds[g].node)
  BY DEF Sound, ModelOK
<1>4. \A g \in DOMAIN s.fds :
        /\ fds[g] \in [node : DOMAIN s.nodes, dir : BOOLEAN, pos : 0..MaxLen, write : BOOLEAN]
        /\ fds[g].dir = s.fds[g].dir /\ fds[g].node = s.fds[g].node
  <2> TAKE g \in DOMAIN s.fds
  <2>1. CASE g = f
    <3>1. fds[g] = [s.fds[f] EXCEPT !.pos = pos]
      BY <2>1
    <3> HIDE DEF fds
    <3> QED BY <2>1, <3>1, <1>3
  <2>2. CASE g # f
    <3>1. fds[g] = s.fds[g]
      BY <2>2
    <3> HIDE DEF fds
    <3> QED BY <3>1, <1>3
  <2> QED BY <2>1, <2>2
<1> HIDE DEF fds, t
<1>5. \A x : IsDir(t, x) <=> IsDir(s, x)
  BY <1>1 DEF IsDir, Kind
<1>6. ModelShape(t)
  BY <1>1, <1>2 DEF Sound, ModelShape
<1>7. ModelOK(t)
  <2>1. t.mac = s.mac /\ t.nodes = s.nodes /\ t.cwd = s.cwd /\ t.fds = fds /\ t.next = s.next
    BY <1>1
  <2>2. \A g \in DOMAIN t.fds :
        /\ g \in 3..(t.next - 1)
        /\ t.fds[g] \in [node : DOMAIN t.nodes, dir : BOOLEAN, pos : 0..MaxLen, write : BOOLEAN]
        /\ t.fds[g].dir <=> IsDir(t, t.fds[g].node)
    BY <2>1, <1>2, <1>3, <1>4, <1>5
  <2>3. /\ t.mac \in BOOLEAN /\ t.next \in Nat /\ t.next >= 3 /\ IsDir(t, t.cwd)
        /\ \A n \in DOMAIN t.nodes : /\ t.nodes[n].kind \in Kinds
                                     /\ t.nodes[n].dead \in BOOLEAN
                                     /\ t.nodes[n].len \in 0..MaxLen
    BY <2>1, <1>5 DEF Sound, ModelOK
  <2> QED BY <2>2, <2>3 DEF ModelOK
<1>8. /\ t.nodes = s.nodes /\ t.mac = s.mac /\ Clear(s, t.cwd)
      /\ \A g \in DOMAIN t.fds : Clear(s, t.fds[g].node)
  BY <1>1, <1>2, <1>4 DEF Sound, Plain
<1> QED
  BY <1>6, <1>7, <1>8, NodesKept DEF t

\* write, as far as MaxLen.
LEMMA WriteKeeps ==
    ASSUME NEW s, Sound(s), NEW fd, MaxLen \in Nat, NEW n \in Nat,
           fd \in DOMAIN s.fds => s.fds[fd].pos + n <= MaxLen
    PROVE  Grows(s, Write(s, fd, n).model)
<1>1. CASE fd \notin DOMAIN s.fds \/ ~s.fds[fd].write
  BY <1>1, FailKeeps DEF Write
<1>2. CASE fd \in DOMAIN s.fds /\ s.fds[fd].write
  <2> DEFINE end == s.fds[fd].pos + n
             node == s.fds[fd].node
             len == IF s.nodes[node].len < end THEN end ELSE s.nodes[node].len
             t == [s EXCEPT !.nodes[node].len = len]
             u == [t EXCEPT !.fds[fd].pos = end]
  <2>1. Write(s, fd, n).model = u
    BY <1>2 DEF Write, Done
  <2>2. node \in DOMAIN s.nodes /\ s.fds[fd].pos \in 0..MaxLen
    BY <1>2 DEF Sound, ModelOK
  <2>3. s.nodes[node].len \in 0..MaxLen
    BY <2>2 DEF Sound, ModelOK
  <2>4. end \in 0..MaxLen
    BY <1>2, <2>2
  <2> HIDE DEF end, node
  <2>5. len \in 0..MaxLen
    BY <2>3, <2>4
  <2> HIDE DEF len
  <2>6. Grows(s, t) /\ TreeOf(t) = TreeOf(s) /\ OtherParts(s, t)
    BY <2>2, <2>5, LenKeeps DEF Grows
  <2> HIDE DEF t
  <2>7. Keeps(t, u) /\ TreeOf(u) = TreeOf(t)
    BY <1>2, <2>4, <2>6, PosKeeps DEF Grows, Keeps, OtherParts
  <2> HIDE DEF u
  <2> QED BY <2>1, <2>6, <2>7, KeepsOn
<1> QED
  BY <1>1, <1>2

\* read, from a position that may be behind the end.
LEMMA ReadKeeps ==
    ASSUME NEW s, Sound(s), NEW fd, MaxLen \in Nat, NEW n \in Nat
    PROVE  Grows(s, Read(s, fd, n).model)
<1>1. CASE fd \notin DOMAIN s.fds \/ s.fds[fd].dir
  BY <1>1, FailKeeps DEF Read
<1>2. CASE fd \in DOMAIN s.fds /\ ~s.fds[fd].dir
  <2> DEFINE len == s.nodes[s.fds[fd].node].len
             pos == s.fds[fd].pos
             start == IF pos < len THEN pos ELSE len
             end == IF start + n < len THEN start + n ELSE len
             new == pos + (end - start)
  <2>1. Read(s, fd, n).model = [s EXCEPT !.fds[fd].pos = new]
    BY <1>2 DEF Read, Done
  <2>2. s.fds[fd].node \in DOMAIN s.nodes /\ pos \in 0..MaxLen
    BY <1>2 DEF Sound, ModelOK
  <2>3. len \in 0..MaxLen
    BY <2>2 DEF Sound, ModelOK
  <2>4. new \in 0..MaxLen
    <3> HIDE DEF len, pos
    <3> QED BY <2>2, <2>3
  <2> HIDE DEF new
  <2> QED BY <1>2, <2>1, <2>4, PosKeeps DEF Grows
<1> QED
  BY <1>1, <1>2

\* close.
LEMMA CloseKeeps ==
    ASSUME NEW s, Sound(s), NEW fd
    PROVE  Grows(s, Close(s, fd).model)
<1>1. CASE fd \notin DOMAIN s.fds
  BY <1>1, FailKeeps DEF Close
<1>2. CASE fd \in DOMAIN s.fds
  <2> DEFINE fds == [f \in DOMAIN s.fds \ {fd} |-> s.fds[f]]
             t == [s EXCEPT !.fds = fds]
  <2>1. Close(s, fd).model = t
    BY <1>2 DEF Close, Done
  <2>2. t = [mac |-> s.mac, nodes |-> s.nodes, cwd |-> s.cwd, fds |-> fds, next |-> s.next]
    BY DEF Sound, ModelShape
  <2>3. /\ fds = [f \in DOMAIN fds |-> fds[f]]
        /\ \A f \in DOMAIN fds : f \in DOMAIN s.fds /\ fds[f] = s.fds[f]
    OBVIOUS
  <2> HIDE DEF fds, t
  <2>4. \A x : IsDir(t, x) <=> IsDir(s, x)
    BY <2>2 DEF IsDir, Kind
  <2>5. ModelShape(t)
    BY <2>2, <2>3 DEF Sound, ModelShape
  <2>6. ModelOK(t)
    BY <2>2, <2>3, <2>4 DEF Sound, ModelOK
  <2>7. /\ t.nodes = s.nodes /\ t.mac = s.mac /\ Clear(s, t.cwd)
        /\ \A f \in DOMAIN t.fds : Clear(s, t.fds[f].node)
    BY <2>2, <2>3 DEF Sound, Plain
  <2> QED BY <2>1, <2>5, <2>6, <2>7, NodesKept DEF Grows
<1> QED
  BY <1>1, <1>2

\* A name that owns nothing, or an empty directory, is removed.
LEMMA DropKeeps ==
    ASSUME NEW s, Sound(s), NEW spot, Owns(s, spot), NEW id, id = Kids(s, spot.node)[spot.name],
           IsDir(s, id) => IsEmpty(s, id)
    PROVE  Keeps(s, RemoveEntry(s, spot))
<1> DEFINE t == RemoveEntry(s, spot)
           k == Len(s.nodes)
<1>1. ModelShape(s) /\ ModelOK(s) /\ OneTree(TreeOf(s)) /\ DOMAIN s.nodes = 1..k /\ k \in Nat
  BY DEF Sound, ModelShape
<1>2. spot.node \in DOMAIN s.nodes /\ Has(s, spot.node, spot.name)
  BY DEF Owns
<1> HIDE DEF k
<1>3. /\ OtherParts(s, t) /\ ModelShape(t) /\ Len(t.nodes) = k
      /\ \A x \in 1..k : Alike(s.nodes[x], t.nodes[x])
      /\ \A x \in 1..k : t.nodes[x].dead = IF x = id THEN IsDir(s, id) ELSE s.nodes[x].dead
      /\ OneTree(TreeOf(t)) /\ Edit(TreeOf(s), TreeOf(t))
      /\ NameRemoved(TreeOf(s), TreeOf(t), Entry(spot.node, spot.name, id))
  BY <1>1, <1>2, RemoveEdits DEF k
<1> HIDE DEF t
<1>4. \A x \in 1..k : t.nodes[x].dead \in BOOLEAN
  <2> TAKE x \in 1..k
  <2>1. CASE x = id
    <3>1. IsDir(s, id) \in BOOLEAN
      BY DEF IsDir, IsDirKind
    <3> QED BY <2>1, <3>1, <1>3
  <2>2. CASE x # id
    BY <2>2, <1>1, <1>3 DEF ModelOK
  <2> QED BY <2>1, <2>2
<1>5. \A x \in 1..Len(t.nodes) : ~(x > k)
  BY <1>1, <1>3
<1>6. k <= Len(t.nodes)
  BY <1>1, <1>3
<1>7. ModelOK(t)
  BY <1>1, <1>3, <1>4, <1>5, <1>6, PartsKept DEF k
<1>8. Plain(t) /\ SameNodes(s, t)
  BY <1>3, RemovedPlain DEF k
<1> QED
  BY <1>3, <1>7, <1>8 DEF Keeps, Sound, t

\* unlink and rmdir of an entry that was found.
LEMMA UnlinkAtKeeps ==
    ASSUME NEW s, Sound(s), NEW named, NEW place, place.err = "ok" => Owns(s, place),
           NEW rmdir \in BOOLEAN
    PROVE  Keeps(s, UnlinkAt(s, named, place, rmdir).model)
<1> DEFINE id == Kids(s, place.node)[place.name]
<1>1. CASE /\ place.err = "ok" /\ (rmdir => IsDir(s, id) /\ IsEmpty(s, id))
           /\ (~rmdir => ~IsDir(s, id) /\ ~named.slash)
  <2>1. UnlinkAt(s, named, place, rmdir).model = RemoveEntry(s, place)
    BY <1>1 DEF UnlinkAt, Done
  <2>2. IsDir(s, id) => IsEmpty(s, id)
    BY <1>1
  <2> QED BY <1>1, <2>1, <2>2, DropKeeps
<1>2. CASE ~(/\ place.err = "ok" /\ (rmdir => IsDir(s, id) /\ IsEmpty(s, id))
             /\ (~rmdir => ~IsDir(s, id) /\ ~named.slash))
  <2>1. \E e : UnlinkAt(s, named, place, rmdir) = Fail(s, e)
    BY <1>2 DEF UnlinkAt
  <2> QED BY <2>1, FailKeeps DEF Grows
<1> QED
  BY <1>1, <1>2

\* unlink, unlinkat and rmdir, through a link with a slash on macOS.
LEMMA UnlinkKeeps ==
    ASSUME FsNames, NEW s, Sound(s), NEW fd, NEW p \in Path, NEW rmdir \in BOOLEAN
    PROVE  Keeps(s, Unlink(s, fd, p, rmdir).model)
<1> DEFINE start == AtStart(s, fd, p)
           named == Parent(s, start, p)
           trail == Trail(s, start, named, p)
           place == ThroughSlash(s, named, trail)
<1>1. named.err = "ok" => GoodPlace(s, named) /\ Clear(s, start.node)
  BY StartIsGood, ParentIsGood, PlacedFrom
<1>2. Unlink(s, fd, p, rmdir) = UnlinkNamed(s, start, named, p, rmdir)
        \/ \E e : Unlink(s, fd, p, rmdir) = Fail(s, e)
  BY DEF Unlink
<1> HIDE DEF start, named
<1>3. Keeps(s, UnlinkNamed(s, start, named, p, rmdir).model)
  <2>1. CASE named.err # "ok" \/ ~Has(s, named.node, named.name)
    <3>1. \E e : UnlinkNamed(s, start, named, p, rmdir) = Fail(s, e)
      BY <2>1 DEF UnlinkNamed
    <3> QED BY <3>1, FailKeeps DEF Grows
  <2>2. CASE named.err = "ok" /\ Has(s, named.node, named.name)
    <3>1. Owns(s, named)
      BY <1>1, <2>2 DEF Owns, GoodPlace, Clear
    <3>2. Keeps(s, UnlinkAt(s, named, named, rmdir).model)
      BY <3>1, UnlinkAtKeeps
    <3>3. place.err = "ok" => Owns(s, place)
      <4>1. TrailOK(s, trail)
        BY <1>1, <2>2, TrailIs
      <4> HIDE DEF trail
      <4> QED BY <4>1, <1>1, <2>2, SlashIs
    <3>4. Keeps(s, UnlinkAt(s, named, place, rmdir).model)
      <4> HIDE DEF place
      <4> QED BY <3>3, UnlinkAtKeeps
    <3> HIDE DEF trail
    <3>5. \/ UnlinkTrail(s, named, trail, rmdir) = UnlinkAt(s, named, place, rmdir)
          \/ \E e : UnlinkTrail(s, named, trail, rmdir) = Fail(s, e)
      BY DEF UnlinkTrail
    <3>6. \/ UnlinkNamed(s, start, named, p, rmdir) = UnlinkTrail(s, named, trail, rmdir)
          \/ UnlinkNamed(s, start, named, p, rmdir) = UnlinkAt(s, named, named, rmdir)
      BY <2>2 DEF UnlinkNamed, trail
    <3> QED BY <3>2, <3>4, <3>5, <3>6, FailKeeps DEF Grows
  <2> QED BY <2>1, <2>2
<1> QED
  BY <1>2, <1>3, FailKeeps DEF Grows

\* A node moves to a live directory that is not below it, where what has its
\* name may be replaced.
LEMMA MoveToKeeps ==
    ASSUME NEW s, Sound(s), NEW from, Owns(s, from), NEW id, id = Kids(s, from.node)[from.name],
           NEW to, GoodPlace(s, to), ~IsDetached(s, to.node), ~IsDescendant(s, id, to.node),
           Replaceable(s, id, to)
    PROVE  Keeps(s, Move(s, from, to))
<1> DEFINE t == Move(s, from, to)
           k == Len(s.nodes)
<1>1. ModelShape(s) /\ ModelOK(s) /\ OneTree(TreeOf(s)) /\ DOMAIN s.nodes = 1..k /\ k \in Nat
  BY DEF Sound, ModelShape
<1>2. from.node \in DOMAIN s.nodes /\ Has(s, from.node, from.name)
  BY DEF Owns
<1> HIDE DEF k
<1>3. /\ OtherParts(s, t) /\ ModelShape(t) /\ Len(t.nodes) = k
      /\ \A x \in 1..k : Alike(s.nodes[x], t.nodes[x])
      /\ \A x \in 1..k : t.nodes[x].dead \in {s.nodes[x].dead, IsDir(s, x)}
      /\ OneTree(TreeOf(t)) /\ Edit(TreeOf(s), TreeOf(t))
      /\ NodeMoved(TreeOf(s), TreeOf(t), Entry(from.node, from.name, id), to.node, to.name)
  <2>1. IsDir(s, to.node)
    BY DEF GoodPlace
  <2> QED BY <2>1, <1>1, <1>2, MoveEdits DEF k
<1> HIDE DEF t
<1>4. \A x \in 1..k : t.nodes[x].dead \in BOOLEAN
  <2> TAKE x \in 1..k
  <2>1. IsDir(s, x) \in BOOLEAN
    BY DEF IsDir, IsDirKind
  <2>2. s.nodes[x].dead \in BOOLEAN
    BY <1>1 DEF ModelOK
  <2>3. t.nodes[x].dead = s.nodes[x].dead \/ t.nodes[x].dead = IsDir(s, x)
    BY <1>3
  <2> QED BY <2>1, <2>2, <2>3
<1>5. \A x \in 1..Len(t.nodes) : ~(x > k)
  BY <1>1, <1>3
<1>6. k <= Len(t.nodes)
  BY <1>1, <1>3
<1>7. ModelOK(t)
  BY <1>1, <1>3, <1>4, <1>5, <1>6, PartsKept DEF k
<1>8. Plain(t) /\ SameNodes(s, t)
  BY <1>3, MovedPlain DEF k, GoodPlace
<1> QED
  BY <1>3, <1>7, <1>8 DEF Keeps, Sound, t

\* Where the moved node goes is a directory, of the process's own.
LEMMA LandingIsGood ==
    ASSUME FsNames, NEW s, Sound(s), NEW place, place.err = "ok" => GoodPlace(s, place), NEW q \in Path, NEW fromDir,
           Landing(s, place, q, fromDir).err = "ok"
    PROVE  GoodPlace(s, Landing(s, place, q, fromDir))
<1> DEFINE start == Found(s.cwd, 0)
           t == Trail(s, start, place, q)
           through == ThroughSlash(s, place, t)
<1>1. CASE s.mac /\ place.err = "ok" /\ place.slash
  <2>1. TrailOK(s, t) /\ (t.is = "dir" => Has(s, place.node, place.name))
    <3>1. Clear(s, start.node)
      BY StartIsGood, FoundIs DEF GoodStart
    <3> HIDE DEF start
    <3> QED BY <3>1, TrailIs, TrailHas
  <2> HIDE DEF start
  <2>2. Landing(s, place, q, fromDir) = LandingTrail(s, place, t, fromDir)
    BY <1>1 DEF Landing, start
  <2> HIDE DEF t
  <2>3. through.err = "ok" => GoodPlace(s, through)
    BY <1>1, <2>1, SlashIs
  <2> HIDE DEF through
  <2>4. CASE t.is = "missing" /\ fromDir
    BY <1>1, <2>2, <2>4 DEF LandingTrail
  <2>5. CASE t.is = "dangling" /\ fromDir
    BY <2>1, <2>2, <2>5 DEF LandingTrail, TrailOK
  <2>6. CASE ~(t.is = "missing" /\ fromDir) /\ ~(t.is = "dangling" /\ fromDir)
    <3>1. LandingTrail(s, place, t, fromDir) = through
      BY <2>6 DEF LandingTrail, through
    <3> QED BY <2>2, <2>3, <3>1
  <2> QED BY <2>4, <2>5, <2>6
<1>2. CASE ~(s.mac /\ place.err = "ok" /\ place.slash)
  BY <1>2 DEF Landing
<1> QED
  BY <1>1, <1>2

\* rename to a place that was found: not to a removed directory, not below itself.
LEMMA RenameToKeeps ==
    ASSUME NEW s, Sound(s), NEW slash, NEW from, Owns(s, from),
           NEW to, to.err = "ok" => GoodPlace(s, to)
    PROVE  Keeps(s, RenameTo(s, slash, from, to).model)
<1> DEFINE id == Kids(s, from.node)[from.name]
           hit == Collision(s, id, to)
<1>1. CASE to.err = "ok" /\ ~IsDetached(s, to.node) /\ ~IsDescendant(s, id, to.node)
  <2>1. \/ RenameTo(s, slash, from, to) = MoveUnless(s, hit, from, to)
        \/ \E e : RenameTo(s, slash, from, to) = Fail(s, e)
    BY <1>1 DEF RenameTo, CheckLive
  <2>2. CASE hit = "ok"
    <3>1. Keeps(s, Move(s, from, to))
      BY <1>1, <2>2, CollisionIs, MoveToKeeps
    <3>2. MoveUnless(s, hit, from, to).model = Move(s, from, to)
      BY <2>2 DEF MoveUnless, Done
    <3> HIDE DEF hit
    <3> QED BY <2>1, <3>1, <3>2, FailKeeps DEF Grows
  <2>3. CASE hit # "ok"
    <3>1. MoveUnless(s, hit, from, to).model = s
      BY <2>3 DEF MoveUnless, Done, Fail
    <3> HIDE DEF hit
    <3> QED BY <2>1, <3>1, SameKeeps, FailKeeps DEF Grows
  <2> QED BY <2>2, <2>3
<1>2. CASE ~(to.err = "ok" /\ ~IsDetached(s, to.node) /\ ~IsDescendant(s, id, to.node))
  <2>1. \E e : RenameTo(s, slash, from, to) = Fail(s, e)
    BY <1>2 DEF RenameTo, CheckLive
  <2> QED BY <2>1, FailKeeps DEF Grows
<1> QED
  BY <1>1, <1>2

\* rename.
LEMMA RenameKeeps ==
    ASSUME FsNames, NEW s, Sound(s), NEW p \in Path, NEW q \in Path
    PROVE  Keeps(s, Rename(s, p, q).model)
<1> DEFINE named == Parent(s, Found(s.cwd, 0), p)
           place == Parent(s, Found(s.cwd, 0), q)
           trail == Trail(s, Found(s.cwd, 0), named, p)
           from == IF s.mac /\ named.slash THEN ThroughSlash(s, named, trail) ELSE named
           slash == named.slash \/ place.slash
           to == Landing(s, place, q, IsDir(s, Kids(s, from.node)[from.name]))
<1>1. (named.err = "ok" => GoodPlace(s, named)) /\ (place.err = "ok" => GoodPlace(s, place))
  BY StartIsGood, ParentIsGood
<1>2. Rename(s, p, q) = RenameNamed(s, named, place, p, q) \/ \E e : Rename(s, p, q) = Fail(s, e)
  BY DEF Rename
<1>3. TrailOK(s, trail)
  <2>1. Clear(s, Found(s.cwd, 0).node)
    BY StartIsGood, FoundIs DEF GoodStart
  <2> HIDE DEF named
  <2> QED BY <2>1, TrailIs
<1>4. CASE named.err # "ok" \/ ~Has(s, named.node, named.name)
  <2> HIDE DEF named, place
  <2>1. \E e : RenameNamed(s, named, place, p, q) = Fail(s, e)
    BY <1>4 DEF RenameNamed
  <2> QED BY <1>2, <2>1, FailKeeps DEF Grows
<1>5. CASE named.err = "ok" /\ Has(s, named.node, named.name)
  <2> HIDE DEF named, place
  <2>1. RenameNamed(s, named, place, p, q) = RenameOnto(s, slash, from, place, q)
    BY <1>5 DEF RenameNamed
  <2> HIDE DEF trail, slash
  <2>2. from.err = "ok" => Owns(s, from)
    <3>1. Owns(s, named)
      BY <1>1, <1>5 DEF Owns, GoodPlace, Clear
    <3>2. ThroughSlash(s, named, trail).err = "ok" => Owns(s, ThroughSlash(s, named, trail))
      BY <1>1, <1>3, <1>5, SlashIs
    <3> QED BY <3>1, <3>2
  <2> HIDE DEF from
  <2>3. CASE from.err # "ok"
    <3>1. \E e : RenameOnto(s, slash, from, place, q) = Fail(s, e)
      BY <2>3 DEF RenameOnto
    <3> QED BY <1>2, <2>1, <3>1, FailKeeps DEF Grows
  <2>4. CASE from.err = "ok"
    <3>1. RenameOnto(s, slash, from, place, q) = RenameTo(s, slash, from, to)
      BY <2>4 DEF RenameOnto
    <3>2. to.err = "ok" => GoodPlace(s, to)
      BY <1>1, LandingIsGood
    <3> HIDE DEF to
    <3>3. Keeps(s, RenameTo(s, slash, from, to).model)
      BY <2>2, <2>4, <3>2, RenameToKeeps
    <3> QED BY <1>2, <2>1, <3>1, <3>3, FailKeeps DEF Grows
  <2> QED BY <2>3, <2>4
<1> QED
  BY <1>4, <1>5

-----------------------------------------------------------------------------
(* FsModel: the first model is in order                                    *)

\* A table of k nodes, none of them dead; G is what is above each.
IsTable(s, k, G) ==
    /\ s.nodes[1].up = 0 /\ G[1] = {1}
    /\ \A n \in 2..k :
         /\ s.nodes[n].up \in 1..k /\ IsDir(s, s.nodes[n].up)
         /\ n \notin G[s.nodes[n].up] /\ G[n] = {n} \cup G[s.nodes[n].up] /\ 1 \in G[n]
    /\ \A b \in 1..k : \A a \in G[b] : G[a] \subseteq G[b]
    /\ \A d \in 1..k : ~s.nodes[d].dead
    /\ \A d \in 1..k : \A c \in DOMAIN s.nodes[d].kids :
         /\ s.nodes[d].kids[c] \in 2..k /\ IsDir(s, d)
         /\ s.nodes[s.nodes[d].kids[c]].up = d
         /\ \A b \in DOMAIN s.nodes[d].kids : s.nodes[d].kids[b] = s.nodes[d].kids[c] => b = c
    /\ \A n \in 2..k : LET up == s.nodes[n].up IN
         \E c \in DOMAIN s.nodes[up].kids : s.nodes[up].kids[c] = n

\* A model with one name for each node, and nothing above itself, is one tree.
LEMMA TableIsTree ==
    ASSUME NEW s, ModelShape(s), NEW k, k \in Nat \ {0}, k = Len(s.nodes),
           NEW G \in [1..k -> SUBSET (1..k)], IsTable(s, k, G)
    PROVE  OneTree(TreeOf(s)) /\ TreeOf(s).dead = {}
<1> USE DEF IsTable
<1> DEFINE T == TreeOf(s)
           u == [count |-> T.count, dirs |-> T.dirs, up |-> T.up, entries |-> T.entries,
                 dead |-> T.dead, above |-> G]
<1>1. /\ DOMAIN s.nodes = 1..k /\ T.count = k
      /\ T.dirs = {n \in 1..k : IsDirKind(s.nodes[n].kind)}
      /\ \A n \in 1..k : n \in T.dirs <=> IsDir(s, n)
      /\ T.up = [n \in 1..k |-> s.nodes[n].up]
      /\ T.dead = {n \in 1..k : s.nodes[n].dead}
  BY TreeIs
<1>2. T.dead = {}
  BY <1>1
<1>3. \A e \in T.entries :
        /\ e = Entry(e.dir, e.name, e.node) /\ e.dir \in 1..k
        /\ e.name \in DOMAIN s.nodes[e.dir].kids /\ e.node = s.nodes[e.dir].kids[e.name]
  BY <1>1, EntryIn
<1>4. \A n \in 2..k : \E e \in T.entries : e.node = n
  <2> TAKE n \in 2..k
  <2> DEFINE up == s.nodes[n].up
  <2>1. PICK c \in DOMAIN s.nodes[up].kids : s.nodes[up].kids[c] = n
    OBVIOUS
  <2>2. up \in 1..k
    OBVIOUS
  <2> HIDE DEF up
  <2> DEFINE e == Entry(up, c, n)
  <2>3. e.dir = up /\ e.name = c /\ e.node = n
    BY EntryParts
  <2> HIDE DEF e
  <2>4. e = Entry(e.dir, e.name, e.node)
    BY <2>3 DEF e
  <2>5. e \in T.entries
    BY <1>1, <2>1, <2>2, <2>3, <2>4, EntryIn
  <2> QED BY <2>3, <2>5
<1>5. /\ u.count = k /\ u.dirs = T.dirs /\ u.up = T.up /\ u.entries = T.entries
      /\ u.dead = T.dead /\ u.above = G
  BY <1>1
<1> HIDE DEF u, T
<1>6. TreeTypeOK(u)
  <2>1. u.dirs \subseteq 1..u.count /\ u.dead \subseteq u.dirs
    BY <1>1, <1>2, <1>5
  <2>2. u.up \in [1..u.count -> 0..u.count]
    <3>1. \A n \in 1..k : s.nodes[n].up \in 0..k
      <4> TAKE n \in 1..k
      <4>1. CASE n = 1
        BY <4>1
      <4>2. CASE n \in 2..k
        BY <4>2
      <4> QED BY <4>1, <4>2
    <3> QED BY <3>1, <1>1, <1>5
  <2>3. \A e \in u.entries : e.dir \in u.dirs /\ e.node \in 1..u.count
                              /\ e = Entry(e.dir, e.name, e.node)
    <3> TAKE e \in u.entries
    <3>1. /\ e = Entry(e.dir, e.name, e.node) /\ e.dir \in 1..k
          /\ e.name \in DOMAIN s.nodes[e.dir].kids /\ e.node = s.nodes[e.dir].kids[e.name]
      BY <1>3, <1>5
    <3>2. e.node \in 2..k /\ IsDir(s, e.dir)
      BY <3>1
    <3> QED BY <1>1, <1>5, <3>1, <3>2
  <2> QED BY <2>1, <2>2, <2>3, <1>5 DEF TreeTypeOK
<1>7. Rooted(u)
  <2>1. u.up[Top] = 0 /\ u.above[Top] = {Top}
    BY <1>1, <1>5 DEF Top
  <2>2. \A n \in 2..k : /\ u.up[n] \in u.dirs /\ n \notin G[u.up[n]]
                        /\ G[n] = {n} \cup G[u.up[n]] /\ Top \in G[n]
    BY <1>1, <1>5 DEF Top
  <2>3. \A a, b \in 1..k : a \in G[b] => G[a] \subseteq G[b]
    OBVIOUS
  <2> QED BY <2>1, <2>2, <2>3, <1>5 DEF Rooted, RootedBy
<1>8. Named(u)
  <2>1. \A e \in T.entries : e.node # Top /\ u.up[e.node] = e.dir
    <3> TAKE e \in T.entries
    <3>1. /\ e.dir \in 1..k
          /\ e.name \in DOMAIN s.nodes[e.dir].kids /\ e.node = s.nodes[e.dir].kids[e.name]
      BY <1>3
    <3>2. e.node \in 2..k /\ s.nodes[e.node].up = e.dir
      BY <3>1
    <3> QED BY <3>2, <1>1, <1>5 DEF Top
  <2>2. ASSUME NEW e \in T.entries, NEW f \in T.entries,
               e.node = f.node \/ (e.dir = f.dir /\ e.name = f.name)
        PROVE  e = f
    <3> DEFINE d == e.dir
               c == e.name
               i == e.node
               d2 == f.dir
               c2 == f.name
               i2 == f.node
    <3>1. e = Entry(d, c, i) /\ f = Entry(d2, c2, i2)
      BY <1>3
    <3>2. d \in 1..k /\ c \in DOMAIN s.nodes[d].kids /\ i = s.nodes[d].kids[c]
      BY <1>3
    <3>3. d2 \in 1..k /\ c2 \in DOMAIN s.nodes[d2].kids /\ i2 = s.nodes[d2].kids[c2]
      BY <1>3
    <3>4. i = i2 \/ (d = d2 /\ c = c2)
      BY <2>2
    <3> HIDE DEF d, c, i, d2, c2, i2
    <3>5. CASE d = d2 /\ c = c2
      BY <3>1, <3>2, <3>3, <3>5
    <3>6. CASE i = i2
      <4>1. d = d2
        <5>1. s.nodes[s.nodes[d].kids[c]].up = d
          BY <3>2
        <5>2. s.nodes[s.nodes[d2].kids[c2]].up = d2
          BY <3>3
        <5> QED BY <5>1, <5>2, <3>2, <3>3, <3>6
      <4>2. c = c2
        <5>1. \A b \in DOMAIN s.nodes[d].kids : s.nodes[d].kids[b] = s.nodes[d].kids[c] => b = c
          BY <3>2
        <5> QED BY <5>1, <3>2, <3>3, <3>6, <4>1
      <4> QED BY <3>1, <3>6, <4>1, <4>2
    <3> QED BY <3>4, <3>5, <3>6
  <2> QED BY <2>1, <2>2, <1>5 DEF Named
<1>9. RemovedAreEmpty(u)
  <2>1. \A n \in u.dirs \ {Top} : n \in 2..k
    BY <1>1, <1>5 DEF Top
  <2> QED BY <2>1, <1>2, <1>4, <1>5 DEF RemovedAreEmpty
<1>10. u = [count |-> u.count, dirs |-> u.dirs, up |-> u.up, entries |-> u.entries,
            dead |-> u.dead, above |-> u.above]
  BY <1>5 DEF u
<1>11. OneTree(u)
  BY <1>6, <1>7, <1>8, <1>9 DEF OneTree
<1>12. T = u
  BY <1>5, <1>10, <1>11, TreeRebuilt DEF T
<1> QED
  BY <1>2, <1>11, <1>12 DEF T

\* Parents that were made before what is in them: nothing is above itself.
InOrder(k, up, G) ==
    G[1] = {1} /\ \A n \in 2..k : up[n] \in 1..(n - 1) /\ G[n] = {n} \cup G[up[n]]

\* Then what is above a node was made before it and is above what it is in.
LEMMA MadeInOrder ==
    ASSUME NEW k \in Nat \ {0}, NEW up, NEW G, InOrder(k, up, G)
    PROVE  \A n \in 1..k : /\ G[n] \subseteq 1..n /\ 1 \in G[n]
                           /\ \A a \in G[n] : G[a] \subseteq G[n]
<1> DEFINE P(n) == /\ G[n] \subseteq 1..n /\ 1 \in G[n]
                   /\ \A a \in G[n] : G[a] \subseteq G[n]
           Bad == {n \in 1..k : ~P(n)}
<1> SUFFICES ASSUME Bad # {} PROVE FALSE
  OBVIOUS
<1>1. PICK n \in Bad : \A x \in Bad : n <= x
  <2> DEFINE W == {1..x : x \in Bad}
             S == 1..k
  <2>1. Bad \subseteq 1..k
    OBVIOUS
  <2> HIDE DEF Bad
  <2>2. W # {} /\ W \in SUBSET (SUBSET S)
    <3>1. \A x \in 1..k : 1..x \subseteq 1..k
      OBVIOUS
    <3>2. PICK x \in Bad : TRUE
      OBVIOUS
    <3>3. 1..x \in W
      OBVIOUS
    <3>4. \A w \in W : w \in SUBSET S
      BY <2>1, <3>1
    <3> HIDE DEF W, S
    <3> QED BY <3>3, <3>4
  <2>3. IsFiniteSet(S)
    <3>1. 1 \in Int /\ k \in Int
      OBVIOUS
    <3> QED BY <3>1, FS_Interval
  <2>4. \E low \in W : \A w \in W : w \subseteq low => w = low
    <3> HIDE DEF W, S
    <3> QED BY <2>2, <2>3, SmallestSet
  <2>5. PICK n \in Bad : \A x \in Bad : 1..x \subseteq 1..n => 1..x = 1..n
    <3>1. PICK low \in W : \A w \in W : w \subseteq low => w = low
      BY <2>4
    <3>2. PICK n \in Bad : low = 1..n
      OBVIOUS
    <3>3. \A x \in Bad : 1..x \in W
      OBVIOUS
    <3> HIDE DEF W
    <3> QED BY <3>1, <3>2, <3>3
  <2>6. ASSUME NEW x \in Bad PROVE n <= x
    <3>1. x \in 1..k /\ n \in 1..k
      BY <2>1
    <3>2. CASE x < n
      <4>1. 1..x \subseteq 1..n /\ n \in 1..n /\ n \notin 1..x
        BY <3>1, <3>2
      <4> QED BY <4>1, <2>5
    <3> QED BY <3>1, <3>2
  <2> QED BY <2>6
<1>2. n \in 1..k /\ ~P(n) /\ \A x \in 1..k : x < n => P(x)
  <2>1. n \in 1..k /\ ~P(n)
    OBVIOUS
  <2>2. ASSUME NEW x \in 1..k, x < n PROVE P(x)
    <3> HIDE DEF P
    <3> QED BY <2>1, <2>2, <1>1
  <2> HIDE DEF P
  <2> QED BY <2>1, <2>2
<1>3. CASE n = 1
  BY <1>2, <1>3 DEF InOrder
<1>4. CASE n # 1
  <2>1. up[n] \in 1..(n - 1) /\ G[n] = {n} \cup G[up[n]] /\ n \in 2..k
    BY <1>2, <1>4 DEF InOrder
  <2>2. P(up[n])
    BY <1>2, <2>1
  <2>3. G[n] \subseteq 1..n /\ 1 \in G[n]
    BY <2>1, <2>2
  <2>4. \A a \in G[n] : G[a] \subseteq G[n]
    BY <2>1, <2>2
  <2> QED BY <1>2, <2>3, <2>4
<1> QED
  BY <1>3, <1>4
\* A row of such a table: each node was made after its parent, and named there.
Row(t, k, G, d) ==
    LET x == t[d] IN
    /\ NodeShape(x) /\ x.kind \in Kinds /\ x.dead = FALSE /\ x.len = 0
    /\ d # 1 => /\ x.up \in 1..(d - 1) /\ G[d] = {d} \cup G[x.up]
                /\ IsDirKind(t[x.up].kind)
                /\ \E c \in DOMAIN t[x.up].kids : t[x.up].kids[c] = d
    /\ \A c \in DOMAIN x.kids :
         /\ x.kids[c] \in 2..k /\ t[x.kids[c]].up = d /\ IsDirKind(x.kind)
         /\ \A b \in DOMAIN x.kids : x.kids[b] = x.kids[c] => b = c

\* A model whose nodes were made in order, each in order, is sound.
LEMMA RowsAreSound ==
    ASSUME FsBounds, NEW s, ModelShape(s), Plain(s), NEW k, k \in Nat \ {0}, Len(s.nodes) = k,
           DOMAIN s.fds = {}, s.mac \in BOOLEAN, s.next = 3, IsDir(s, s.cwd),
           NEW G \in [1..k -> SUBSET (1..k)], s.nodes[1].up = 0, G[1] = {1},
           \A d \in 1..k : Row(s.nodes, k, G, d)
    PROVE  Sound(s) /\ TreeOf(s).dead = {}
<1> DEFINE t == s.nodes
           up == [n \in 1..k |-> t[n].up]
<1>1. \A d \in 1..k : NodeShape(t[d]) /\ t[d].kind \in Kinds /\ t[d].dead = FALSE /\ t[d].len = 0
  BY DEF Row
<1>2. DOMAIN s.nodes = 1..k
  BY DEF ModelShape
<1>3. \A n \in 2..k : t[n].up \in 1..(n - 1) /\ G[n] = {n} \cup G[t[n].up] /\ t[n].up \in 1..k
  BY DEF Row
<1>4. \A n \in 1..k : IsDir(s, n) <=> IsDirKind(t[n].kind)
  BY <1>2 DEF IsDir, Kind
<1>5. ModelOK(s)
  <2>1. MaxLen \in Nat
    BY DEF FsBounds
  <2>3. \A n \in 1..k : t[n].dead \in BOOLEAN
    BY <1>1
  <2>4. \A n \in 1..k : t[n].len \in 0..MaxLen
    BY <1>1, <2>1
  <2> HIDE DEF t
  <2>6. \A n \in DOMAIN s.nodes : /\ s.nodes[n].kind \in Kinds
                                  /\ s.nodes[n].dead \in BOOLEAN
                                  /\ s.nodes[n].len \in 0..MaxLen
    BY <1>1, <1>2, <2>3, <2>4 DEF t
  <2> QED BY <2>6 DEF ModelOK
<1>6. \A n \in 1..k : /\ G[n] \subseteq 1..n /\ 1 \in G[n]
                       /\ \A a \in G[n] : G[a] \subseteq G[n]
  <2>1. InOrder(k, up, G)
    BY <1>3 DEF InOrder
  <2> HIDE DEF up, t
  <2> QED BY <2>1, MadeInOrder
<1>8. \A n \in 2..k : /\ t[n].up \in 1..k /\ IsDir(s, t[n].up)
                       /\ n \notin G[t[n].up] /\ G[n] = {n} \cup G[t[n].up] /\ 1 \in G[n]
  <2> TAKE n \in 2..k
  <2> DEFINE u == t[n].up
  <2>1. u \in 1..(n - 1) /\ u \in 1..k /\ G[n] = {n} \cup G[u]
    BY <1>3
  <2>2. IsDirKind(t[u].kind)
    BY DEF Row
  <2> HIDE DEF u
  <2>3. IsDir(s, u)
    BY <1>4, <2>1, <2>2
  <2>4. n \notin G[u] /\ 1 \in G[n]
    BY <1>6, <2>1
  <2> QED BY <2>1, <2>3, <2>4 DEF u
<1>9. \A b \in 1..k : \A a \in G[b] : G[a] \subseteq G[b]
  BY <1>6
<1>10. \A d \in 1..k : ~t[d].dead
  BY <1>1
<1>11. \A d \in 1..k : \A c \in DOMAIN t[d].kids :
         /\ t[d].kids[c] \in 2..k /\ IsDir(s, d)
         /\ t[t[d].kids[c]].up = d
         /\ \A b \in DOMAIN t[d].kids : t[d].kids[b] = t[d].kids[c] => b = c
  BY <1>4 DEF Row
<1>12. \A n \in 2..k : LET v == t[n].up IN \E c \in DOMAIN t[v].kids : t[v].kids[c] = n
  BY DEF Row
<1>13. OneTree(TreeOf(s)) /\ TreeOf(s).dead = {}
  <2>1. IsTable(s, k, G)
    BY <1>8, <1>9, <1>10, <1>11, <1>12 DEF IsTable
  <2> QED BY <2>1, TableIsTree
<1> QED
  BY <1>5, <1>13 DEF Sound

\* The nodes that Model::new makes.
IsNode(x, kind, up, kids) ==
    NodeShape(x) /\ x.kind = kind /\ x.up = up /\ x.kids = kids /\ x.dead = FALSE /\ x.len = 0

\* What is mounted on a node is not part of the tree.
LEMMA MountEdits ==
    ASSUME NEW x, NEW kind, NEW up, NEW kids, IsNode(x, kind, up, kids), NEW v
    PROVE  /\ IsNode([x EXCEPT !.over = v], kind, up, kids)
           /\ IsNode([x EXCEPT !.vup = v], kind, up, kids)
BY DEF IsNode, NodeShape

\* A node without names.
LEMMA PlainIs ==
    ASSUME NEW kind, NEW link, NEW up
    PROVE  IsNode(Node(kind, link, up), kind, up, NoKids)
BY DEF Node, IsNode, NodeShape, NoKids

\* A directory with its names.
LEMMA DirIs ==
    ASSUME NEW up, NEW kids, kids = [c \in DOMAIN kids |-> kids[c]], NEW vup
    PROVE  /\ IsNode(DirNode(up, kids), "dir", up, kids)
           /\ IsNode(Mounted(up, vup, kids), "dir", up, kids)
<1> DEFINE x == Node("dir", NoPath, up)
           y == [x EXCEPT !.kids = kids]
<1>1. IsNode(x, "dir", up, NoKids)
  BY PlainIs
<1> HIDE DEF x
<1>2. y.kids = kids
  BY <1>1 DEF IsNode, NodeShape
<1>3. IsNode(y, "dir", up, kids)
  BY <1>1, <1>2 DEF IsNode, NodeShape
<1> HIDE DEF y
<1>4. IsNode([y EXCEPT !.vup = vup], "dir", up, kids)
  BY <1>3, MountEdits
<1> QED
  BY <1>3, <1>4 DEF DirNode, Mounted, x, y

\* A directory of the host and a link have no names.
LEMMA OtherIs ==
    /\ \A up, over : IsNode(HostDir(up, over), "opaque", up, NoKids)
    /\ \A up, link : IsNode(Node("link", link, up), "link", up, NoKids)
<1>1. ASSUME NEW up, NEW over PROVE IsNode(HostDir(up, over), "opaque", up, NoKids)
  <2> DEFINE x == Node("opaque", NoPath, up)
  <2>1. IsNode(x, "opaque", up, NoKids)
    BY PlainIs
  <2> HIDE DEF x
  <2>2. IsNode([x EXCEPT !.over = over], "opaque", up, NoKids)
    BY <2>1, MountEdits
  <2> QED BY <2>2 DEF HostDir, x
<1> QED
  BY <1>1, PlainIs

\* One name, two names and none.
LEMMA NamesAre ==
    ASSUME NEW n, NEW i, NEW k, NEW j
    PROVE  /\ Kid(n, i) = [c \in DOMAIN Kid(n, i) |-> Kid(n, i)[c]]
           /\ DOMAIN Kid(n, i) = {n} /\ Kid(n, i)[n] = i
           /\ Pair(n, i, k, j) = [c \in DOMAIN Pair(n, i, k, j) |-> Pair(n, i, k, j)[c]]
           /\ DOMAIN Pair(n, i, k, j) = {n, k} /\ Pair(n, i, k, j)[n] = i
           /\ n # k => Pair(n, i, k, j)[k] = j
           /\ NoKids = [c \in DOMAIN NoKids |-> NoKids[c]] /\ DOMAIN NoKids = {}
BY DEF Kid, Pair, NoKids

\* The directories of the first model.
LEMMA FirstDirs ==
    /\ \A up, n, i : IsNode(DirNode(up, Kid(n, i)), "dir", up, Kid(n, i))
    /\ \A up, n, i, vup : IsNode(Mounted(up, vup, Kid(n, i)), "dir", up, Kid(n, i))
    /\ \A up, n, i, k, j : IsNode(DirNode(up, Pair(n, i, k, j)), "dir", up, Pair(n, i, k, j))
    /\ \A up : IsNode(DirNode(up, NoKids), "dir", up, NoKids)
<1>1. ASSUME NEW up, NEW n, NEW i, NEW vup
      PROVE  /\ IsNode(DirNode(up, Kid(n, i)), "dir", up, Kid(n, i))
             /\ IsNode(Mounted(up, vup, Kid(n, i)), "dir", up, Kid(n, i))
  <2> DEFINE kids == Kid(n, i)
  <2>1. kids = [c \in DOMAIN kids |-> kids[c]]
    BY DEF Kid
  <2> HIDE DEF kids
  <2>2. /\ IsNode(DirNode(up, kids), "dir", up, kids)
        /\ IsNode(Mounted(up, vup, kids), "dir", up, kids)
    BY <2>1, DirIs
  <2> QED BY <2>2 DEF kids
<1>2. ASSUME NEW up, NEW n, NEW i, NEW k, NEW j
      PROVE  IsNode(DirNode(up, Pair(n, i, k, j)), "dir", up, Pair(n, i, k, j))
  <2> DEFINE kids == Pair(n, i, k, j)
  <2>1. kids = [c \in DOMAIN kids |-> kids[c]]
    BY DEF Pair
  <2> HIDE DEF kids
  <2>2. IsNode(DirNode(up, kids), "dir", up, kids)
    BY <2>1, DirIs
  <2> QED BY <2>2 DEF kids
<1>3. ASSUME NEW up PROVE IsNode(DirNode(up, NoKids), "dir", up, NoKids)
  <2>1. NoKids = [c \in DOMAIN NoKids |-> NoKids[c]]
    BY NamesAre
  <2> QED BY <2>1, DirIs
<1> QED
  BY <1>1, <1>2, <1>3

\* The thirteen nodes of the first model on macOS.
LEMMA MacNodesAre ==
    ASSUME FsBounds
    PROVE  LET t == MacNodes IN
           /\ Len(t) = 13 /\ t = [n \in 1..13 |-> t[n]]
           /\ IsNode(t[1], "dir", 0, t[1].kids)
           /\ DOMAIN t[1].kids = {"private", "tmp", "var", Root[1]}
           /\ t[1].kids["private"] = 2 /\ t[1].kids["tmp"] = 6 /\ t[1].kids["var"] = 7
           /\ t[1].kids[Root[1]] = 8
           /\ IsNode(t[2], "dir", 1, Pair("var", 3, "tmp", 4))
           /\ IsNode(t[3], "dir", 2, Kid("tmp", 5))
           /\ IsNode(t[4], "opaque", 2, NoKids) /\ IsNode(t[5], "opaque", 3, NoKids)
           /\ IsNode(t[6], "link", 1, NoKids) /\ IsNode(t[7], "link", 1, NoKids)
           /\ IsNode(t[8], "dir", 1, Pair("tmp", 9, "var", 10))
           /\ IsNode(t[9], "dir", 8, Kid("s", 12))
           /\ IsNode(t[10], "dir", 8, Kid("tmp", 11)) /\ IsNode(t[11], "dir", 10, Kid("s", 13))
           /\ IsNode(t[12], "dir", 9, NoKids) /\ IsNode(t[13], "dir", 11, NoKids)
<1> DEFINE K == [m_1 \in {"private", "tmp", "var", Root[1]} |->
                   CASE m_1 = "private" -> 2 [] m_1 = "tmp" -> 6 [] m_1 = "var" -> 7 [] OTHER -> 8]
           t == MacNodes
<1>1. /\ K = [c \in DOMAIN K |-> K[c]] /\ DOMAIN K = {"private", "tmp", "var", Root[1]}
      /\ K["private"] = 2 /\ K["tmp"] = 6 /\ K["var"] = 7 /\ K[Root[1]] = 8
  BY DEF FsBounds
<1>2. t = << DirNode(0, K), DirNode(1, Pair("var", 3, "tmp", 4)), DirNode(2, Kid("tmp", 5)),
             HostDir(2, 9), HostDir(3, 11),
             Node("link", Rel(<<"private", "tmp">>), 1), Node("link", Rel(<<"private", "var">>), 1),
             DirNode(1, Pair("tmp", 9, "var", 10)), Mounted(8, 2, Kid("s", 12)),
             DirNode(8, Kid("tmp", 11)), Mounted(10, 3, Kid("s", 13)),
             DirNode(9, NoKids), DirNode(11, NoKids) >>
  BY DEF MacNodes
<1> HIDE DEF K, t
<1>3. Len(t) = 13 /\ t = [n \in 1..13 |-> t[n]]
  BY <1>2
<1>4. /\ t[1] = DirNode(0, K) /\ t[2] = DirNode(1, Pair("var", 3, "tmp", 4))
      /\ t[3] = DirNode(2, Kid("tmp", 5)) /\ t[4] = HostDir(2, 9) /\ t[5] = HostDir(3, 11)
      /\ t[6] = Node("link", Rel(<<"private", "tmp">>), 1)
      /\ t[7] = Node("link", Rel(<<"private", "var">>), 1)
      /\ t[8] = DirNode(1, Pair("tmp", 9, "var", 10)) /\ t[9] = Mounted(8, 2, Kid("s", 12))
      /\ t[10] = DirNode(8, Kid("tmp", 11)) /\ t[11] = Mounted(10, 3, Kid("s", 13))
      /\ t[12] = DirNode(9, NoKids) /\ t[13] = DirNode(11, NoKids)
  BY <1>2
<1>5. IsNode(t[1], "dir", 0, K) /\ t[1].kids = K
  <2>1. IsNode(DirNode(0, K), "dir", 0, K)
    BY <1>1, DirIs
  <2>2. IsNode(t[1], "dir", 0, K)
    BY <2>1, <1>4
  <2> QED BY <2>2 DEF IsNode
<1>6. /\ IsNode(t[2], "dir", 1, Pair("var", 3, "tmp", 4))
           /\ IsNode(t[3], "dir", 2, Kid("tmp", 5))
      /\ IsNode(t[8], "dir", 1, Pair("tmp", 9, "var", 10))
           /\ IsNode(t[9], "dir", 8, Kid("s", 12))
      /\ IsNode(t[10], "dir", 8, Kid("tmp", 11)) /\ IsNode(t[11], "dir", 10, Kid("s", 13))
      /\ IsNode(t[12], "dir", 9, NoKids) /\ IsNode(t[13], "dir", 11, NoKids)
  BY <1>4, FirstDirs
<1>7. /\ IsNode(t[4], "opaque", 2, NoKids) /\ IsNode(t[5], "opaque", 3, NoKids)
      /\ IsNode(t[6], "link", 1, NoKids) /\ IsNode(t[7], "link", 1, NoKids)
  BY <1>4, OtherIs
<1> QED
  BY <1>1, <1>3, <1>5, <1>6, <1>7 DEF t

\* The ten nodes of the first model on Linux.
LEMMA LinuxNodesAre ==
    ASSUME FsBounds
    PROVE  LET t == LinuxNodes IN
           /\ Len(t) = 10 /\ t = [n \in 1..10 |-> t[n]]
           /\ IsNode(t[1], "dir", 0, t[1].kids) /\ DOMAIN t[1].kids = {"tmp", "var", Root[1]}
           /\ t[1].kids["tmp"] = 2 /\ t[1].kids["var"] = 3 /\ t[1].kids[Root[1]] = 5
           /\ IsNode(t[2], "opaque", 1, NoKids) /\ IsNode(t[3], "dir", 1, Kid("tmp", 4))
           /\ IsNode(t[4], "opaque", 3, NoKids) /\ IsNode(t[5], "dir", 1, Pair("tmp", 6, "var", 7))
           /\ IsNode(t[6], "dir", 5, Kid("s", 9)) /\ IsNode(t[7], "dir", 5, Kid("tmp", 8))
           /\ IsNode(t[8], "dir", 7, Kid("s", 10))
           /\ IsNode(t[9], "dir", 6, NoKids) /\ IsNode(t[10], "dir", 8, NoKids)
<1> DEFINE K == [m_1 \in {"tmp", "var", Root[1]} |->
                   CASE m_1 = "tmp" -> 2 [] m_1 = "var" -> 3 [] OTHER -> 5]
           t == LinuxNodes
<1>1. /\ K = [c \in DOMAIN K |-> K[c]] /\ DOMAIN K = {"tmp", "var", Root[1]}
      /\ K["tmp"] = 2 /\ K["var"] = 3 /\ K[Root[1]] = 5
  BY DEF FsBounds
<1>2. t = << DirNode(0, K), HostDir(1, 6), DirNode(1, Kid("tmp", 4)), HostDir(3, 8),
             DirNode(1, Pair("tmp", 6, "var", 7)), Mounted(5, 1, Kid("s", 9)),
             DirNode(5, Kid("tmp", 8)), Mounted(7, 3, Kid("s", 10)),
             DirNode(6, NoKids), DirNode(8, NoKids) >>
  BY DEF LinuxNodes
<1> HIDE DEF K, t
<1>3. Len(t) = 10 /\ t = [n \in 1..10 |-> t[n]]
  BY <1>2
<1>4. /\ t[1] = DirNode(0, K) /\ t[2] = HostDir(1, 6) /\ t[3] = DirNode(1, Kid("tmp", 4))
      /\ t[4] = HostDir(3, 8) /\ t[5] = DirNode(1, Pair("tmp", 6, "var", 7))
      /\ t[6] = Mounted(5, 1, Kid("s", 9)) /\ t[7] = DirNode(5, Kid("tmp", 8))
      /\ t[8] = Mounted(7, 3, Kid("s", 10))
      /\ t[9] = DirNode(6, NoKids) /\ t[10] = DirNode(8, NoKids)
  BY <1>2
<1>5. IsNode(t[1], "dir", 0, K) /\ t[1].kids = K
  <2>1. IsNode(DirNode(0, K), "dir", 0, K)
    BY <1>1, DirIs
  <2>2. IsNode(t[1], "dir", 0, K)
    BY <2>1, <1>4
  <2> QED BY <2>2 DEF IsNode
<1>6. /\ IsNode(t[3], "dir", 1, Kid("tmp", 4)) /\ IsNode(t[5], "dir", 1, Pair("tmp", 6, "var", 7))
      /\ IsNode(t[6], "dir", 5, Kid("s", 9)) /\ IsNode(t[7], "dir", 5, Kid("tmp", 8))
      /\ IsNode(t[8], "dir", 7, Kid("s", 10))
      /\ IsNode(t[9], "dir", 6, NoKids) /\ IsNode(t[10], "dir", 8, NoKids)
  BY <1>4, FirstDirs
<1>7. IsNode(t[2], "opaque", 1, NoKids) /\ IsNode(t[4], "opaque", 3, NoKids)
  BY <1>4, OtherIs
<1> QED
  BY <1>1, <1>3, <1>5, <1>6, <1>7 DEF t

\* What hangs together in the first models: links, mounts and the parent of each
\* mount.
IsTied(x, over, vup) == x.link \in Path /\ x.over = over /\ x.vup = vup
LEMMA TiesAre ==
    /\ \A up, kids : IsTied(DirNode(up, kids), 0, 0)
    /\ \A up, over : IsTied(HostDir(up, over), over, 0)
    /\ \A up, vup, kids : IsTied(Mounted(up, vup, kids), 0, vup)
    /\ \A up, link : link \in Path => IsTied(Node("link", link, up), 0, 0)
<1>1. NoPath \in Path
  BY NoPathIs
<1>2. ASSUME NEW kind, NEW link \in Path, NEW up
      PROVE  IsTied(Node(kind, link, up), 0, 0)
  BY <1>2 DEF IsTied, Node
<1>3. ASSUME NEW up, NEW kids PROVE IsTied(DirNode(up, kids), 0, 0)
  BY <1>1 DEF IsTied, Node, DirNode
<1>4. ASSUME NEW up, NEW over PROVE IsTied(HostDir(up, over), over, 0)
  BY <1>1 DEF IsTied, Node, HostDir
<1>5. ASSUME NEW up, NEW vup, NEW kids PROVE IsTied(Mounted(up, vup, kids), 0, vup)
  BY <1>1 DEF IsTied, Node, DirNode, Mounted
<1> QED
  BY <1>2, <1>3, <1>4, <1>5

\* The nodes of the first model on macOS hang together.
LEMMA MacPlain == ASSUME FsBounds, FsNames PROVE Plain(New(TRUE))
<1> DEFINE s == New(TRUE)
           t == MacNodes
<1>1. s.nodes = t /\ s.cwd = 12 /\ DOMAIN s.fds = {}
  BY DEF New
<1>2. Len(t) = 13 /\ DOMAIN t = 1..13
  BY MacNodesAre
<1>3. /\ Rel(<<"private", "tmp">>) \in Path /\ Rel(<<"private", "var">>) \in Path
  BY DEF Rel, Path, FsNames
<1>4. /\ IsTied(t[1], 0, 0) /\ IsTied(t[2], 0, 0) /\ IsTied(t[3], 0, 0) /\ IsTied(t[4], 9, 0)
      /\ IsTied(t[5], 11, 0) /\ IsTied(t[6], 0, 0) /\ IsTied(t[7], 0, 0) /\ IsTied(t[8], 0, 0)
      /\ IsTied(t[9], 0, 2) /\ IsTied(t[10], 0, 0) /\ IsTied(t[11], 0, 3)
      /\ IsTied(t[12], 0, 0) /\ IsTied(t[13], 0, 0)
  BY <1>3, TiesAre DEF MacNodes
<1>5. /\ IsNode(t[1], "dir", 0, t[1].kids) /\ IsNode(t[2], "dir", 1, Pair("var", 3, "tmp", 4))
      /\ IsNode(t[3], "dir", 2, Kid("tmp", 5)) /\ IsNode(t[4], "opaque", 2, NoKids)
      /\ IsNode(t[5], "opaque", 3, NoKids) /\ IsNode(t[6], "link", 1, NoKids)
      /\ IsNode(t[7], "link", 1, NoKids) /\ IsNode(t[8], "dir", 1, Pair("tmp", 9, "var", 10))
      /\ IsNode(t[9], "dir", 8, Kid("s", 12)) /\ IsNode(t[10], "dir", 8, Kid("tmp", 11))
      /\ IsNode(t[11], "dir", 10, Kid("s", 13)) /\ IsNode(t[12], "dir", 9, NoKids)
      /\ IsNode(t[13], "dir", 11, NoKids)
  BY MacNodesAre
<1>6. DOMAIN t[1].kids = {"private", "tmp", "var", Root[1]}
  BY MacNodesAre
<1> HIDE DEF s, t
<1>7. /\ t[1].up = 0 /\ t[2].up = 1 /\ t[3].up = 2 /\ t[4].up = 2 /\ t[5].up = 3
      /\ t[6].up = 1 /\ t[7].up = 1 /\ t[8].up = 1 /\ t[9].up = 8 /\ t[10].up = 8
      /\ t[11].up = 10 /\ t[12].up = 9 /\ t[13].up = 11
  BY <1>5 DEF IsNode
<1>8. /\ DOMAIN t[2].kids = {"var", "tmp"} /\ DOMAIN t[3].kids = {"tmp"}
      /\ DOMAIN t[4].kids = {} /\ DOMAIN t[5].kids = {}
      /\ DOMAIN t[6].kids = {} /\ DOMAIN t[7].kids = {}
      /\ DOMAIN t[8].kids = {"tmp", "var"} /\ DOMAIN t[9].kids = {"s"}
      /\ DOMAIN t[10].kids = {"tmp"} /\ DOMAIN t[11].kids = {"s"}
      /\ DOMAIN t[12].kids = {} /\ DOMAIN t[13].kids = {}
  <2>1. /\ t[2].kids = Pair("var", 3, "tmp", 4) /\ t[3].kids = Kid("tmp", 5)
        /\ t[4].kids = NoKids /\ t[5].kids = NoKids /\ t[6].kids = NoKids /\ t[7].kids = NoKids
        /\ t[8].kids = Pair("tmp", 9, "var", 10) /\ t[9].kids = Kid("s", 12)
        /\ t[10].kids = Kid("tmp", 11) /\ t[11].kids = Kid("s", 13)
        /\ t[12].kids = NoKids /\ t[13].kids = NoKids
    BY <1>5 DEF IsNode
  <2>2. /\ DOMAIN Pair("var", 3, "tmp", 4) = {"var", "tmp"} /\ DOMAIN Kid("tmp", 5) = {"tmp"}
        /\ DOMAIN Pair("tmp", 9, "var", 10) = {"tmp", "var"} /\ DOMAIN Kid("s", 12) = {"s"}
        /\ DOMAIN Kid("tmp", 11) = {"tmp"} /\ DOMAIN Kid("s", 13) = {"s"} /\ DOMAIN NoKids = {}
    BY DEF Kid, Pair, NoKids
  <2> QED BY <2>1, <2>2
<1>9. {"private", "tmp", "var", "s", Root[1]} \subseteq GoodNames
  <2>1. Root[1] \in Component
    <3>1. Root \in Seq(Component) /\ Len(Root) = 1
      BY DEF FsNames, FsBounds
    <3> QED BY <3>1
  <2> QED BY <2>1 DEF FsNames, GoodNames
<1>10. /\ Clear(s, 1) /\ Clear(s, 2) /\ Clear(s, 3) /\ Clear(s, 8) /\ Clear(s, 9)
       /\ Clear(s, 10) /\ Clear(s, 11) /\ Clear(s, 12) /\ Clear(s, 13)
  BY <1>1, <1>2, <1>4 DEF Clear, IsTied
<1>11. \A n \in 1..13 :
        \/ n = 1 \/ n = 2 \/ n = 3 \/ n = 4 \/ n = 5 \/ n = 6 \/ n = 7
        \/ n = 8 \/ n = 9 \/ n = 10 \/ n = 11 \/ n = 12 \/ n = 13
  OBVIOUS
<1>13. Seat(s, 1) /\ Seat(s, 2) /\ Seat(s, 3) /\ Seat(s, 9) /\ Seat(s, 11)
  <2>1. t[1].kind = "dir" /\ t[2].kind = "dir" /\ t[3].kind = "dir" /\ t[9].kind = "dir" /\ t[11].kind = "dir"
    BY <1>5 DEF IsNode
  <2> QED BY <2>1, <1>1, <1>2, <1>10 DEF Seat, IsDir, Kind, IsDirKind
<1>14. IsDirKind(t[4].kind) /\ IsDirKind(t[5].kind)
  BY <1>5 DEF IsNode, IsDirKind
<1>12. \A n \in 1..13 : NodePlain(s, t[n])
  <2> TAKE n \in 1..13
  <2>1. DOMAIN t[n].kids \subseteq GoodNames
    BY <1>6, <1>8, <1>9, <1>11
  <2>2. t[n].link \in Path
    BY <1>4, <1>11 DEF IsTied
  <2>3. t[n].over = 0 \/ (/\ Seat(s, t[n].over) /\ IsDirKind(t[n].kind)
                           /\ DOMAIN t[n].kids = {})
    BY <1>4, <1>8, <1>11, <1>13, <1>14 DEF IsTied
  <2>4. t[n].vup = 0 \/ Seat(s, t[n].vup)
    BY <1>4, <1>11, <1>13 DEF IsTied
  <2>5. t[n].up = 0 \/ Clear(s, t[n].up)
    BY <1>7, <1>10, <1>11
  <2> QED BY <2>1, <2>2, <2>3, <2>4, <2>5 DEF NodePlain
<1> QED
  BY <1>1, <1>2, <1>10, <1>12, <1>13 DEF Plain, RootNode, s

\* The nodes of the first model on Linux hang together.
LEMMA LinuxPlain == ASSUME FsBounds, FsNames PROVE Plain(New(FALSE))
<1> DEFINE s == New(FALSE)
           t == LinuxNodes
<1>1. s.nodes = t /\ s.cwd = 9 /\ DOMAIN s.fds = {}
  BY DEF New
<1>2. Len(t) = 10 /\ DOMAIN t = 1..10
  BY LinuxNodesAre
<1>4. /\ IsTied(t[1], 0, 0) /\ IsTied(t[2], 6, 0) /\ IsTied(t[3], 0, 0) /\ IsTied(t[4], 8, 0)
      /\ IsTied(t[5], 0, 0) /\ IsTied(t[6], 0, 1) /\ IsTied(t[7], 0, 0) /\ IsTied(t[8], 0, 3)
      /\ IsTied(t[9], 0, 0) /\ IsTied(t[10], 0, 0)
  BY TiesAre DEF LinuxNodes
<1>5. /\ IsNode(t[1], "dir", 0, t[1].kids) /\ IsNode(t[2], "opaque", 1, NoKids)
      /\ IsNode(t[3], "dir", 1, Kid("tmp", 4)) /\ IsNode(t[4], "opaque", 3, NoKids)
      /\ IsNode(t[5], "dir", 1, Pair("tmp", 6, "var", 7)) /\ IsNode(t[6], "dir", 5, Kid("s", 9))
      /\ IsNode(t[7], "dir", 5, Kid("tmp", 8)) /\ IsNode(t[8], "dir", 7, Kid("s", 10))
      /\ IsNode(t[9], "dir", 6, NoKids) /\ IsNode(t[10], "dir", 8, NoKids)
  BY LinuxNodesAre
<1>6. DOMAIN t[1].kids = {"tmp", "var", Root[1]}
  BY LinuxNodesAre
<1> HIDE DEF s, t
<1>7. /\ t[1].up = 0 /\ t[2].up = 1 /\ t[3].up = 1 /\ t[4].up = 3 /\ t[5].up = 1
      /\ t[6].up = 5 /\ t[7].up = 5 /\ t[8].up = 7 /\ t[9].up = 6 /\ t[10].up = 8
  BY <1>5 DEF IsNode
<1>8. /\ DOMAIN t[2].kids = {} /\ DOMAIN t[3].kids = {"tmp"}
      /\ DOMAIN t[4].kids = {} /\ DOMAIN t[5].kids = {"tmp", "var"}
      /\ DOMAIN t[6].kids = {"s"} /\ DOMAIN t[7].kids = {"tmp"} /\ DOMAIN t[8].kids = {"s"}
      /\ DOMAIN t[9].kids = {} /\ DOMAIN t[10].kids = {}
  <2>1. /\ t[2].kids = NoKids /\ t[3].kids = Kid("tmp", 4) /\ t[4].kids = NoKids
        /\ t[5].kids = Pair("tmp", 6, "var", 7) /\ t[6].kids = Kid("s", 9)
        /\ t[7].kids = Kid("tmp", 8) /\ t[8].kids = Kid("s", 10)
        /\ t[9].kids = NoKids /\ t[10].kids = NoKids
    BY <1>5 DEF IsNode
  <2>2. /\ DOMAIN Kid("tmp", 4) = {"tmp"} /\ DOMAIN Pair("tmp", 6, "var", 7) = {"tmp", "var"}
        /\ DOMAIN Kid("s", 9) = {"s"} /\ DOMAIN Kid("tmp", 8) = {"tmp"}
        /\ DOMAIN Kid("s", 10) = {"s"} /\ DOMAIN NoKids = {}
    BY DEF Kid, Pair, NoKids
  <2> QED BY <2>1, <2>2
<1>9. {"private", "tmp", "var", "s", Root[1]} \subseteq GoodNames
  <2>1. Root[1] \in Component
    <3>1. Root \in Seq(Component) /\ Len(Root) = 1
      BY DEF FsNames, FsBounds
    <3> QED BY <3>1
  <2> QED BY <2>1 DEF FsNames, GoodNames
<1>10. /\ Clear(s, 1) /\ Clear(s, 3) /\ Clear(s, 5) /\ Clear(s, 6) /\ Clear(s, 7)
       /\ Clear(s, 8) /\ Clear(s, 9) /\ Clear(s, 10)
  BY <1>1, <1>2, <1>4 DEF Clear, IsTied
<1>11. \A n \in 1..10 :
        \/ n = 1 \/ n = 2 \/ n = 3 \/ n = 4 \/ n = 5 \/ n = 6 \/ n = 7
        \/ n = 8 \/ n = 9 \/ n = 10
  OBVIOUS
<1>13. Seat(s, 1) /\ Seat(s, 3) /\ Seat(s, 6) /\ Seat(s, 8)
  <2>1. t[1].kind = "dir" /\ t[3].kind = "dir" /\ t[6].kind = "dir" /\ t[8].kind = "dir"
    BY <1>5 DEF IsNode
  <2> QED BY <2>1, <1>1, <1>2, <1>10 DEF Seat, IsDir, Kind, IsDirKind
<1>14. IsDirKind(t[2].kind) /\ IsDirKind(t[4].kind)
  BY <1>5 DEF IsNode, IsDirKind
<1>12. \A n \in 1..10 : NodePlain(s, t[n])
  <2> TAKE n \in 1..10
  <2>1. DOMAIN t[n].kids \subseteq GoodNames
    BY <1>6, <1>8, <1>9, <1>11
  <2>2. t[n].link \in Path
    BY <1>4, <1>11 DEF IsTied
  <2>3. t[n].over = 0 \/ (/\ Seat(s, t[n].over) /\ IsDirKind(t[n].kind)
                           /\ DOMAIN t[n].kids = {})
    BY <1>4, <1>8, <1>11, <1>13, <1>14 DEF IsTied
  <2>4. t[n].vup = 0 \/ Seat(s, t[n].vup)
    BY <1>4, <1>11, <1>13 DEF IsTied
  <2>5. t[n].up = 0 \/ Clear(s, t[n].up)
    BY <1>7, <1>10, <1>11
  <2> QED BY <2>1, <2>2, <2>3, <2>4, <2>5 DEF NodePlain
<1> QED
  BY <1>1, <1>2, <1>10, <1>12, <1>13 DEF Plain, RootNode, s

\* The first model on macOS is in order, node by node.
LEMMA MacSound ==
    ASSUME FsBounds, FsNames PROVE Sound(New(TRUE)) /\ TreeOf(New(TRUE)).dead = {}
<1> DEFINE s == New(TRUE)
           t == MacNodes
           G == << {1}, {2, 1}, {3, 2, 1}, {4, 2, 1}, {5, 3, 2, 1},
                   {6, 1}, {7, 1}, {8, 1}, {9, 8, 1}, {10, 8, 1},
                   {11, 10, 8, 1}, {12, 9, 8, 1}, {13, 11, 10, 8, 1} >>
<1>1. /\ s = [mac |-> TRUE, nodes |-> t, cwd |-> 12, fds |-> s.fds, next |-> 3]
      /\ s.fds = [f \in {} |-> 0]
  BY DEF New
<1>2. /\ G[1] = {1} /\ G[2] = {2, 1} /\ G[3] = {3, 2, 1} /\ G[4] = {4, 2, 1}
      /\ G[5] = {5, 3, 2, 1} /\ G[6] = {6, 1} /\ G[7] = {7, 1} /\ G[8] = {8, 1}
      /\ G[9] = {9, 8, 1} /\ G[10] = {10, 8, 1} /\ G[11] = {11, 10, 8, 1} /\ G[12] = {12, 9, 8, 1}
      /\ G[13] = {13, 11, 10, 8, 1}
      /\ DOMAIN G = 1..13 /\ G = [n \in 1..13 |-> G[n]]
  OBVIOUS
<1>3. Len(t) = 13 /\ t = [n \in 1..13 |-> t[n]]
  BY MacNodesAre
<1>4. /\ IsNode(t[1], "dir", 0, t[1].kids) /\ IsNode(t[2], "dir", 1, Pair("var", 3, "tmp", 4))
      /\ IsNode(t[3], "dir", 2, Kid("tmp", 5)) /\ IsNode(t[4], "opaque", 2, NoKids)
      /\ IsNode(t[5], "opaque", 3, NoKids) /\ IsNode(t[6], "link", 1, NoKids)
      /\ IsNode(t[7], "link", 1, NoKids) /\ IsNode(t[8], "dir", 1, Pair("tmp", 9, "var", 10))
      /\ IsNode(t[9], "dir", 8, Kid("s", 12)) /\ IsNode(t[10], "dir", 8, Kid("tmp", 11))
      /\ IsNode(t[11], "dir", 10, Kid("s", 13)) /\ IsNode(t[12], "dir", 9, NoKids)
      /\ IsNode(t[13], "dir", 11, NoKids)
  BY MacNodesAre
<1>5. /\ DOMAIN t[1].kids = {"private", "tmp", "var", Root[1]}
      /\ t[1].kids["private"] = 2
      /\ t[1].kids["tmp"] = 6
      /\ t[1].kids["var"] = 7
      /\ t[1].kids[Root[1]] = 8
  BY MacNodesAre
<1>20. Plain(s)
  BY MacPlain
<1> HIDE DEF s, t, G
<1>6. \A n \in 1..13 :
        \/ n = 1 \/ n = 2 \/ n = 3 \/ n = 4 \/ n = 5 \/ n = 6 \/ n = 7
        \/ n = 8 \/ n = 9 \/ n = 10 \/ n = 11 \/ n = 12 \/ n = 13
  OBVIOUS
<1>7. /\ t[1].up = 0 /\ t[2].up = 1 /\ t[3].up = 2 /\ t[4].up = 2 /\ t[5].up = 3
      /\ t[6].up = 1 /\ t[7].up = 1 /\ t[8].up = 1 /\ t[9].up = 8 /\ t[10].up = 8
      /\ t[11].up = 10 /\ t[12].up = 9 /\ t[13].up = 11
  BY <1>4 DEF IsNode
<1>8. /\ t[1].kind = "dir" /\ t[2].kind = "dir" /\ t[3].kind = "dir" /\ t[4].kind = "opaque"
      /\ t[5].kind = "opaque" /\ t[6].kind = "link" /\ t[7].kind = "link" /\ t[8].kind = "dir"
      /\ t[9].kind = "dir" /\ t[10].kind = "dir" /\ t[11].kind = "dir" /\ t[12].kind = "dir"
      /\ t[13].kind = "dir"
  BY <1>4 DEF IsNode
<1>9. /\ t[2].kids = Pair("var", 3, "tmp", 4) /\ t[3].kids = Kid("tmp", 5)
      /\ t[4].kids = NoKids /\ t[5].kids = NoKids
      /\ t[6].kids = NoKids /\ t[7].kids = NoKids
      /\ t[8].kids = Pair("tmp", 9, "var", 10) /\ t[9].kids = Kid("s", 12)
      /\ t[10].kids = Kid("tmp", 11) /\ t[11].kids = Kid("s", 13)
      /\ t[12].kids = NoKids /\ t[13].kids = NoKids
  BY <1>4 DEF IsNode
<1>10. /\ DOMAIN NoKids = {}
       /\ DOMAIN Pair("var", 3, "tmp", 4) = {"var", "tmp"}
       /\ Pair("var", 3, "tmp", 4)["var"] = 3
       /\ Pair("var", 3, "tmp", 4)["tmp"] = 4
       /\ DOMAIN Kid("tmp", 5) = {"tmp"}
       /\ Kid("tmp", 5)["tmp"] = 5
       /\ DOMAIN Pair("tmp", 9, "var", 10) = {"tmp", "var"}
       /\ Pair("tmp", 9, "var", 10)["tmp"] = 9
       /\ Pair("tmp", 9, "var", 10)["var"] = 10
       /\ DOMAIN Kid("s", 12) = {"s"}
       /\ Kid("s", 12)["s"] = 12
       /\ DOMAIN Kid("tmp", 11) = {"tmp"}
       /\ Kid("tmp", 11)["tmp"] = 11
       /\ DOMAIN Kid("s", 13) = {"s"}
       /\ Kid("s", 13)["s"] = 13
  BY DEF Kid, Pair, NoKids
<1>11. \A d \in 1..13 : NodeShape(t[d]) /\ t[d].dead = FALSE /\ t[d].len = 0 /\ t[d].kind \in Kinds
  <2>1. /\ NodeShape(t[1]) /\ NodeShape(t[2]) /\ NodeShape(t[3]) /\ NodeShape(t[4])
        /\ NodeShape(t[5]) /\ NodeShape(t[6]) /\ NodeShape(t[7]) /\ NodeShape(t[8])
        /\ NodeShape(t[9]) /\ NodeShape(t[10]) /\ NodeShape(t[11]) /\ NodeShape(t[12])
        /\ NodeShape(t[13])
    BY <1>4 DEF IsNode
  <2>2. /\ t[1].dead = FALSE /\ t[1].len = 0 /\ t[2].dead = FALSE /\ t[2].len = 0
        /\ t[3].dead = FALSE /\ t[3].len = 0 /\ t[4].dead = FALSE /\ t[4].len = 0
        /\ t[5].dead = FALSE /\ t[5].len = 0 /\ t[6].dead = FALSE /\ t[6].len = 0
        /\ t[7].dead = FALSE /\ t[7].len = 0 /\ t[8].dead = FALSE /\ t[8].len = 0
        /\ t[9].dead = FALSE /\ t[9].len = 0 /\ t[10].dead = FALSE /\ t[10].len = 0
        /\ t[11].dead = FALSE /\ t[11].len = 0 /\ t[12].dead = FALSE /\ t[12].len = 0
        /\ t[13].dead = FALSE /\ t[13].len = 0
    BY <1>4 DEF IsNode
  <2> TAKE d \in 1..13
  <2>3. NodeShape(t[d])
    BY <1>6, <2>1
  <2>4. t[d].dead = FALSE /\ t[d].len = 0
    BY <1>6, <2>2
  <2>5. t[d].kind \in Kinds
    BY <1>6, <1>8 DEF Kinds
  <2> QED BY <2>3, <2>4, <2>5
<1>12. \A d \in 1..13 : Row(t, 13, G, d)
  <2>1. Row(t, 13, G, 1)
    BY <1>5, <1>7, <1>8, <1>11 DEF Row, IsDirKind
  <2>2. Row(t, 13, G, 2)
    <3>1. "private" \in DOMAIN t[t[2].up].kids /\ t[t[2].up].kids["private"] = 2
      BY <1>7, <1>5
    <3>2. DOMAIN t[2].kids = {"var", "tmp"} /\ t[2].kids["var"] = 3 /\ t[2].kids["tmp"] = 4
      BY <1>9, <1>10
    <3>3. \A c \in DOMAIN t[2].kids : /\ t[2].kids[c] \in 2..13 /\ t[t[2].kids[c]].up = 2
            /\ \A b \in DOMAIN t[2].kids : t[2].kids[b] = t[2].kids[c] => b = c
      BY <3>2, <1>7
    <3> QED BY <3>1, <3>3, <1>2, <1>7, <1>8, <1>11, SMTT(30) DEF Row, IsDirKind
  <2>3. Row(t, 13, G, 3)
    <3>1. "var" \in DOMAIN t[t[3].up].kids /\ t[t[3].up].kids["var"] = 3
      BY <1>7, <1>9, <1>10
    <3> QED BY <3>1, <1>2, <1>7, <1>8, <1>9, <1>10, <1>11, SMTT(30) DEF Row, IsDirKind
  <2>4. Row(t, 13, G, 4)
    <3>1. "tmp" \in DOMAIN t[t[4].up].kids /\ t[t[4].up].kids["tmp"] = 4
      BY <1>7, <1>9, <1>10
    <3> QED BY <3>1, <1>2, <1>7, <1>8, <1>9, <1>10, <1>11, SMTT(30) DEF Row, IsDirKind
  <2>5. Row(t, 13, G, 5)
    <3>1. "tmp" \in DOMAIN t[t[5].up].kids /\ t[t[5].up].kids["tmp"] = 5
      BY <1>7, <1>9, <1>10
    <3> QED BY <3>1, <1>2, <1>7, <1>8, <1>9, <1>10, <1>11, SMTT(30) DEF Row, IsDirKind
  <2>6. Row(t, 13, G, 6)
    <3>1. "tmp" \in DOMAIN t[t[6].up].kids /\ t[t[6].up].kids["tmp"] = 6
      BY <1>7, <1>5
    <3> QED BY <3>1, <1>2, <1>7, <1>8, <1>9, <1>10, <1>11, SMTT(30) DEF Row, IsDirKind
  <2>7. Row(t, 13, G, 7)
    <3>1. "var" \in DOMAIN t[t[7].up].kids /\ t[t[7].up].kids["var"] = 7
      BY <1>7, <1>5
    <3> QED BY <3>1, <1>2, <1>7, <1>8, <1>9, <1>10, <1>11, SMTT(30) DEF Row, IsDirKind
  <2>8. Row(t, 13, G, 8)
    <3>1. Root[1] \in DOMAIN t[t[8].up].kids /\ t[t[8].up].kids[Root[1]] = 8
      BY <1>7, <1>5
    <3>2. DOMAIN t[8].kids = {"tmp", "var"} /\ t[8].kids["tmp"] = 9 /\ t[8].kids["var"] = 10
      BY <1>9, <1>10
    <3>3. \A c \in DOMAIN t[8].kids : /\ t[8].kids[c] \in 2..13 /\ t[t[8].kids[c]].up = 8
            /\ \A b \in DOMAIN t[8].kids : t[8].kids[b] = t[8].kids[c] => b = c
      BY <3>2, <1>7
    <3> QED BY <3>1, <3>3, <1>2, <1>7, <1>8, <1>11, SMTT(30) DEF Row, IsDirKind
  <2>9. Row(t, 13, G, 9)
    <3>1. "tmp" \in DOMAIN t[t[9].up].kids /\ t[t[9].up].kids["tmp"] = 9
      BY <1>7, <1>9, <1>10
    <3> QED BY <3>1, <1>2, <1>7, <1>8, <1>9, <1>10, <1>11, SMTT(30) DEF Row, IsDirKind
  <2>10. Row(t, 13, G, 10)
    <3>1. "var" \in DOMAIN t[t[10].up].kids /\ t[t[10].up].kids["var"] = 10
      BY <1>7, <1>9, <1>10
    <3> QED BY <3>1, <1>2, <1>7, <1>8, <1>9, <1>10, <1>11, SMTT(30) DEF Row, IsDirKind
  <2>11. Row(t, 13, G, 11)
    <3>1. "tmp" \in DOMAIN t[t[11].up].kids /\ t[t[11].up].kids["tmp"] = 11
      BY <1>7, <1>9, <1>10
    <3> QED BY <3>1, <1>2, <1>7, <1>8, <1>9, <1>10, <1>11, SMTT(30) DEF Row, IsDirKind
  <2>12. Row(t, 13, G, 12)
    <3>1. "s" \in DOMAIN t[t[12].up].kids /\ t[t[12].up].kids["s"] = 12
      BY <1>7, <1>9, <1>10
    <3> QED BY <3>1, <1>2, <1>7, <1>8, <1>9, <1>10, <1>11, SMTT(30) DEF Row, IsDirKind
  <2>13. Row(t, 13, G, 13)
    <3>1. "s" \in DOMAIN t[t[13].up].kids /\ t[t[13].up].kids["s"] = 13
      BY <1>7, <1>9, <1>10
    <3> QED BY <3>1, <1>2, <1>7, <1>8, <1>9, <1>10, <1>11, SMTT(30) DEF Row, IsDirKind
  <2> TAKE d \in 1..13
  <2> QED BY <1>6, <2>1, <2>2, <2>3, <2>4, <2>5, <2>6, <2>7, <2>8, <2>9, <2>10, <2>11, <2>12, <2>13
<1>13. ModelShape(s) /\ s.nodes = t /\ Len(s.nodes) = 13 /\ DOMAIN s.fds = {}
       /\ s.mac = TRUE /\ s.next = 3 /\ s.cwd = 12
  <2>1. s.nodes = t /\ DOMAIN s.fds = {} /\ s.mac = TRUE /\ s.next = 3 /\ s.cwd = 12
    BY <1>1
  <2>2. s.fds = [f \in DOMAIN s.fds |-> s.fds[f]]
    BY <1>1
  <2>3. s = [mac |-> s.mac, nodes |-> s.nodes, cwd |-> s.cwd, fds |-> s.fds, next |-> s.next]
    BY <1>1
  <2>4. Len(s.nodes) = 13 /\ s.nodes = [n \in 1..13 |-> s.nodes[n]]
    BY <2>1, <1>3
  <2>5. \A n \in 1..13 : NodeShape(s.nodes[n])
    BY <2>1, <1>11
  <2> QED BY <2>1, <2>2, <2>3, <2>4, <2>5 DEF ModelShape
<1>14. IsDir(s, s.cwd)
  BY <1>13, <1>3, <1>8 DEF IsDir, Kind, IsDirKind
<1>15. G \in [1..13 -> SUBSET (1..13)]
  <2>1. \A n \in 1..13 : G[n] \in SUBSET (1..13)
    BY <1>2, <1>6
  <2> QED BY <1>2, <2>1
<1> DEFINE k == 13
<1>16. k \in Nat \ {0} /\ Len(s.nodes) = k
  BY <1>13
<1>17. G \in [1..k -> SUBSET (1..k)]
  BY <1>15
<1>18. s.nodes[1].up = 0 /\ G[1] = {1} /\ s.mac \in BOOLEAN
  BY <1>2, <1>7, <1>13
<1>19. \A d \in 1..k : Row(s.nodes, k, G, d)
  BY <1>12, <1>13
<1> HIDE DEF k
<1> QED
  BY <1>13, <1>14, <1>16, <1>17, <1>18, <1>19, <1>20, RowsAreSound DEF s

\* The first model on Linux is in order, node by node.
LEMMA LinuxSound ==
    ASSUME FsBounds, FsNames PROVE Sound(New(FALSE)) /\ TreeOf(New(FALSE)).dead = {}
<1> DEFINE s == New(FALSE)
           t == LinuxNodes
           G == << {1}, {2, 1}, {3, 1}, {4, 3, 1}, {5, 1},
                   {6, 5, 1}, {7, 5, 1}, {8, 7, 5, 1}, {9, 6, 5, 1}, {10, 8, 7, 5, 1} >>
<1>1. /\ s = [mac |-> FALSE, nodes |-> t, cwd |-> 9, fds |-> s.fds, next |-> 3]
      /\ s.fds = [f \in {} |-> 0]
  BY DEF New
<1>2. /\ G[1] = {1} /\ G[2] = {2, 1} /\ G[3] = {3, 1} /\ G[4] = {4, 3, 1}
      /\ G[5] = {5, 1} /\ G[6] = {6, 5, 1} /\ G[7] = {7, 5, 1} /\ G[8] = {8, 7, 5, 1}
      /\ G[9] = {9, 6, 5, 1} /\ G[10] = {10, 8, 7, 5, 1}
      /\ DOMAIN G = 1..10 /\ G = [n \in 1..10 |-> G[n]]
  OBVIOUS
<1>3. Len(t) = 10 /\ t = [n \in 1..10 |-> t[n]]
  BY LinuxNodesAre
<1>4. /\ IsNode(t[1], "dir", 0, t[1].kids) /\ IsNode(t[2], "opaque", 1, NoKids)
      /\ IsNode(t[3], "dir", 1, Kid("tmp", 4)) /\ IsNode(t[4], "opaque", 3, NoKids)
      /\ IsNode(t[5], "dir", 1, Pair("tmp", 6, "var", 7)) /\ IsNode(t[6], "dir", 5, Kid("s", 9))
      /\ IsNode(t[7], "dir", 5, Kid("tmp", 8)) /\ IsNode(t[8], "dir", 7, Kid("s", 10))
      /\ IsNode(t[9], "dir", 6, NoKids) /\ IsNode(t[10], "dir", 8, NoKids)
  BY LinuxNodesAre
<1>5. /\ DOMAIN t[1].kids = {"tmp", "var", Root[1]}
      /\ t[1].kids["tmp"] = 2
      /\ t[1].kids["var"] = 3
      /\ t[1].kids[Root[1]] = 5
  BY LinuxNodesAre
<1>20. Plain(s)
  BY LinuxPlain
<1> HIDE DEF s, t, G
<1>6. \A n \in 1..10 :
        \/ n = 1 \/ n = 2 \/ n = 3 \/ n = 4 \/ n = 5 \/ n = 6 \/ n = 7
        \/ n = 8 \/ n = 9 \/ n = 10
  OBVIOUS
<1>7. /\ t[1].up = 0 /\ t[2].up = 1 /\ t[3].up = 1 /\ t[4].up = 3 /\ t[5].up = 1
      /\ t[6].up = 5 /\ t[7].up = 5 /\ t[8].up = 7 /\ t[9].up = 6 /\ t[10].up = 8
  BY <1>4 DEF IsNode
<1>8. /\ t[1].kind = "dir" /\ t[2].kind = "opaque" /\ t[3].kind = "dir" /\ t[4].kind = "opaque"
      /\ t[5].kind = "dir" /\ t[6].kind = "dir" /\ t[7].kind = "dir" /\ t[8].kind = "dir"
      /\ t[9].kind = "dir" /\ t[10].kind = "dir"
  BY <1>4 DEF IsNode
<1>9. /\ t[2].kids = NoKids /\ t[3].kids = Kid("tmp", 4)
      /\ t[4].kids = NoKids /\ t[5].kids = Pair("tmp", 6, "var", 7)
      /\ t[6].kids = Kid("s", 9) /\ t[7].kids = Kid("tmp", 8)
      /\ t[8].kids = Kid("s", 10) /\ t[9].kids = NoKids
      /\ t[10].kids = NoKids
  BY <1>4 DEF IsNode
<1>10. /\ DOMAIN NoKids = {}
       /\ DOMAIN Kid("tmp", 4) = {"tmp"}
       /\ Kid("tmp", 4)["tmp"] = 4
       /\ DOMAIN Pair("tmp", 6, "var", 7) = {"tmp", "var"}
       /\ Pair("tmp", 6, "var", 7)["tmp"] = 6
       /\ Pair("tmp", 6, "var", 7)["var"] = 7
       /\ DOMAIN Kid("s", 9) = {"s"}
       /\ Kid("s", 9)["s"] = 9
       /\ DOMAIN Kid("tmp", 8) = {"tmp"}
       /\ Kid("tmp", 8)["tmp"] = 8
       /\ DOMAIN Kid("s", 10) = {"s"}
       /\ Kid("s", 10)["s"] = 10
  BY DEF Kid, Pair, NoKids
<1>11. \A d \in 1..10 : NodeShape(t[d]) /\ t[d].dead = FALSE /\ t[d].len = 0 /\ t[d].kind \in Kinds
  <2>1. /\ NodeShape(t[1]) /\ NodeShape(t[2]) /\ NodeShape(t[3]) /\ NodeShape(t[4])
        /\ NodeShape(t[5]) /\ NodeShape(t[6]) /\ NodeShape(t[7]) /\ NodeShape(t[8])
        /\ NodeShape(t[9]) /\ NodeShape(t[10])
    BY <1>4 DEF IsNode
  <2>2. /\ t[1].dead = FALSE /\ t[1].len = 0 /\ t[2].dead = FALSE /\ t[2].len = 0
        /\ t[3].dead = FALSE /\ t[3].len = 0 /\ t[4].dead = FALSE /\ t[4].len = 0
        /\ t[5].dead = FALSE /\ t[5].len = 0 /\ t[6].dead = FALSE /\ t[6].len = 0
        /\ t[7].dead = FALSE /\ t[7].len = 0 /\ t[8].dead = FALSE /\ t[8].len = 0
        /\ t[9].dead = FALSE /\ t[9].len = 0 /\ t[10].dead = FALSE /\ t[10].len = 0
    BY <1>4 DEF IsNode
  <2> TAKE d \in 1..10
  <2>3. NodeShape(t[d])
    BY <1>6, <2>1
  <2>4. t[d].dead = FALSE /\ t[d].len = 0
    BY <1>6, <2>2
  <2>5. t[d].kind \in Kinds
    BY <1>6, <1>8 DEF Kinds
  <2> QED BY <2>3, <2>4, <2>5
<1>12. \A d \in 1..10 : Row(t, 10, G, d)
  <2>1. Row(t, 10, G, 1)
    BY <1>5, <1>7, <1>8, <1>11 DEF Row, IsDirKind
  <2>2. Row(t, 10, G, 2)
    <3>1. "tmp" \in DOMAIN t[t[2].up].kids /\ t[t[2].up].kids["tmp"] = 2
      BY <1>7, <1>5
    <3> QED BY <3>1, <1>2, <1>7, <1>8, <1>9, <1>10, <1>11, SMTT(30) DEF Row, IsDirKind
  <2>3. Row(t, 10, G, 3)
    <3>1. "var" \in DOMAIN t[t[3].up].kids /\ t[t[3].up].kids["var"] = 3
      BY <1>7, <1>5
    <3> QED BY <3>1, <1>2, <1>7, <1>8, <1>9, <1>10, <1>11, SMTT(30) DEF Row, IsDirKind
  <2>4. Row(t, 10, G, 4)
    <3>1. "tmp" \in DOMAIN t[t[4].up].kids /\ t[t[4].up].kids["tmp"] = 4
      BY <1>7, <1>9, <1>10
    <3> QED BY <3>1, <1>2, <1>7, <1>8, <1>9, <1>10, <1>11, SMTT(30) DEF Row, IsDirKind
  <2>5. Row(t, 10, G, 5)
    <3>1. Root[1] \in DOMAIN t[t[5].up].kids /\ t[t[5].up].kids[Root[1]] = 5
      BY <1>7, <1>5
    <3>2. DOMAIN t[5].kids = {"tmp", "var"} /\ t[5].kids["tmp"] = 6 /\ t[5].kids["var"] = 7
      BY <1>9, <1>10
    <3>3. \A c \in DOMAIN t[5].kids : /\ t[5].kids[c] \in 2..10 /\ t[t[5].kids[c]].up = 5
            /\ \A b \in DOMAIN t[5].kids : t[5].kids[b] = t[5].kids[c] => b = c
      BY <3>2, <1>7
    <3> QED BY <3>1, <3>3, <1>2, <1>7, <1>8, <1>11, SMTT(30) DEF Row, IsDirKind
  <2>6. Row(t, 10, G, 6)
    <3>1. "tmp" \in DOMAIN t[t[6].up].kids /\ t[t[6].up].kids["tmp"] = 6
      BY <1>7, <1>9, <1>10
    <3> QED BY <3>1, <1>2, <1>7, <1>8, <1>9, <1>10, <1>11, SMTT(30) DEF Row, IsDirKind
  <2>7. Row(t, 10, G, 7)
    <3>1. "var" \in DOMAIN t[t[7].up].kids /\ t[t[7].up].kids["var"] = 7
      BY <1>7, <1>9, <1>10
    <3> QED BY <3>1, <1>2, <1>7, <1>8, <1>9, <1>10, <1>11, SMTT(30) DEF Row, IsDirKind
  <2>8. Row(t, 10, G, 8)
    <3>1. "tmp" \in DOMAIN t[t[8].up].kids /\ t[t[8].up].kids["tmp"] = 8
      BY <1>7, <1>9, <1>10
    <3> QED BY <3>1, <1>2, <1>7, <1>8, <1>9, <1>10, <1>11, SMTT(30) DEF Row, IsDirKind
  <2>9. Row(t, 10, G, 9)
    <3>1. "s" \in DOMAIN t[t[9].up].kids /\ t[t[9].up].kids["s"] = 9
      BY <1>7, <1>9, <1>10
    <3> QED BY <3>1, <1>2, <1>7, <1>8, <1>9, <1>10, <1>11, SMTT(30) DEF Row, IsDirKind
  <2>10. Row(t, 10, G, 10)
    <3>1. "s" \in DOMAIN t[t[10].up].kids /\ t[t[10].up].kids["s"] = 10
      BY <1>7, <1>9, <1>10
    <3> QED BY <3>1, <1>2, <1>7, <1>8, <1>9, <1>10, <1>11, SMTT(30) DEF Row, IsDirKind
  <2> TAKE d \in 1..10
  <2> QED BY <1>6, <2>1, <2>2, <2>3, <2>4, <2>5, <2>6, <2>7, <2>8, <2>9, <2>10
<1>13. ModelShape(s) /\ s.nodes = t /\ Len(s.nodes) = 10 /\ DOMAIN s.fds = {}
       /\ s.mac = FALSE /\ s.next = 3 /\ s.cwd = 9
  <2>1. s.nodes = t /\ DOMAIN s.fds = {} /\ s.mac = FALSE /\ s.next = 3 /\ s.cwd = 9
    BY <1>1
  <2>2. s.fds = [f \in DOMAIN s.fds |-> s.fds[f]]
    BY <1>1
  <2>3. s = [mac |-> s.mac, nodes |-> s.nodes, cwd |-> s.cwd, fds |-> s.fds, next |-> s.next]
    BY <1>1
  <2>4. Len(s.nodes) = 10 /\ s.nodes = [n \in 1..10 |-> s.nodes[n]]
    BY <2>1, <1>3
  <2>5. \A n \in 1..10 : NodeShape(s.nodes[n])
    BY <2>1, <1>11
  <2> QED BY <2>1, <2>2, <2>3, <2>4, <2>5 DEF ModelShape
<1>14. IsDir(s, s.cwd)
  BY <1>13, <1>3, <1>8 DEF IsDir, Kind, IsDirKind
<1>15. G \in [1..10 -> SUBSET (1..10)]
  <2>1. \A n \in 1..10 : G[n] \in SUBSET (1..10)
    BY <1>2, <1>6
  <2> QED BY <1>2, <2>1
<1> DEFINE k == 10
<1>16. k \in Nat \ {0} /\ Len(s.nodes) = k
  BY <1>13
<1>17. G \in [1..k -> SUBSET (1..k)]
  BY <1>15
<1>18. s.nodes[1].up = 0 /\ G[1] = {1} /\ s.mac \in BOOLEAN
  BY <1>2, <1>7, <1>13
<1>19. \A d \in 1..k : Row(s.nodes, k, G, d)
  BY <1>12, <1>13
<1> HIDE DEF k
<1> QED
  BY <1>13, <1>14, <1>16, <1>17, <1>18, <1>19, <1>20, RowsAreSound DEF s

-----------------------------------------------------------------------------
(* TmpPath: what symlink stores                                            *)

\* The states of a scan.
Ats == {"root", "private", "privvar", "temp", "other", "escape"}
Scannings ==
    {st \in [at : Ats, base : {"root", "private", "privvar"}, sub : Seq(Component),
             from : Nat, depth : Nat, named : BOOLEAN, dotdot : Nat] :
       st.at = "other" => st.depth # 0}

\* A step of the scan is one.
LEMMA ScanToIs ==
    ASSUME FsNames, NEW cs \in Seq(Component), NEW i \in 1..Len(cs), NEW st \in Scannings
    PROVE  ScanTo(cs, i, st) \in Scannings
<1>1. \A a \in {"root", "private", "privvar"} : Scan(a) \in Scannings
  BY DEF Scan, Scannings, Ats
<1>2. i \in Nat /\ cs[i] \in Component
  OBVIOUS
<1>3. st.base \in {"root", "private", "privvar"} /\ st.depth \in Nat /\ (st.at = "other" => st.depth # 0) /\ st.named \in BOOLEAN
      /\ st.at \in Ats /\ st.sub \in Seq(Component) /\ st.from \in Nat /\ st.dotdot \in Nat
  BY DEF Scannings
<1>4. st.at \in {"root", "private", "privvar"} => AtBase(st.at, cs[i], i) \in Scannings
  <2> DEFINE b == st.at
  <2>0. <<"tmp">> \in Seq(Component) /\ <<"var", "tmp">> \in Seq(Component)
    BY DEF FsNames
  <2> SUFFICES ASSUME b \in {"root", "private", "privvar"} PROVE AtBase(b, cs[i], i) \in Scannings
    OBVIOUS
  <2> HIDE DEF b
  <2>1. CASE cs[i] = ".."
    BY <2>1, <1>1 DEF AtBase, BaseParent
  <2>2. CASE cs[i] # ".." /\ cs[i] = "private" /\ b = "root"
    BY <2>2, <1>1 DEF AtBase
  <2>3. CASE cs[i] # ".." /\ cs[i] = "var" /\ b # "privvar"
    BY <2>3, <1>1 DEF AtBase
  <2>4. CASE cs[i] = "tmp"
    <3> DEFINE base == IF b = "privvar" THEN b ELSE "private"
               sub == IF b = "privvar" THEN <<"var", "tmp">> ELSE <<"tmp">>
    <3>1. AtBase(b, cs[i], i) = [Scan("temp") EXCEPT !.base = base, !.sub = sub, !.from = i]
      BY <2>4 DEF AtBase
    <3>2. base \in {"root", "private", "privvar"} /\ sub \in Seq(Component)
      BY <2>0
    <3> HIDE DEF base, sub
    <3>3. AtBase(b, cs[i], i) = [at |-> "temp", base |-> base, sub |-> sub, from |-> i,
                                 depth |-> 0, named |-> FALSE, dotdot |-> 0]
      BY <3>1 DEF Scan
    <3> QED BY <3>3, <3>2, <1>2 DEF Scannings, Ats
  <2>5. CASE /\ cs[i] # ".." /\ ~(cs[i] = "private" /\ b = "root")
             /\ ~(cs[i] = "var" /\ b # "privvar") /\ cs[i] # "tmp"
    <3>1. AtBase(b, cs[i], i) = [Scan("other") EXCEPT !.base = b, !.depth = 1]
      BY <2>5 DEF AtBase
    <3>2. AtBase(b, cs[i], i) = [at |-> "other", base |-> b, sub |-> <<>>, from |-> 0,
                                 depth |-> 1, named |-> FALSE, dotdot |-> 0]
      BY <3>1 DEF Scan
    <3> QED BY <3>2 DEF Scannings, Ats
  <2> QED BY <2>1, <2>2, <2>3, <2>4, <2>5
<1>5. st.at = "temp" => AtTemp(st, cs[i], i) \in Scannings
  <2>1. Scan(st.base) \in Scannings
    BY <1>1, <1>3
  <2>2. [st EXCEPT !.at = "escape", !.dotdot = i] \in Scannings
    BY <1>2 DEF Scannings, Ats
  <2>3. st.at = "temp" /\ st.depth # 0 => [st EXCEPT !.depth = @ - 1] \in Scannings
    <3> SUFFICES ASSUME st.at = "temp", st.depth # 0 PROVE [st EXCEPT !.depth = @ - 1] \in Scannings
      OBVIOUS
    <3>1. st.depth - 1 \in Nat
      BY <1>3
    <3> QED BY <3>1, <1>3 DEF Scannings
  <2>4. [st EXCEPT !.depth = @ + 1, !.named = TRUE] \in Scannings
    <3>1. st.depth + 1 \in Nat \ {0}
      BY <1>3
    <3> QED BY <3>1, <1>3 DEF Scannings
  <2> SUFFICES ASSUME st.at = "temp" PROVE AtTemp(st, cs[i], i) \in Scannings
    OBVIOUS
  <2>5. \/ AtTemp(st, cs[i], i) = [st EXCEPT !.at = "escape", !.dotdot = i]
        \/ AtTemp(st, cs[i], i) = Scan(st.base)
        \/ AtTemp(st, cs[i], i) = [st EXCEPT !.depth = @ - 1] /\ st.depth # 0
        \/ AtTemp(st, cs[i], i) = [st EXCEPT !.depth = @ + 1, !.named = TRUE]
    <3> DEFINE c == cs[i]
    <3>1. \/ c = ".." /\ st.depth = 0 /\ st.named
          \/ c = ".." /\ st.depth = 0 /\ ~st.named
          \/ c = ".." /\ st.depth # 0
          \/ c # ".."
      BY <1>3
    <3>2. CASE c = ".." /\ st.depth = 0 /\ st.named
      <4>1. AtTemp(st, cs[i], i) = [st EXCEPT !.at = "escape", !.dotdot = i]
        BY <3>2 DEF AtTemp
      <4> QED BY <4>1
    <3>3. CASE c = ".." /\ st.depth = 0 /\ ~st.named
      <4>1. AtTemp(st, cs[i], i) = Scan(st.base)
        BY <3>3 DEF AtTemp
      <4> QED BY <4>1
    <3>4. CASE c = ".." /\ st.depth # 0
      <4>1. AtTemp(st, cs[i], i) = [st EXCEPT !.depth = @ - 1]
        BY <3>4 DEF AtTemp
      <4> QED BY <4>1, <3>4
    <3>5. CASE c # ".."
      <4>1. AtTemp(st, cs[i], i) = [st EXCEPT !.depth = @ + 1, !.named = TRUE]
        BY <3>5 DEF AtTemp
      <4> QED BY <4>1
    <3> HIDE DEF c
    <3> QED BY <3>1, <3>2, <3>3, <3>4, <3>5
  <2> QED BY <2>1, <2>2, <2>3, <2>4, <2>5
<1>6. st.at = "other" => \A rest : AtOther(st, cs[i], i, rest) \in Scannings
  <2>1. Scan(st.base) \in Scannings
    BY <1>1, <1>3
  <2>2. [st EXCEPT !.at = "escape", !.dotdot = i] \in Scannings
    BY <1>2 DEF Scannings, Ats
  <2>3. st.depth \notin {0, 1} => [st EXCEPT !.depth = @ - 1] \in Scannings
    <3> SUFFICES ASSUME st.depth \notin {0, 1} PROVE [st EXCEPT !.depth = @ - 1] \in Scannings
      OBVIOUS
    <3>1. st.depth - 1 \in Nat \ {0}
      BY <1>3
    <3> QED BY <3>1, <1>3 DEF Scannings
  <2>4. [st EXCEPT !.depth = @ + 1] \in Scannings
    <3>1. st.depth + 1 \in Nat \ {0}
      BY <1>3
    <3> QED BY <3>1, <1>3 DEF Scannings
  <2> SUFFICES ASSUME st.at = "other", NEW rest PROVE AtOther(st, cs[i], i, rest) \in Scannings
    OBVIOUS
  <2>5. st.depth # 0
    BY <1>3
  <2>6. \/ AtOther(st, cs[i], i, rest) = [st EXCEPT !.at = "escape", !.dotdot = i]
        \/ AtOther(st, cs[i], i, rest) = Scan(st.base)
        \/ AtOther(st, cs[i], i, rest) = [st EXCEPT !.depth = @ - 1] /\ st.depth # 1
        \/ AtOther(st, cs[i], i, rest) = [st EXCEPT !.depth = @ + 1]
    <3> DEFINE c == cs[i]
               more == "tmp" \in ToSet(rest)
    <3>1. \/ c = ".." /\ more
          \/ c = ".." /\ ~more /\ st.depth = 1
          \/ c = ".." /\ ~more /\ st.depth # 1
          \/ c # ".."
      OBVIOUS
    <3> HIDE DEF more
    <3>2. CASE c = ".." /\ more
      <4>1. AtOther(st, cs[i], i, rest) = [st EXCEPT !.at = "escape", !.dotdot = i]
        BY <3>2 DEF AtOther, more
      <4> QED BY <4>1
    <3>3. CASE c = ".." /\ ~more /\ st.depth = 1
      <4>1. AtOther(st, cs[i], i, rest) = Scan(st.base)
        BY <3>3 DEF AtOther, more
      <4> QED BY <4>1
    <3>4. CASE c = ".." /\ ~more /\ st.depth # 1
      <4>1. AtOther(st, cs[i], i, rest) = [st EXCEPT !.depth = @ - 1]
        BY <3>4 DEF AtOther, more
      <4> QED BY <4>1, <3>4
    <3>5. CASE c # ".."
      <4>1. AtOther(st, cs[i], i, rest) = [st EXCEPT !.depth = @ + 1]
        BY <3>5 DEF AtOther
      <4> QED BY <4>1
    <3> HIDE DEF c
    <3> QED BY <3>1, <3>2, <3>3, <3>4, <3>5
  <2> QED BY <2>1, <2>2, <2>3, <2>4, <2>5, <2>6
<1>7. st.at \in {"root", "private", "privvar"} \/ st.at \in {"temp", "other", "escape"}
  BY <1>3 DEF Ats
<1> QED
  BY <1>4, <1>5, <1>6, <1>7 DEF ScanTo

\* So is a scan.
LEMMA ScannedIs ==
    ASSUME FsNames, NEW cs \in Seq(Component)
    PROVE  Scanned(cs) \in Scannings
<1> DEFINE n == Len(cs)
           D == 0..n
           V == Scannings
           H(i, f) == IF i = 0 THEN Scan("root") ELSE ScanTo(cs, i, f[i - 1])
           P(f) == f = [i \in D |-> H(i, f)]
           R == CHOOSE f : P(f)
<1>1. n \in Nat /\ Scan("root") \in V
  BY DEF Scan, Scannings, Ats
<1>2. \A i \in 1..n, st \in V : ScanTo(cs, i, st) \in V
  BY ScanToIs
<1>3. \E f \in [D -> V] : \A i \in D : f[i] = H(i, f)
  <2> DEFINE a == [i \in D |-> i]
             b == [i \in D |-> 0]
             W == [i \in D |-> V]
             F == {f \in [D -> V] : \A i \in D : f[i] \in W[i]}
             G == [i \in D |-> [f \in F |-> H(i, f)]]
  <2>0. \A i \in D : i # 0 => i - 1 \in D /\ i \in 1..n /\ Lower(a, b, i - 1, i)
    BY <1>1 DEF Lower
  <2>1. \A i \in D, f \in F : H(i, f) \in V
    <3> HIDE DEF V, n, a, b
    <3> QED BY <1>1, <1>2, <2>0
  <2>2. a \in [D -> Nat] /\ b \in [D -> Nat]
    BY <1>1
  <2>3. W \in [D -> SUBSET V] /\ \A i \in D : W[i] # {}
    <3> HIDE DEF V
    <3> QED BY <1>1
  <2>4. G \in [D -> [F -> V]] /\ \A i \in D, f \in F : G[i][f] \in W[i]
    <3> HIDE DEF F, V, D, H
    <3> QED BY <2>1
  <2>5. \A i \in D, f, g \in F :
          (\A j \in D : Lower(a, b, j, i) => f[j] = g[j]) => G[i][f] = G[i][g]
    <3> TAKE i \in D, f \in F, g \in F
    <3> HAVE \A j \in D : Lower(a, b, j, i) => f[j] = g[j]
    <3> HIDE DEF F, D, a, b
    <3>2. H(i, f) = H(i, g)
      BY <2>0
    <3> HIDE DEF H
    <3> QED BY <3>2
  <2> HIDE DEF G, W, a, b, D, V, H
  <2>6. \E f \in F : \A i \in D : f[i] = G[i][f]
    <3>1. Recurses(D, a, b, V, W, F, G)
      BY <2>2, <2>3, <2>4, <2>5 DEF Recurses
    <3> HIDE DEF F
    <3> QED BY <3>1, RecursionExists
  <2>7. \A f \in F : f \in [D -> V]
    BY DEF F
  <2> HIDE DEF F
  <2>8. \A f \in F, i \in D : G[i][f] = H(i, f)
    BY DEF G
  <2> QED BY <2>6, <2>7, <2>8
<1> HIDE DEF D, V
<1>4. \E f : P(f)
  <2>1. PICK f \in [D -> V] : \A i \in D : f[i] = H(i, f)
    BY <1>3
  <2> HIDE DEF H
  <2> QED BY <2>1
<1>5. P(R)
  <2> HIDE DEF P
  <2> QED BY <1>4, Zenon
<1>6. Scanned(cs) = R[n]
  BY DEF Scanned, D
<1> HIDE DEF R
<1>7. \A i \in D : R[i] = H(i, R)
  <2> HIDE DEF H
  <2> QED BY <1>5
<1> HIDE DEF P
<1> DEFINE T == {i \in D : R[i] \in V}
<1>8. Climbs(n, T)
  <2>1. 0 \in T
    BY <1>1, <1>7 DEF D
  <2>2. \A i \in 1..n : i - 1 \in T => i \in T
    <3> TAKE i \in 1..n
    <3>1. i \in D /\ i # 0
      BY <1>1 DEF D
    <3> QED BY <3>1, <1>2, <1>7
  <2> HIDE DEF T
  <2> QED BY <1>1, <2>1, <2>2 DEF Climbs
<1>9. 0..n \subseteq T
  <2> HIDE DEF T
  <2> QED BY <1>8, UpToInduction
<1>10. n \in T
  BY <1>1, <1>9
<1> QED
  BY <1>6, <1>10 DEF V

\* A target is stored as a path, whatever it is.
LEMMA StoredIs ==
    ASSUME FsNames, NEW t \in Path
    PROVE  Stored(t) \in Path
<1> DEFINE x == ScanOf(t, FALSE)
           st == Scanned(t.comps)
           M(y) == Mapped(m, FALSE, y, <<>>)
           P(f) == f = [y \in Scans |-> Mapped(m, FALSE, y, f)]
           R == CHOOSE f : P(f)
<1>1. \A y, f : Mapped(m, FALSE, y, f) = M(y)
  BY DEF Mapped, KernelFullPath
<1>2. \E f : P(f)
  <2> DEFINE f == [y \in Scans |-> M(y)]
  <2>1. P(f)
    <3> HIDE DEF M
    <3> QED BY <1>1
  <2> QED BY <2>1
<1>3. P(R)
  <2> HIDE DEF P
  <2> QED BY <1>2, Zenon
<1>4. MapFrom(m, FALSE, t) = R[x]
  BY DEF MapFrom
<1>5. x \in Scans /\ x.q = t /\ x.rewritten = FALSE
  BY DEF Scans, ScanOf
<1>6. MapFrom(m, FALSE, t) = M(x)
  <2> HIDE DEF R, M, x
  <2> QED BY <1>1, <1>3, <1>4, <1>5
<1>7. st \in Scannings /\ t.comps \in Seq(Component)
  BY ScannedIs DEF Path
<1>8. Root \in Seq(Component)
  BY DEF FsNames
<1> DEFINE to == [t EXCEPT !.comps = (IF st.from > 0 THEN Root \o st.sub ELSE <<>>)
                                     \o SubSeq(t.comps, st.from + 1, Len(t.comps))]
<1>9. M(x) \in {Result("to", to), Result("same", t), Result("unresolved", t)}
  <2> HIDE DEF x, to, st
  <2> QED BY <1>5, <1>7 DEF Mapped, to, st, KernelFullPath, Result, Scannings, Ats
<1>10. to \in Path
  <2>1. \A cs \in Seq(Component), i \in Nat : SubSeq(cs, i + 1, Len(cs)) \in Seq(Component)
    OBVIOUS
  <2>2. \A cs, ds \in Seq(Component) : cs \o ds \in Seq(Component)
    OBVIOUS
  <2>3. st.sub \in Seq(Component) /\ st.from \in Nat
    BY <1>7 DEF Scannings
  <2> HIDE DEF st
  <2> DEFINE below == IF st.from > 0 THEN Root \o st.sub ELSE <<>>
             rest == SubSeq(t.comps, st.from + 1, Len(t.comps))
  <2>4. below \in Seq(Component) /\ rest \in Seq(Component)
    BY <1>7, <1>8, <2>1, <2>2, <2>3
  <2> HIDE DEF below, rest
  <2>5. below \o rest \in Seq(Component)
    BY <2>2, <2>4
  <2>6. to = [t EXCEPT !.comps = below \o rest]
    BY DEF below, rest
  <2> QED BY <2>5, <2>6 DEF Path
<1> HIDE DEF M, x, to
<1>11. MapTarget(m, t).path \in Path
  <2>1. MapWith(m, FALSE, t) \in {Result("to", to), Result("same", t), Result("unresolved", t)}
    BY <1>6, <1>9 DEF MapWith
  <2>2. \A r : r \in {Result("to", to), Result("same", t), Result("unresolved", t)} =>
               (IF r.is = "unresolved" THEN Result("same", t) ELSE r).path \in Path
    BY <1>10 DEF Result
  <2> QED BY <2>1, <2>2 DEF MapTarget
<1> QED
  BY <1>11 DEF Stored

-----------------------------------------------------------------------------
(* FsDriver: the model stays one tree                                      *)

\* The tree of the model is the one of module FsTree.
LEMMA TreesAlike ==
    /\ \A t : Edits!OneTree(t) <=> OneTree(t)
    /\ \A t, u : Edits!Edit(t, u) <=> Edit(t, u)
<1>1. \A t : Edits!OneTree(t) <=> OneTree(t)
  BY DEF OneTree, TreeTypeOK, Rooted, RootedBy, Named, RemovedAreEmpty, Entry, Top,
         Edits!OneTree, Edits!TreeTypeOK, Edits!Rooted, Edits!RootedBy, Edits!Named,
         Edits!RemovedAreEmpty, Edits!Entry, Edits!Top
<1>2. \A t, u : Edits!Edit(t, u) <=> Edit(t, u)
  BY DEF Edit, NodeMade, NameRemoved, NodeMoved, Live, At, Under, Entry, Replaces, AboveMoved,
         Edits!Edit, Edits!NodeMade, Edits!NameRemoved, Edits!NodeMoved, Edits!Live, Edits!At,
         Edits!Under, Edits!Entry, Edits!Replaces, Edits!AboveMoved
<1> QED
  BY <1>1, <1>2

\* Both first models are in order, and nothing is removed yet.
LEMMA FirstIsSound == FsInit => Sound(m) /\ TreeOf(m).dead = {}
<1> SUFFICES ASSUME FsInit PROVE Sound(m) /\ TreeOf(m).dead = {}
  OBVIOUS
<1>1. PICK mac \in BOOLEAN : m = New(mac)
  BY DEF FsInit, Macs
<1>2. mac = TRUE \/ mac = FALSE
  OBVIOUS
<1> QED
  BY <1>1, <1>2, FsBounds, FsNames, MacSound, LinuxSound

\* Every call of the driver keeps the model in order and edits its tree.
LEMMA CallsKeep == Sound(m) /\ [FsNext]_fsVars => Keeps(m, m')
<1> SUFFICES ASSUME Sound(m), [FsNext]_fsVars PROVE Keeps(m, m')
  OBVIOUS
<1>0. MaxLen \in Nat
  BY FsBounds DEF FsBounds
<1>p. Paths \subseteq Path /\ Targets \subseteq Path
  BY FsNames DEF FsNames
<1>1. ASSUME NEW fd, NEW p \in Paths, DoMkdir(fd, p) PROVE Keeps(m, m')
  BY <1>1, <1>p, FsBounds, FsNames, MkdirKeeps DEF Grows, DoMkdir, Takes
<1>2. ASSUME NEW fd, NEW p \in Paths, DoOpen(fd, p) PROVE Keeps(m, m')
  <2>1. PICK flags \in Flags : Takes(Open(m, fd, p, flags))
    BY <1>2 DEF DoOpen
  <2>2. Grows(m, Open(m, fd, p, flags).model)
    BY <1>p, FsBounds, FsNames, OpenKeeps
  <2> QED BY <2>1, <2>2 DEF Grows, Takes
<1>3. ASSUME NEW fd, NEW p \in Paths, DoUnlink(fd, p) PROVE Keeps(m, m')
  BY <1>3, <1>p, FsNames, UnlinkKeeps DEF DoUnlink, Takes
<1>4. ASSUME NEW p \in Paths, DoSymlink(p) PROVE Keeps(m, m')
  <2>1. PICK t \in Targets : Takes(Symlink(m, Stored(t), p))
    BY <1>4 DEF DoSymlink
  <2>2. Stored(t) \in Path /\ p \in Path
    BY <1>p, FsNames, StoredIs
  <2>3. Keeps(m, Symlink(m, Stored(t), p).model)
    BY <2>2, FsBounds, FsNames, SymlinkKeeps DEF Grows
  <2> QED BY <2>1, <2>3 DEF Takes
<1>5. ASSUME NEW p \in Paths, DoBind(p) PROVE Keeps(m, m')
  BY <1>5, <1>p, FsBounds, FsNames, BindKeeps DEF Grows, DoBind, Takes
<1>6. ASSUME NEW p \in Paths, DoRename(p) PROVE Keeps(m, m')
  BY <1>6, <1>p, FsNames, RenameKeeps DEF DoRename, Takes
<1>7. ASSUME NEW p \in Paths, DoOpenDir(p) PROVE Keeps(m, m')
  BY <1>7, <1>p, FsBounds, FsNames, OpenDirKeeps DEF Grows, DoOpenDir, Takes
<1>8. ASSUME NEW p \in Paths, DoChdir(p) PROVE Keeps(m, m')
  BY <1>8, <1>p, FsNames, ChdirKeeps DEF Grows, DoChdir, Takes
<1>9. ASSUME NEW name \in Names, DoMkstemp(name) PROVE Keeps(m, m')
  <2>1. PICK p \in Paths : Len(p.comps) = 1 /\ name = LastOf(p)
    BY DEF Names
  <2>2. p.comps \in Seq(Component) /\ Len(p.comps) = 1
    BY <2>1, <1>p DEF Path
  <2>3. name \in Component
    BY <2>1, <2>2 DEF LastOf
  <2> QED BY <2>3, <1>9, FsBounds, MkstempKeeps DEF Grows, DoMkstemp, Takes
<1>10. ASSUME NEW fd, DoWrite(fd) PROVE Keeps(m, m')
  <2>1. fd \in DOMAIN m.fds => m.fds[fd].pos + 1 <= MaxLen
    <3> SUFFICES ASSUME fd \in DOMAIN m.fds PROVE m.fds[fd].pos + 1 <= MaxLen
      OBVIOUS
    <3>1. m.fds[fd].pos \in 0..MaxLen
      BY DEF Sound, ModelOK
    <3>2. m.fds[fd].pos < MaxLen
      BY <1>10 DEF DoWrite
    <3> QED BY <3>1, <3>2, <1>0
  <2>2. Keeps(m, Write(m, fd, 1).model)
    BY <2>1, <1>0, WriteKeeps DEF Grows
  <2> QED BY <2>2, <1>10 DEF DoWrite, Takes
<1>11. ASSUME NEW fd, DoRead(fd) PROVE Keeps(m, m')
  BY <1>0, <1>11, ReadKeeps DEF Grows, DoRead, Takes
<1>12. ASSUME NEW fd, DoClose(fd) PROVE Keeps(m, m')
  BY <1>12, CloseKeeps DEF Grows, DoClose, Takes
<1>13. ASSUME UNCHANGED fsVars PROVE Keeps(m, m')
  BY <1>13, SameKeeps DEF Grows, fsVars
<1> QED
  BY <1>1, <1>2, <1>3, <1>4, <1>5, <1>6, <1>7, <1>8, <1>9, <1>10, <1>11, <1>12, <1>13 DEF FsNext

\* So a model in order stays in order.
LEMMA SoundIsKept == Sound(m) /\ [FsNext]_fsVars => Sound(m)'
BY CallsKeep DEF Keeps

\* The model stays one tree through every sequence of calls, whatever the names,
\* paths, links and slashes and however many nodes: is_descendant and
\* is_detached end, a name is where its node's parent is, and a directory that
\* lost its name is dead and empty, although a descriptor or the current
\* directory may still be on it.
THEOREM ModelIsATree == FsSpec => []TreeSound
<1>1. FsInit => Sound(m)
  BY FirstIsSound
<1>2. Sound(m) /\ [FsNext]_fsVars => Sound(m)'
  BY SoundIsKept
<1>3. Sound(m) => TreeSound
  BY TreesAlike DEF TreeSound, Sound
<1> QED
  BY <1>1, <1>2, <1>3, PTL DEF FsSpec

\* The calls implement the tree: each one that Model::apply answers makes a
\* node in a live directory, removes a name, moves one to a live directory that
\* is not below it, or leaves the tree alone.
THEOREM CallsEditATree == FsSpec => EditsOfATree
<1>1. FsInit => Sound(m) /\ Edits!TreeInit
  BY FirstIsSound, TreesAlike DEF Edits!TreeInit, Sound
<1>2. Sound(m) /\ [FsNext]_fsVars => Sound(m)'
  BY SoundIsKept
<1>3. Sound(m) /\ [FsNext]_fsVars => [Edits!TreeNext]_(TreeOf(m))
  <2> SUFFICES ASSUME Sound(m), [FsNext]_fsVars PROVE [Edits!TreeNext]_(TreeOf(m))
    OBVIOUS
  <2>1. Keeps(m, m')
    BY CallsKeep
  <2>2. Edit(TreeOf(m), TreeOf(m)') \/ TreeOf(m)' = TreeOf(m)
    BY <2>1 DEF Keeps
  <2> QED BY <2>2, TreesAlike DEF Edits!TreeNext
<1> QED
  BY <1>1, <1>2, <1>3, PTL DEF FsSpec, EditsOfATree, Edits!TreeSpec

-----------------------------------------------------------------------------
(* FsDriver: what names lead to                                            *)

\* The host's own temp directories are out of reach of every process of a
\* workspace, whatever it links, moves and removes: no lookup ends on one of
\* them (resolve enters what is mounted there, follow_symlink too).
THEOREM HostTempIsOutOfReach == FsSpec => []NoHostTemp
<1>1. FsInit => Sound(m)
  BY FirstIsSound
<1>2. Sound(m) /\ [FsNext]_fsVars => Sound(m)'
  BY SoundIsKept
<1>3. Sound(m) => NoHostTemp
  <2> SUFFICES ASSUME Sound(m), NEW p \in Probes, FromCwd(m, p, TRUE).err = "ok"
               PROVE  m.nodes[FromCwd(m, p, TRUE).node].over = 0
    BY DEF NoHostTemp
  <2>1. p \in Path /\ m.cwd \in DOMAIN m.nodes
    BY FsNames DEF FsNames, Sound, Plain, Clear
  <2>2. FromCwd(m, p, TRUE) = Lookup(m, "virtual", m.cwd, p, TRUE, 0)
    BY DEF FromCwd, Resolve
  <2>3. Clear(m, FromCwd(m, p, TRUE).node)
    BY <2>1, <2>2, FsNames, LookupFinds
  <2> QED BY <2>3 DEF Clear
<1> QED
  BY <1>1, <1>2, <1>3, PTL DEF FsSpec

-----------------------------------------------------------------------------
(* FsModel: walks with a final slash, and walks of one name more           *)

\* Every node that holds something or is entered is a directory, and so is the
\* parent of every node.
LEMMA TurnsToDirs ==
    ASSUME NEW s, Sound(s), NEW view, NEW n \in DOMAIN s.nodes
    PROVE  /\ IsDir(s, Enter(s, view, n)) <=> IsDir(s, n)
           /\ IsDir(s, Up(s, view, n))
           /\ IsDir(s, n) => \A p : IsDir(s, Origin(s, view, n, p))
           /\ IsDir(s, s.cwd) /\ IsDir(s, RootNode)
<1>1. /\ RootNode \in DOMAIN s.nodes /\ \A x \in DOMAIN s.nodes : NodePlain(s, s.nodes[x])
      /\ DOMAIN s.nodes = 1..Len(s.nodes) /\ Len(s.nodes) \in Nat
  BY NodesAre
<1>2. IsDir(s, RootNode) /\ IsDir(s, s.cwd)
  BY DEF Sound, Plain, Seat, ModelOK
<1>3. \A x \in DOMAIN s.nodes : IsDir(s, Enter(s, view, x)) <=> IsDir(s, x)
  BY <1>1 DEF Enter, NodePlain, Seat, IsDir, Kind
<1> DEFINE t == TreeOf(s)
           k == Len(s.nodes)
<1>t. /\ t.count = k /\ t.up[n] = s.nodes[n].up /\ TreeTypeOK(t)
      /\ RootedBy(t.count, t.dirs, t.up, t.above)
      /\ \A x \in 1..k : x \in t.dirs <=> IsDir(s, x)
  <2>1. t.count = k /\ t.up = [x \in 1..k |-> s.nodes[x].up]
        /\ \A x \in 1..k : x \in t.dirs <=> IsDir(s, x)
    BY TreeIs DEF Sound
  <2>2. TreeTypeOK(t) /\ RootedBy(t.count, t.dirs, t.up, t.above)
    BY DEF Sound, OneTree, Rooted
  <2> HIDE DEF t
  <2> QED BY <1>1, <2>1, <2>2
<1> HIDE DEF t
<1>4. IsDir(s, Up(s, view, n))
  <2>1. CASE view = "virtual" /\ s.nodes[n].vup # 0
    BY <2>1, <1>1 DEF Up, NodePlain, Seat
  <2>2. CASE ~(view = "virtual" /\ s.nodes[n].vup # 0) /\ n = RootNode
    <3>1. s.nodes[n].up = 0
      BY <2>2, <1>t DEF RootedBy, RootNode, Top
    <3> QED BY <2>2, <3>1, <1>2 DEF Up
  <2>3. CASE ~(view = "virtual" /\ s.nodes[n].vup # 0) /\ n # RootNode
    <3>4. n \in 2..k
      BY <1>1, <2>3 DEF RootNode
    <3>5. s.nodes[n].up \in t.dirs
      BY <1>t, <3>4 DEF RootedBy
    <3>6. s.nodes[n].up \in 1..k
      BY <3>5, <1>t DEF TreeTypeOK
    <3>7. IsDir(s, s.nodes[n].up) /\ s.nodes[n].up # 0
      BY <3>5, <3>6, <1>t
    <3> QED BY <3>7, <2>3 DEF Up
  <2> QED BY <2>1, <2>2, <2>3
<1>5. IsDir(s, n) => \A p : IsDir(s, Origin(s, view, n, p))
  BY <1>1, <1>2, <1>3 DEF Origin
<1> QED
  BY <1>2, <1>3, <1>4, <1>5

\* Two walks that are at the same name, and both to follow a link there, find
\* the same.
LEMMA NextAlike ==
    ASSUME NEW s, NEW view, NEW x, NEW y, NEW on, x.cur = y.cur, x.links = y.links,
           Head(x.cs) = Head(y.cs), Tail(x.cs) # <<>> \/ x.slash \/ x.last,
           Tail(y.cs) # <<>> \/ y.slash \/ y.last
    PROVE  NextNode(s, view, x, on) = NextNode(s, view, y, on)
BY DEF NextNode, Through

\* The walk to the directory: with a final slash.
AsDir(x) == WalkOf(x.cur, x.cs, TRUE, TRUE, x.links)
\* The walk of one component more.
Further(x, c, last, slash) == WalkOf(x.cur, Append(x.cs, c), last, slash, x.links)

LEMMA AppendIs ==
    ASSUME NEW cs \in Seq(Component), NEW c \in Component
    PROVE  /\ Append(cs, c) \in Seq(Component) /\ Append(cs, c) # <<>>
           /\ cs # <<>> => /\ Head(Append(cs, c)) = Head(cs) /\ Tail(Append(cs, c)) = Append(Tail(cs), c)
                           /\ Tail(Append(cs, c)) # <<>>
           /\ cs = <<>> => Append(cs, c) = <<c>>
           /\ Head(<<c>>) = c /\ Tail(<<c>>) = <<>> /\ <<c>> # <<>> /\ <<c>> \in Seq(Component)
<1>1. /\ Append(cs, c) \in Seq(Component) /\ Append(cs, c) # <<>>
      /\ cs # <<>> => Tail(cs) \in Seq(Component)
  OBVIOUS
<1>2. /\ Head(Append(cs, c)) = IF cs = <<>> THEN c ELSE Head(cs)
      /\ Tail(Append(cs, c)) = IF cs = <<>> THEN <<>> ELSE Append(Tail(cs), c)
  BY HeadTailAppend
<1>3. cs # <<>> => Append(Tail(cs), c) # <<>>
  <2>1. \A r \in Seq(Component) : Append(r, c) # <<>>
    OBVIOUS
  <2> QED BY <1>1, <2>1
<1>4. Head(<<c>>) = c /\ Tail(<<c>>) = <<>> /\ <<c>> # <<>> /\ <<c>> \in Seq(Component)
  OBVIOUS
<1>5. cs = <<>> => Append(cs, c) = <<c>>
  OBVIOUS
<1> QED
  BY <1>1, <1>2, <1>3, <1>4, <1>5

LEMMA AsDirIs ==
    ASSUME FsNames, NEW s, Sound(s), NEW x \in Walks(s)
    PROVE  /\ AsDir(x) \in Walks(s) /\ AsDir(x).cur = x.cur /\ AsDir(x).cs = x.cs
           /\ AsDir(x).last /\ AsDir(x).slash /\ AsDir(x).links = x.links
           /\ \A c \in Component, last, slash \in BOOLEAN :
                /\ Further(x, c, last, slash) \in Walks(s)
                /\ Further(x, c, last, slash).cur = x.cur
                /\ Further(x, c, last, slash).cs = Append(x.cs, c)
                /\ Further(x, c, last, slash).last = last
                /\ Further(x, c, last, slash).slash = slash
                /\ Further(x, c, last, slash).links = x.links
<1>1. x.cur \in DOMAIN s.nodes /\ x.cs \in Seq(Component) /\ x.links \in Nat
  BY WalkParts
<1>2. AsDir(x) \in Walks(s)
  BY <1>1 DEF AsDir, WalkOf, Walks
<1>3. ASSUME NEW c \in Component, NEW last \in BOOLEAN, NEW slash \in BOOLEAN
      PROVE  /\ Further(x, c, last, slash) \in Walks(s)
             /\ Further(x, c, last, slash).cs = Append(x.cs, c)
  <2>1. Append(x.cs, c) \in Seq(Component)
    BY <1>1, AppendIs
  <2> QED BY <1>1, <2>1 DEF Further, WalkOf, Walks
<1> QED
  BY <1>2, <1>3 DEF AsDir, Further, WalkOf

\* Asked to end in a directory, a walk through all links finds the same node, if
\* that is one.
EndsInDir(s, r) == IF r.err = "ok" /\ ~IsDir(s, r.node) THEN Lost("ENOTDIR", r.links) ELSE r
LEMMA AsDirFinds ==
    ASSUME FsNames, NEW s, Sound(s), NEW view, NEW x \in Walks(s), x.last, ~x.slash,
           IsDir(s, x.cur)
    PROVE  Walker(s, view)[AsDir(x)] = EndsInDir(s, Walker(s, view)[x])
<1> DEFINE on == Walker(s, view)
           T == {y \in Walks(s) : y.last /\ ~y.slash /\ IsDir(s, y.cur)
                                    => on[AsDir(y)] = EndsInDir(s, on[y])}
<1>1. ASSUME NEW y \in Walks(s), \A z \in Walks(s) : Sooner(z, y) => z \in T,
             y.last, ~y.slash, IsDir(s, y.cur)
      PROVE  on[AsDir(y)] = EndsInDir(s, on[y])
  <2> DEFINE d == AsDir(y)
  <2>1. /\ d \in Walks(s) /\ d.cur = y.cur /\ d.cs = y.cs /\ d.last /\ d.slash /\ d.links = y.links
    BY AsDirIs
  <2>2. y.cur \in DOMAIN s.nodes /\ y.links \in Nat /\ y.links >= y.links
    BY WalkParts
  <2>3. ASSUME y.cs # <<>>, NEW n \in DOMAIN s.nodes, NEW links \in Nat, links >= y.links,
               IsDir(s, n)
        PROVE  on[Onward(s, view, d, n, links)] = EndsInDir(s, on[Onward(s, view, y, n, links)])
    <3> DEFINE z == Onward(s, view, y, n, links)
    <3>1. /\ z \in Walks(s) /\ Sooner(z, y) /\ z.cur = Enter(s, view, n) /\ z.last = y.last
          /\ z.slash = y.slash
      BY <2>3, OnwardIs
    <3>2. IsDir(s, Enter(s, view, n))
      BY <2>3, TurnsToDirs
    <3>3. Onward(s, view, d, n, links) = AsDir(z)
      BY DEF Onward, WalkOf, AsDir
    <3> HIDE DEF z, on, d
    <3>4. z \in T
      BY <3>1, <1>1
    <3>5. on[AsDir(z)] = EndsInDir(s, on[z])
      BY <3>1, <3>2, <3>4, <1>1
    <3> QED BY <3>3, <3>5 DEF z
  <2>4. CASE y.cs = <<>>
    <3>1. on[y] = Found(y.cur, y.links) /\ on[d] = Found(d.cur, d.links)
      BY <2>1, <2>4, WalkerSteps
    <3>2. on[d] = on[y] /\ IsDir(s, on[y].node)
      BY <3>1, <2>1, <1>1, FoundIs
    <3> HIDE DEF on, d
    <3> QED BY <3>2 DEF EndsInDir, d
  <2>5. CASE y.cs # <<>> /\ Head(y.cs) = ".."
    <3> DEFINE n == Up(s, view, y.cur)
    <3>1. on[y] = on[Onward(s, view, y, n, y.links)] /\ on[d] = on[Onward(s, view, d, n, y.links)]
      BY <2>1, <2>5, WalkerSteps
    <3>2. n \in DOMAIN s.nodes /\ IsDir(s, n)
      BY <2>2, TurnsAre, TurnsToDirs
    <3> HIDE DEF on, d, n
    <3> QED BY <3>1, <3>2, <2>2, <2>3, <2>5 DEF d
  <2>6. CASE y.cs # <<>> /\ Head(y.cs) # ".." /\ ~Named1(s, y)
    <3>1. /\ \E e \in Errnos \ {"ok"} : on[y] = Lost(e, y.links)
          /\ ~Named1(s, d)
      <4>1. \E e \in Errnos \ {"ok"} : on[y] = Lost(e, y.links)
        BY <2>6, WalkerSteps
      <4> HIDE DEF d, on
      <4> QED BY <4>1, <2>1, <2>6 DEF Named1
    <3>2. on[y] = on[d]
      <4>1. on[y] = Walked(s, view, y, on) /\ on[d] = Walked(s, view, d, on)
        BY <2>1, WalkerIs
      <4> HIDE DEF on, d
      <4> QED BY <4>1, <2>1, <2>6, <3>1 DEF Walked, WalkedTo, Named1
    <3>3. on[y].err # "ok"
      BY <3>1, FoundIs
    <3> HIDE DEF on
    <3> QED BY <3>2, <3>3 DEF EndsInDir, d
  <2>7. CASE Named1(s, y)
    <3> DEFINE r == NextNode(s, view, y, on)
    <3>1. NextNode(s, view, d, on) = r /\ Named1(s, d)
      BY <2>1, <2>7, <1>1, NextAlike DEF Named1
    <3>2. /\ r \in Within(s, y) /\ (r.err # "ok" => on[y] = r)
          /\ r.err = "ok" /\ ~Suits(s, y, r.node) => on[y] = Lost("ENOTDIR", r.links)
          /\ r.err = "ok" /\ Suits(s, y, r.node) => on[y] = on[Onward(s, view, y, r.node, r.links)]
      BY <2>7, WalkerSteps
    <3>3. /\ r.err # "ok" => on[d] = r
          /\ r.err = "ok" /\ ~Suits(s, d, r.node) => on[d] = Lost("ENOTDIR", r.links)
          /\ r.err = "ok" /\ Suits(s, d, r.node) => on[d] = on[Onward(s, view, d, r.node, r.links)]
      <4>1. /\ NextNode(s, view, d, on).err # "ok" => on[d] = NextNode(s, view, d, on)
            /\ NextNode(s, view, d, on).err = "ok" /\ ~Suits(s, d, NextNode(s, view, d, on).node)
                 => on[d] = Lost("ENOTDIR", NextNode(s, view, d, on).links)
            /\ NextNode(s, view, d, on).err = "ok" /\ Suits(s, d, NextNode(s, view, d, on).node)
                 => on[d] = on[Onward(s, view, d, NextNode(s, view, d, on).node, NextNode(s, view, d, on).links)]
        BY <2>1, <3>1, WalkerSteps
      <4> HIDE DEF on, d, r
      <4> QED BY <4>1, <3>1
    <3> HIDE DEF on, d, r
    <3>4. r.err = "ok" => r.node \in DOMAIN s.nodes /\ r.links \in Nat /\ r.links >= y.links
      BY <3>2 DEF Within, Outcomes
    <3>5. Suits(s, d, r.node) <=> IsDir(s, r.node)
      BY <2>1 DEF Suits
    <3>6. Suits(s, y, r.node) <=> (Tail(y.cs) # <<>> => IsDir(s, r.node))
      BY <1>1 DEF Suits
    <3>7. CASE r.err # "ok"
      BY <3>7, <3>2, <3>3 DEF EndsInDir, d
    <3>8. CASE r.err = "ok" /\ IsDir(s, r.node)
      BY <3>8, <3>2, <3>3, <3>4, <3>5, <3>6, <2>3, <2>7 DEF Named1, d
    <3>9. CASE r.err = "ok" /\ ~IsDir(s, r.node) /\ Tail(y.cs) # <<>>
      <4>1. on[y] = Lost("ENOTDIR", r.links) /\ on[d] = Lost("ENOTDIR", r.links)
        BY <3>9, <3>2, <3>3, <3>5, <3>6
      <4>2. on[y].err # "ok"
        BY <4>1, FoundIs
      <4>3. EndsInDir(s, on[y]) = on[y]
        BY <4>2 DEF EndsInDir
      <4> QED BY <4>1, <4>3 DEF d
    <3>10. CASE r.err = "ok" /\ ~IsDir(s, r.node) /\ Tail(y.cs) = <<>>
      <4> DEFINE z == Onward(s, view, y, r.node, r.links)
      <4>1. z \in Walks(s) /\ z.cs = <<>> /\ z.cur = Enter(s, view, r.node) /\ z.links = r.links
        <5>1. y.cs # <<>>
          BY <2>7 DEF Named1
        <5>2. r.node \in DOMAIN s.nodes /\ r.links \in Nat /\ r.links >= y.links
          BY <3>4, <3>10
        <5> QED BY <5>1, <5>2, <3>10, OnwardIs
      <4>2. on[z] = Found(z.cur, z.links)
        BY <4>1, WalkerSteps DEF on
      <4>3. ~IsDir(s, Enter(s, view, r.node))
        BY <3>4, <3>10, TurnsToDirs
      <4>4. on[y] = on[z]
        BY <3>10, <3>2, <3>6
      <4> HIDE DEF z
      <4>5. on[y] = Found(Enter(s, view, r.node), r.links)
        BY <4>1, <4>2, <4>4
      <4>6. /\ Found(Enter(s, view, r.node), r.links).err = "ok"
            /\ Found(Enter(s, view, r.node), r.links).node = Enter(s, view, r.node)
            /\ Found(Enter(s, view, r.node), r.links).links = r.links
        BY FoundIs
      <4>7. EndsInDir(s, on[y]) = Lost("ENOTDIR", r.links)
        <5> DEFINE q == on[y]
        <5>1. q.err = "ok" /\ ~IsDir(s, q.node) /\ q.links = r.links
          BY <4>3, <4>5, <4>6
        <5> HIDE DEF q
        <5>2. EndsInDir(s, q) = Lost("ENOTDIR", r.links)
          BY <5>1 DEF EndsInDir
        <5> QED BY <5>2 DEF q
      <4>8. on[d] = Lost("ENOTDIR", r.links)
        BY <3>10, <3>3, <3>5
      <4> QED BY <4>7, <4>8 DEF d
    <3> QED BY <3>7, <3>8, <3>9, <3>10
  <2> QED BY <2>4, <2>5, <2>6, <2>7 DEF Named1
<1> HIDE DEF on
<1>2. Inherits(s, T)
  BY <1>1 DEF Inherits
<1>3. Walks(s) \subseteq T
  <2> HIDE DEF T
  <2> QED BY <1>2, WalkInduction
<1>4. x \in T
  <2> HIDE DEF T
  <2> QED BY <1>3
<1>5. on[AsDir(x)] = EndsInDir(s, on[x])
  BY <1>4
<1> QED
  BY <1>5 DEF on

\* A walk of one component more goes to the directory first.
Goes(s, on, r, c, last, slash) ==
    IF r.err # "ok" THEN r ELSE on[WalkOf(r.node, <<c>>, last, slash, r.links)]
LEMMA FurtherIs ==
    ASSUME FsNames, NEW s, Sound(s), NEW view, NEW x \in Walks(s), x.last, x.slash,
           NEW c \in Component, NEW last \in BOOLEAN, NEW slash \in BOOLEAN
    PROVE  Walker(s, view)[Further(x, c, last, slash)] =
             Goes(s, Walker(s, view), Walker(s, view)[x], c, last, slash)
<1> DEFINE on == Walker(s, view)
           F(y) == Further(y, c, last, slash)
           G(y) == Goes(s, on, on[y], c, last, slash)
           T == {y \in Walks(s) : y.last /\ y.slash => on[F(y)] = G(y)}
<1>1. ASSUME NEW y \in Walks(s), \A z \in Walks(s) : Sooner(z, y) => z \in T, y.last, y.slash
      PROVE  on[F(y)] = G(y)
  <2> DEFINE d == F(y)
  <2>1. /\ d \in Walks(s) /\ d.cur = y.cur /\ d.cs = Append(y.cs, c) /\ d.last = last
        /\ d.slash = slash /\ d.links = y.links
    BY AsDirIs
  <2>2. y.cur \in DOMAIN s.nodes /\ y.links \in Nat /\ y.links >= y.links /\ y.cs \in Seq(Component)
    BY WalkParts
  <2>0. /\ d.cs # <<>>
        /\ y.cs # <<>> => Head(d.cs) = Head(y.cs) /\ Tail(d.cs) = Append(Tail(y.cs), c) /\ Tail(d.cs) # <<>>
        /\ y.cs = <<>> => d.cs = <<c>>
    <3>1. /\ Append(y.cs, c) # <<>>
          /\ y.cs # <<>> => /\ Head(Append(y.cs, c)) = Head(y.cs)
                            /\ Tail(Append(y.cs, c)) = Append(Tail(y.cs), c)
                            /\ Tail(Append(y.cs, c)) # <<>>
          /\ y.cs = <<>> => Append(y.cs, c) = <<c>>
      BY <2>2, AppendIs
    <3> HIDE DEF d
    <3> QED BY <2>1, <3>1
  <2>3. ASSUME y.cs # <<>>, NEW n \in DOMAIN s.nodes, NEW links \in Nat, links >= y.links
        PROVE  on[Onward(s, view, d, n, links)] = G(Onward(s, view, y, n, links))
    <3> DEFINE z == Onward(s, view, y, n, links)
    <3>1. /\ z \in Walks(s) /\ Sooner(z, y) /\ z.cur = Enter(s, view, n) /\ z.last = y.last
          /\ z.slash = y.slash /\ z.cs = Tail(y.cs) /\ z.links = links
      BY <2>3, OnwardIs
    <3>3. Onward(s, view, d, n, links) = F(z)
      <4>1. Onward(s, view, d, n, links) = WalkOf(Enter(s, view, n), Tail(d.cs), d.last, d.slash, links)
        BY DEF Onward
      <4> HIDE DEF d, z
      <4> QED BY <2>0, <2>1, <2>3, <3>1, <4>1 DEF Further
    <3> HIDE DEF z, on, d, F, G
    <3>4. z \in T
      BY <3>1, <1>1
    <3>5. on[F(z)] = G(z)
      BY <3>1, <3>4, <1>1
    <3> QED BY <3>3, <3>5 DEF z
  <2>4. CASE y.cs = <<>>
    <3>1. on[y] = Found(y.cur, y.links)
      BY <2>4, WalkerSteps
    <3>2. on[y].err = "ok" /\ on[y].node = y.cur /\ on[y].links = y.links
      BY <3>1, FoundIs
    <3>3. d = WalkOf(y.cur, <<c>>, last, slash, y.links)
      BY <2>2, <2>4, AppendIs DEF Further
    <3> HIDE DEF on, d
    <3> QED BY <3>2, <3>3 DEF Goes, d
  <2>5. CASE y.cs # <<>> /\ Head(y.cs) = ".."
    <3> DEFINE n == Up(s, view, y.cur)
    <3>1. on[y] = on[Onward(s, view, y, n, y.links)] /\ on[d] = on[Onward(s, view, d, n, y.links)]
      <4>1. d \in Walks(s) /\ d.cs # <<>> /\ Head(d.cs) = ".." /\ d.cur = y.cur /\ d.links = y.links
        BY <2>0, <2>1, <2>5
      <4> HIDE DEF d, F, G
      <4> QED BY <4>1, <2>5, WalkerSteps
    <3>2. n \in DOMAIN s.nodes
      BY <2>2, TurnsAre
    <3> HIDE DEF on, d, n
    <3> QED BY <3>1, <3>2, <2>2, <2>3, <2>5 DEF d
  <2>6. CASE y.cs # <<>> /\ Head(y.cs) # ".." /\ ~Named1(s, y)
    <3>0. d.cs # <<>> /\ Head(d.cs) = Head(y.cs) /\ d.cur = y.cur /\ d.links = y.links
      BY <2>0, <2>1, <2>6
    <3>1. /\ \E e \in Errnos \ {"ok"} : on[y] = Lost(e, y.links)
          /\ ~Named1(s, d)
      <4>1. \E e \in Errnos \ {"ok"} : on[y] = Lost(e, y.links)
        BY <2>6, WalkerSteps
      <4> HIDE DEF d, F, G, on
      <4> QED BY <3>0, <4>1, <2>6 DEF Named1
    <3>2. on[y] = on[d]
      <4>1. on[y] = Walked(s, view, y, on) /\ on[d] = Walked(s, view, d, on)
        BY <2>1, WalkerIs
      <4> HIDE DEF on, d, F, G
      <4> QED BY <4>1, <2>0, <2>1, <2>6, <3>0, <3>1 DEF Walked, WalkedTo, Named1
    <3>3. on[y].err # "ok"
      BY <3>1, FoundIs
    <3> HIDE DEF on
    <3> QED BY <3>2, <3>3 DEF Goes
  <2>7. CASE Named1(s, y)
    <3> DEFINE r == NextNode(s, view, y, on)
    <3>0. y.cs # <<>>
      BY <2>7 DEF Named1
    <3>1. NextNode(s, view, d, on) = r /\ Named1(s, d)
      <4>1. Named1(s, d)
        BY <2>0, <2>1, <2>7, <3>0 DEF Named1
      <4>2. d.cur = y.cur /\ d.links = y.links /\ Head(d.cs) = Head(y.cs) /\ Tail(d.cs) # <<>>
        BY <2>0, <2>1, <3>0
      <4> HIDE DEF on, d
      <4> QED BY <4>1, <4>2, <1>1, NextAlike
    <3>2. /\ r \in Within(s, y) /\ (r.err # "ok" => on[y] = r)
          /\ r.err = "ok" /\ ~Suits(s, y, r.node) => on[y] = Lost("ENOTDIR", r.links)
          /\ r.err = "ok" /\ Suits(s, y, r.node) => on[y] = on[Onward(s, view, y, r.node, r.links)]
      BY <2>7, WalkerSteps
    <3>3. /\ r.err # "ok" => on[d] = r
          /\ r.err = "ok" /\ ~Suits(s, d, r.node) => on[d] = Lost("ENOTDIR", r.links)
          /\ r.err = "ok" /\ Suits(s, d, r.node) => on[d] = on[Onward(s, view, d, r.node, r.links)]
      <4>1. /\ NextNode(s, view, d, on).err # "ok" => on[d] = NextNode(s, view, d, on)
            /\ NextNode(s, view, d, on).err = "ok" /\ ~Suits(s, d, NextNode(s, view, d, on).node)
                 => on[d] = Lost("ENOTDIR", NextNode(s, view, d, on).links)
            /\ NextNode(s, view, d, on).err = "ok" /\ Suits(s, d, NextNode(s, view, d, on).node)
                 => on[d] = on[Onward(s, view, d, NextNode(s, view, d, on).node, NextNode(s, view, d, on).links)]
        BY <2>1, <3>1, WalkerSteps
      <4> HIDE DEF on, d, r
      <4> QED BY <4>1, <3>1
    <3> HIDE DEF on, d, r
    <3>4. r.err = "ok" => r.node \in DOMAIN s.nodes /\ r.links \in Nat /\ r.links >= y.links
      BY <3>2 DEF Within, Outcomes
    <3>5. Suits(s, d, r.node) <=> IsDir(s, r.node)
      BY <2>0, <2>1, <3>0 DEF Suits
    <3>6. Suits(s, y, r.node) <=> IsDir(s, r.node)
      BY <1>1 DEF Suits
    <3>7. CASE r.err # "ok"
      BY <3>7, <3>2, <3>3 DEF Goes, d
    <3>8. CASE r.err = "ok" /\ IsDir(s, r.node)
      <4>1. on[y] = on[Onward(s, view, y, r.node, r.links)]
            /\ on[d] = on[Onward(s, view, d, r.node, r.links)]
        BY <3>8, <3>2, <3>3, <3>5, <3>6
      <4>2. on[Onward(s, view, d, r.node, r.links)] = G(Onward(s, view, y, r.node, r.links))
        BY <3>8, <3>4, <3>0, <2>3
      <4> QED BY <4>1, <4>2 DEF d
    <3>9. CASE r.err = "ok" /\ ~IsDir(s, r.node)
      <4>1. on[y] = Lost("ENOTDIR", r.links) /\ on[d] = on[y]
        BY <3>9, <3>2, <3>3, <3>5, <3>6
      <4> QED BY <4>1, FoundIs DEF Goes, d
    <3> QED BY <3>7, <3>8, <3>9
  <2> QED BY <2>4, <2>5, <2>6, <2>7 DEF Named1
<1> HIDE DEF on, F, G
<1>2. Inherits(s, T)
  BY <1>1 DEF Inherits
<1>3. Walks(s) \subseteq T
  <2> HIDE DEF T
  <2> QED BY <1>2, WalkInduction
<1> QED
  BY <1>3 DEF on, F, G

=============================================================================
