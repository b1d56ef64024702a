------------------------------ MODULE FsProofs ------------------------------
(***************************************************************************)
(* TLAPS proofs about FsDriver, for any names, bounds and length of the    *)
(* run, and for links however they are chained.                            *)
(*                                                                         *)
(* Sound, of DirProofs, is inductive: the model stays one tree of nodes    *)
(* through every call.  So is Sound /\ Hosted: what stood first stands.    *)
(*                                                                         *)
(* Walks, chases and guards are recursive, and what is said of them for    *)
(* every path is proved along ranks that fall from call to call: the links *)
(* left, the names left, the nodes above (RankInduction of DirProofs).     *)
(***************************************************************************)
EXTENDS DirProofs

-----------------------------------------------------------------------------
(* FsDriver: one account of a state                                        *)

\* A lookup through links is one of the path's directory and one name more, or,
\* where the last component is ".", of the directory alone.
Splits(s, start, p) ==
    start \in DOMAIN s.nodes /\ p \in Path /\ p.comps # <<>> /\ ~IsEmptyPath(DirOf(p))
DirWalk(s, start, p) == LookupOf(s, "virtual", start, DirOf(p), TRUE, 0)
NameWalk(s, start, p) == LookupOf(s, "virtual", start, p, TRUE, 0)
LEMMA LookupSplits ==
    ASSUME FsNames, NEW s, Sound(s), NEW start, NEW p, Splits(s, start, p)
    PROVE  /\ DirWalk(s, start, p) \in Walks(s)
           /\ DirWalk(s, start, p).cur = Origin(s, "virtual", start, p)
           /\ DirWalk(s, start, p).cs = Real(DirOf(p))
           /\ DirWalk(s, start, p).last /\ DirWalk(s, start, p).slash = FALSE
           /\ LastOf(p) # "." =>
                NameWalk(s, start, p) = Further(DirWalk(s, start, p), LastOf(p), TRUE, AsksDir(p))
           /\ LastOf(p) = "." =>
                NameWalk(s, start, p) =
                  IF AsksDir(p) THEN AsDir(DirWalk(s, start, p)) ELSE DirWalk(s, start, p)
           /\ Resolve(s, "virtual", start, DirOf(p), TRUE) =
                Walker(s, "virtual")[DirWalk(s, start, p)]
           /\ Resolve(s, "virtual", start, p, TRUE) = Walker(s, "virtual")[NameWalk(s, start, p)]
<1> DEFINE d == DirOf(p)
           c == LastOf(p)
           x == DirWalk(s, start, p)
           y == NameWalk(s, start, p)
<1>0. start \in DOMAIN s.nodes /\ p \in Path /\ p.comps # <<>> /\ ~IsEmptyPath(d)
  BY DEF Splits
<1>1. d \in Path /\ d.comps = Front(p.comps) /\ d.abs = p.abs /\ d.slash = FALSE
      /\ c = Last(p.comps) /\ c \in Component
  BY <1>0, DirOfIs
<1>2. p.comps = Append(d.comps, c) /\ p.comps \in Seq(Component) /\ d.comps \in Seq(Component)
  <2> DEFINE cs == p.comps
  <2>1. cs \in Seq(Component) /\ d.comps \in Seq(Component) /\ cs # <<>>
    BY <1>0, <1>1 DEF Path
  <2> HIDE DEF cs, d, c
  <2>2. cs = Append(Front(cs), Last(cs))
    BY <2>1, FrontLast
  <2> QED BY <1>1, <2>1, <2>2 DEF cs
<1>3. Real(p) = IF c = "." THEN Real(d) ELSE Append(Real(d), c)
  <2> HIDE DEF c, d
  <2> QED BY <1>1, <1>2, RealAppend
<1>4. x \in Walks(s)
  <2> HIDE DEF d
  <2>1. Looks(s, start, d, TRUE, 0)
    BY <1>0, <1>1 DEF Looks
  <2> QED BY <2>1, LookupIs DEF d, DirWalk
<1>5. Origin(s, "virtual", start, d) = Origin(s, "virtual", start, p)
  BY <1>1 DEF Origin
<1>6. x = WalkOf(Origin(s, "virtual", start, p), Real(d), TRUE, FALSE, 0)
  BY <1>1, <1>5 DEF DirWalk, LookupOf, AsksDir
<1>7. y = WalkOf(Origin(s, "virtual", start, p), Real(p), TRUE, AsksDir(p), 0)
  BY DEF NameWalk, LookupOf
<1>11. Resolve(s, "virtual", start, d, TRUE) = Walker(s, "virtual")[x]
  <2> DEFINE yes == TRUE
  <2> HIDE DEF d, yes
  <2>1. Lookup(s, "virtual", start, d, yes, 0) =
          Walker(s, "virtual")[LookupOf(s, "virtual", start, d, yes, 0)]
    BY <1>0, LookupWalks
  <2> QED BY <2>1 DEF Resolve, DirWalk, d, yes
<1>12. Resolve(s, "virtual", start, p, TRUE) = Walker(s, "virtual")[y]
  <2>1. ~IsEmptyPath(p)
    BY <1>0 DEF IsEmptyPath
  <2> DEFINE yes == TRUE
  <2> HIDE DEF yes
  <2>2. Lookup(s, "virtual", start, p, yes, 0) =
          Walker(s, "virtual")[LookupOf(s, "virtual", start, p, yes, 0)]
    BY <2>1, LookupWalks
  <2> QED BY <2>2 DEF Resolve, NameWalk, yes
<1> HIDE DEF x, y, c, d
<1>8. /\ x.cur = Origin(s, "virtual", start, p) /\ x.cs = Real(d) /\ x.last = TRUE /\ x.slash = FALSE
      /\ x.links = 0
  BY <1>6 DEF WalkOf
<1>9. c # "." => y = Further(x, c, TRUE, AsksDir(p))
  BY <1>3, <1>7, <1>8 DEF Further
<1>10. c = "." => y = IF AsksDir(p) THEN AsDir(x) ELSE x
  <2>1. AsksDir(p) \in BOOLEAN
    BY <1>0 DEF AsksDir, Path
  <2> QED BY <2>1, <1>3, <1>6, <1>7, <1>8 DEF AsDir
<1> QED
  BY <1>4, <1>8, <1>9, <1>10, <1>11, <1>12 DEF x, y, c, d

\* What connect finds out of a path's directory is what the lookup of the path
\* finds out on its way.
LEMMA DirectoryFirst ==
    ASSUME FsNames, NEW s, Sound(s), NEW start, NEW p, Splits(s, start, p), IsDir(s, start),
           Resolve(s, "virtual", start, p, TRUE).err = "ok"
    PROVE  /\ Resolve(s, "virtual", start, DirOf(p), TRUE).err = "ok"
           /\ LastOf(p) # "." => IsDir(s, Resolve(s, "virtual", start, DirOf(p), TRUE).node)
           /\ LastOf(p) = "." /\ IsDir(s, Resolve(s, "virtual", start, DirOf(p), TRUE).node) =>
                IsDir(s, Resolve(s, "virtual", start, p, TRUE).node)
<1> DEFINE on == Walker(s, "virtual")
           x == DirWalk(s, start, p)
           y == NameWalk(s, start, p)
           c == LastOf(p)
<1>1. /\ x \in Walks(s) /\ x.cur = Origin(s, "virtual", start, p)
      /\ x.last /\ x.slash = FALSE
      /\ c # "." => y = Further(x, c, TRUE, AsksDir(p))
      /\ c = "." => y = IF AsksDir(p) THEN AsDir(x) ELSE x
      /\ Resolve(s, "virtual", start, DirOf(p), TRUE) = on[x]
      /\ Resolve(s, "virtual", start, p, TRUE) = on[y]
  BY LookupSplits
<1>3. c \in Component /\ AsksDir(p) \in BOOLEAN
  BY DirOfIs DEF AsksDir, Path, Splits
<1> HIDE DEF on, x, y, c
<1>4. IsDir(s, x.cur)
  <2>1. start \in DOMAIN s.nodes
    BY DEF Splits
  <2>2. IsDir(s, Origin(s, "virtual", start, p))
    BY <2>1, TurnsToDirs
  <2> QED BY <1>1, <2>2
<1>2. on[y].err = "ok"
  BY <1>1
<1>5. on[AsDir(x)] = EndsInDir(s, on[x])
  BY <1>1, <1>4, AsDirFinds DEF on
<1>6. CASE c = "."
  <2>1. y = x \/ y = AsDir(x)
    BY <1>1, <1>6
  <2>2. on[x].err = "ok" /\ (IsDir(s, on[x].node) => on[y] = on[x])
    BY <2>1, <1>2, <1>5, FoundIs DEF EndsInDir
  <2> QED BY <1>1, <1>6, <2>2 DEF c
<1>7. CASE c # "."
  <2> DEFINE z == AsDir(x)
  <2>1. z \in Walks(s) /\ z.last /\ z.slash /\ z.cur = x.cur /\ z.cs = x.cs /\ z.links = x.links
    BY <1>1, AsDirIs
  <2>2. y = Further(z, c, TRUE, AsksDir(p))
    <3> HIDE DEF z
    <3> QED BY <1>1, <1>7, <2>1 DEF Further
  <2> HIDE DEF z
  <2>3. on[y] = Goes(s, on, on[z], c, TRUE, AsksDir(p))
    <3> DEFINE a == AsksDir(p)
               yes == TRUE
    <3>1. a \in BOOLEAN /\ yes \in BOOLEAN
      BY <1>3
    <3> HIDE DEF a, yes
    <3>2. on[Further(z, c, yes, a)] = Goes(s, on, on[z], c, yes, a)
      BY <1>3, <3>1, <2>1, FurtherIs DEF on
    <3> QED BY <2>2, <3>2 DEF a, yes
  <2>4. on[z].err = "ok"
    BY <1>2, <2>3 DEF Goes
  <2>5. on[x].err = "ok" /\ IsDir(s, on[x].node)
    BY <1>5, <2>4, FoundIs DEF EndsInDir, z
  <2> QED BY <1>1, <1>7, <2>5 DEF c
<1> QED
  BY <1>6, <1>7

\* connect reaches the sockets that stat sees, unless the name is too wide.
LEMMA ConnectAgrees ==
    ASSUME FsNames, NEW s, Sound(s), NEW p \in Path
    PROVE  (Stat(s, p, TRUE).is = "socket" /\ LastOf(p) \notin WideNames \cup {"."})
              <=> Connect(s, p) = "ok"
<1> DEFINE r == FromCwd(s, p, TRUE)
           d == DirOf(p)
           parent == IF IsEmptyPath(d) THEN Found(s.cwd, 0) ELSE FromCwd(s, d, TRUE)
<1>1. s.cwd \in DOMAIN s.nodes /\ IsDir(s, s.cwd) /\ IsDir(s, RootNode) /\ RootNode \in DOMAIN s.nodes
  <2>1. s.cwd \in DOMAIN s.nodes /\ RootNode \in DOMAIN s.nodes
    BY DEF Sound, Plain, Clear, Seat
  <2> QED BY <2>1, TurnsToDirs
<1>2. Stat(s, p, TRUE).is = IF r.err = "ok" THEN s.nodes[r.node].kind ELSE ""
  BY DEF Stat, Answer
<1>3. \A n : IsDir(s, n) => n \in DOMAIN s.nodes /\ s.nodes[n].kind # "socket"
  BY DEF IsDir, IsDirKind, Kind
<1>4. ASSUME NEW n \in DOMAIN s.nodes, IsDir(s, n), Real(p) = <<>>, r.err = "ok"
      PROVE  IsDir(s, r.node)
  <2> DEFINE x == LookupOf(s, "virtual", s.cwd, p, TRUE, 0)
  <2>1. ~IsEmptyPath(p)
    <3>1. \A l : Lost("ENOENT", l).err # "ok"
      BY FoundIs
    <3> QED BY <3>1, <1>4 DEF FromCwd, Resolve, Lookup
  <2>2. Looks(s, s.cwd, p, TRUE, 0)
    BY <2>1, <1>1 DEF Looks
  <2>3. x \in Walks(s) /\ x.cs = <<>> /\ x.cur = Origin(s, "virtual", s.cwd, p)
        /\ r = Walker(s, "virtual")[x]
    <3>1. x \in Walks(s)
      BY <2>2, LookupIs
    <3>2. x.cs = Real(p) /\ x.cur = Origin(s, "virtual", s.cwd, p)
      BY DEF LookupOf, WalkOf
    <3>3. r = Walker(s, "virtual")[x]
      <4> DEFINE yes == TRUE
      <4> HIDE DEF yes
      <4>1. Lookup(s, "virtual", s.cwd, p, yes, 0) =
              Walker(s, "virtual")[LookupOf(s, "virtual", s.cwd, p, yes, 0)]
        BY <2>1, LookupWalks
      <4> QED BY <4>1 DEF FromCwd, Resolve, yes
    <3> HIDE DEF x, r
    <3> QED BY <3>1, <3>2, <3>3, <1>4
  <2> HIDE DEF x, r
  <2>4. r = Found(x.cur, x.links)
    BY <2>3, WalkerSteps
  <2>5. IsDir(s, x.cur)
    <3>1. IsDir(s, Origin(s, "virtual", s.cwd, p))
      BY <1>1, TurnsToDirs
    <3> QED BY <2>3, <3>1
  <2> QED BY <2>4, <2>5, FoundIs
<1>5. CASE p.comps = <<>>
  <2>1. Real(p) = <<>>
    BY <1>5, RealWhole DEF Path
  <2>2. Stat(s, p, TRUE).is # "socket"
    BY <1>1, <1>2, <1>3, <1>4, <2>1
  <2>3. Connect(s, p) # "ok"
    BY <1>5 DEF Connect, IsRootOperand, IsEmptyPath
  <2> QED BY <2>2, <2>3
<1>6. CASE p.comps # <<>>
  <2>1. /\ d = [p EXCEPT !.comps = Front(@), !.slash = FALSE] /\ LastOf(p) = p.comps[Len(p.comps)]
        /\ ~IsRootOperand(p) /\ ~IsEmptyPath(p)
    BY <1>6 DEF DirOf, LastOf, IsRootOperand, IsEmptyPath
  <2>2. Connect(s, p) = "ok" <=> /\ parent.err = "ok" /\ IsDir(s, parent.node)
                                 /\ LastOf(p) \notin WideNames /\ r.err = "ok"
                                 /\ s.nodes[r.node].kind = "socket"
    <3> HIDE DEF r
    <3>1. Connect(s, p) =
            IF parent.err # "ok" THEN parent.err
            ELSE IF ~IsDir(s, parent.node) THEN "ENOTDIR"
            ELSE IF LastOf(p) \in WideNames THEN "ENAMETOOLONG"
            ELSE IF r.err # "ok" THEN r.err
            ELSE IF s.nodes[r.node].kind = "socket" THEN "ok"
            ELSE IF s.mac THEN "ENOTSOCK" ELSE "ECONNREFUSED"
      BY <2>1 DEF Connect, r
    <3> HIDE DEF parent
    <3> QED BY <3>1
  <2>3. r.err = "ok" /\ s.nodes[r.node].kind = "socket" =>
          ((parent.err = "ok" /\ IsDir(s, parent.node)) <=> LastOf(p) # ".")
    <3> SUFFICES ASSUME r.err = "ok", s.nodes[r.node].kind = "socket"
                 PROVE  (parent.err = "ok" /\ IsDir(s, parent.node)) <=> LastOf(p) # "."
      OBVIOUS
    <3>r. r.err = "ok"
      OBVIOUS
    <3>0. ~IsDir(s, r.node)
      BY <1>3
    <3>1. CASE IsEmptyPath(d)
      <4>1. parent.err = "ok" /\ IsDir(s, parent.node)
        BY <3>1, <1>1, FoundIs
      <4>2. d \in Path /\ d.comps = <<>> /\ p.comps = Append(d.comps, LastOf(p)) /\ LastOf(p) \in Component
            /\ p.comps \in Seq(Component) /\ d.comps \in Seq(Component)
        <5>1. d \in Path /\ d.comps = Front(p.comps) /\ LastOf(p) = Last(p.comps) /\ LastOf(p) \in Component
          BY <1>6, DirOfIs
        <5>2. p.comps \in Seq(Component) /\ p.comps = Append(Front(p.comps), Last(p.comps))
          <6>1. p.comps \in Seq(Component)
            BY DEF Path
          <6> QED BY <6>1, <1>6, FrontLast
        <5> HIDE DEF d
        <5> QED BY <5>1, <5>2, <3>1 DEF IsEmptyPath, Path
      <4>3. LastOf(p) = "." => Real(p) = <<>>
        <5> HIDE DEF d
        <5>1. Real(p) = IF LastOf(p) = "." THEN Real(d) ELSE Append(Real(d), LastOf(p))
          BY <4>2, RealAppend
        <5>2. Real(d) = <<>>
          <6>1. \A i \in 1..Len(d.comps) : d.comps[i] # "."
            BY <4>2
          <6>2. Real(d) = d.comps
            BY <4>2, <6>1, RealWhole
          <6> QED BY <4>2, <6>2
        <5> QED BY <5>1, <5>2
      <4>4. LastOf(p) # "."
        <5> HIDE DEF r, d, parent
        <5> QED BY <1>1, <1>4, <3>0, <4>3
      <4> QED BY <4>1, <4>4
    <3>2. CASE ~IsEmptyPath(d)
      <4> DEFINE dir == Resolve(s, "virtual", s.cwd, d, TRUE)
      <4>1. Resolve(s, "virtual", s.cwd, p, TRUE) = r /\ parent = dir
        BY <3>2 DEF FromCwd
      <4>2. dir.err = "ok" /\ (LastOf(p) # "." => IsDir(s, dir.node))
            /\ (LastOf(p) = "." /\ IsDir(s, dir.node) => IsDir(s, r.node))
        <5>1. Splits(s, s.cwd, p)
          BY <1>1, <1>6, <3>2 DEF Splits
        <5> HIDE DEF r
        <5> QED BY <1>1, <3>0, <3>r, <4>1, <5>1, DirectoryFirst
      <4> HIDE DEF dir, parent, r
      <4> QED BY <3>0, <4>1, <4>2
    <3> QED BY <3>1, <3>2
  <2> HIDE DEF parent, r
  <2> QED BY <1>2, <2>2, <2>3
<1> QED
  BY <1>5, <1>6

\* readlink, opendir and list answer where stat and lstat do.
LEMMA ReadersAgree ==
    ASSUME FsNames, NEW s, Sound(s), NEW p \in Path
    PROVE  /\ Stat(s, p, FALSE).is = "link" <=> Readlink(s, p).err = "ok"
           /\ \A e \in {OpenDir(s, p).err, List(s, p).err} :
                IsDirKind(Stat(s, p, TRUE).is) <=> e = "ok"
<1> DEFINE r == FromCwd(s, p, TRUE)
<1>1. Stat(s, p, FALSE).is = "link" <=> Readlink(s, p).err = "ok"
  BY DEF Stat, Readlink, Answer
<1>2. s.cwd \in DOMAIN s.nodes
  BY DEF Sound, Plain, Clear
<1>3. r.err = "ok" => r.node \in DOMAIN s.nodes
  BY <1>2, LookupFinds DEF FromCwd, Resolve
<1>4. IsDirKind(Stat(s, p, TRUE).is) <=> r.err = "ok" /\ IsDir(s, r.node)
  <2>1. Stat(s, p, TRUE).is = IF r.err = "ok" THEN s.nodes[r.node].kind ELSE ""
    BY DEF Stat, Answer
  <2> HIDE DEF r
  <2> QED BY <1>3, <2>1 DEF IsDir, IsDirKind, Kind
<1>5. List(s, p).err = "ok" <=> r.err = "ok" /\ IsDir(s, r.node)
  BY DEF List, Answer
<1>6. OpenDir(s, p).err = "ok" <=> r.err = "ok" /\ IsDir(s, r.node)
  <2>1. OpenDir(s, p) = OpenedDir(s, ToDir(s, r))
    BY DEF OpenDir
  <2> HIDE DEF r
  <2>2. ToDir(s, r).err = "ok" <=> r.err = "ok" /\ IsDir(s, r.node)
    BY FoundIs DEF ToDir
  <2>3. \A q : OpenedDir(s, q).err = "ok" <=> q.err = "ok"
    BY DEF OpenedDir, AllocFd, Fail
  <2> QED BY <2>1, <2>2, <2>3
<1> HIDE DEF r
<1> QED
  BY <1>1, <1>4, <1>5, <1>6

-----------------------------------------------------------------------------
(* FsModel: what is found stays found while nothing is taken away          *)

\* Every node of s is in t, the same, with all the names it had.
StaysIn(s, t, n) ==
    /\ n \in DOMAIN t.nodes
    /\ SameNode(s.nodes[n], t.nodes[n]) /\ t.nodes[n].up = s.nodes[n].up
    /\ \A c \in DOMAIN s.nodes[n].kids :
         c \in DOMAIN t.nodes[n].kids /\ t.nodes[n].kids[c] = s.nodes[n].kids[c]
LEMMA GrownIs ==
    ASSUME NEW s, NEW t, Sound(s), Grows(s, t)
    PROVE  Sound(t) /\ \A n \in DOMAIN s.nodes : StaysIn(s, t, n)
<1> DEFINE a == TreeOf(s)
           b == TreeOf(t)
           k == Len(s.nodes)
           l == Len(t.nodes)
<1>1. /\ Sound(t) /\ SameNodes(s, t) /\ a.entries \subseteq b.entries
      /\ Edit(a, b) \/ b = a
  BY DEF Grows, Keeps
<1>2. /\ DOMAIN s.nodes = 1..k /\ DOMAIN t.nodes = 1..l /\ k \in Nat /\ l \in Nat /\ l >= k
      /\ a.count = k /\ b.count = l
      /\ a.up = [n \in 1..k |-> s.nodes[n].up] /\ b.up = [n \in 1..l |-> t.nodes[n].up]
  BY <1>1, TreeIs DEF Sound, SameNodes
<1> HIDE DEF a, b
<1>3. \A n \in 1..k : b.up[n] = a.up[n]
  <2>1. CASE b = a
    BY <2>1
  <2>2. CASE \E f \in b.entries \ a.entries : NodeMade(a, b, f.dir, f.name)
    <3>1. PICK f : NodeMade(a, b, f.dir, f.name)
      BY <2>2
    <3>2. /\ b.count = a.count + 1
          /\ b.up = [x \in 1..b.count |-> IF x = b.count THEN f.dir ELSE a.up[x]]
      BY <3>1 DEF NodeMade
    <3> QED BY <3>2, <1>2
  <2> QED BY <2>1, <2>2, <1>1 DEF Edit
<1>4. ASSUME NEW n \in DOMAIN s.nodes, NEW c \in DOMAIN s.nodes[n].kids
      PROVE  c \in DOMAIN t.nodes[n].kids /\ t.nodes[n].kids[c] = s.nodes[n].kids[c]
  <2> DEFINE e == Entry(n, c, s.nodes[n].kids[c])
  <2>1. e.dir = n /\ e.name = c /\ e.node = s.nodes[n].kids[c]
    BY EntryParts
  <2>2. e = Entry(e.dir, e.name, e.node)
    BY <2>1
  <2> HIDE DEF e
  <2>3. e \in TreeOf(s).entries
    BY <1>4, <2>1, <2>2, EntryIn
  <2>4. e \in TreeOf(t).entries
    BY <2>3, <1>1 DEF a, b
  <2> QED BY <2>1, <2>4, EntryIn
<1>5. ASSUME NEW n \in DOMAIN s.nodes
      PROVE  StaysIn(s, t, n)
  <2>1. n \in 1..k /\ n \in 1..l
    BY <1>2
  <2>2. SameNode(s.nodes[n], t.nodes[n]) /\ n \in DOMAIN t.nodes
    BY <2>1, <1>1, <1>2, <1>5 DEF SameNodes
  <2>3. t.nodes[n].up = s.nodes[n].up
    BY <2>1, <1>2, <1>3
  <2> QED BY <2>2, <2>3, <1>4 DEF StaysIn
<1> QED
  BY <1>1, <1>5

\* Where a walk turns, it turns there too.
LEMMA TurnsStay ==
    ASSUME NEW s, NEW t, Sound(s), Grows(s, t), NEW view, NEW n \in DOMAIN s.nodes
    PROVE  /\ Enter(t, view, n) = Enter(s, view, n) /\ Up(t, view, n) = Up(s, view, n)
           /\ IsDir(t, n) <=> IsDir(s, n)
           /\ \A p : Origin(t, view, n, p) = Origin(s, view, n, p)
<1>1. \A x \in DOMAIN s.nodes : StaysIn(s, t, x)
  BY GrownIs
<1>2. \A x \in DOMAIN s.nodes : Enter(t, view, x) = Enter(s, view, x)
  BY <1>1 DEF Enter, StaysIn, SameNode
<1>3. Up(t, view, n) = Up(s, view, n) /\ (IsDir(t, n) <=> IsDir(s, n))
  BY <1>1 DEF Up, StaysIn, SameNode, IsDir, Kind
<1>4. RootNode \in DOMAIN s.nodes
  BY NodesAre
<1>5. \A p : Origin(t, view, n, p) = Origin(s, view, n, p)
  BY <1>2, <1>4 DEF Origin
<1> QED
  BY <1>2, <1>3, <1>5

\* A walk that finds something finds it still.
LEMMA WalksStay ==
    ASSUME FsNames, NEW s, NEW t, Sound(s), Grows(s, t), NEW view, NEW x \in Walks(s),
           Walker(s, view)[x].err = "ok"
    PROVE  x \in Walks(t) /\ Walker(t, view)[x] = Walker(s, view)[x]
<1> DEFINE on == Walker(s, view)
           to == Walker(t, view)
           T == {y \in Walks(s) : on[y].err = "ok" => to[y] = on[y]}
<1>0. Sound(t) /\ \A n \in DOMAIN s.nodes : StaysIn(s, t, n)
  BY GrownIs
<1>w. Walks(s) \subseteq Walks(t)
  <2>1. DOMAIN s.nodes \subseteq DOMAIN t.nodes
    BY <1>0 DEF StaysIn
  <2> QED BY <2>1 DEF Walks
<1>1. ASSUME NEW y \in Walks(s), \A z \in Walks(s) : Sooner(z, y) => z \in T, on[y].err = "ok"
      PROVE  to[y] = on[y]
  <2>0. y.cur \in DOMAIN s.nodes /\ y.links \in Nat /\ y.links >= y.links /\ y \in Walks(t)
    BY WalkParts, <1>w
  <2>1. CASE y.cs = <<>>
    <3>1. on[y] = Found(y.cur, y.links)
      BY <2>1, WalkerSteps
    <3>2. to[y] = Found(y.cur, y.links)
      BY <1>0, <2>0, <2>1, WalkerSteps
    <3> QED BY <3>1, <3>2
  <2>2. ASSUME y.cs # <<>>, NEW n \in DOMAIN s.nodes, NEW links \in Nat, links >= y.links,
               on[Onward(s, view, y, n, links)].err = "ok"
        PROVE  to[Onward(t, view, y, n, links)] = on[Onward(s, view, y, n, links)]
    <3> DEFINE z == Onward(s, view, y, n, links)
    <3>1. z \in Walks(s) /\ Sooner(z, y)
      BY <2>2, OnwardIs
    <3>2. Onward(t, view, y, n, links) = z
      <4>1. Enter(t, view, n) = Enter(s, view, n)
        BY TurnsStay
      <4> QED BY <4>1 DEF Onward
    <3>3. on[z].err = "ok"
      BY <2>2
    <3> HIDE DEF z, on, to
    <3>4. to[z] = on[z]
      BY <3>1, <3>3, <1>1
    <3> QED BY <3>2, <3>4 DEF z
  <2>3. CASE y.cs # <<>> /\ Head(y.cs) = ".."
    <3> DEFINE n == Up(s, view, y.cur)
    <3>1. on[y] = on[Onward(s, view, y, n, y.links)]
      BY <2>3, WalkerSteps
    <3>2. to[y] = to[Onward(t, view, y, Up(t, view, y.cur), y.links)]
      BY <1>0, <2>0, <2>3, WalkerSteps
    <3>3. n \in DOMAIN s.nodes /\ Up(t, view, y.cur) = n
      BY <2>0, TurnsAre, TurnsStay
    <3> HIDE DEF n, on, to
    <3>4. on[Onward(s, view, y, n, y.links)].err = "ok"
      BY <3>1, <1>1
    <3> QED BY <3>1, <3>2, <3>3, <3>4, <2>0, <2>2, <2>3
  <2>4. CASE y.cs # <<>> /\ Head(y.cs) # ".." /\ ~Named1(s, y)
    <3>1. \E e \in Errnos \ {"ok"} : on[y] = Lost(e, y.links)
      BY <2>4, WalkerSteps
    <3> QED BY <3>1, <1>1, FoundIs
  <2>5. CASE Named1(s, y)
    <3> DEFINE r == NextNode(s, view, y, on)
               q == NextNode(t, view, y, to)
               n == FirstKid(s, y)
               link == s.nodes[n].link
    <3>1. /\ r \in Within(s, y) /\ (r.err # "ok" => on[y] = r)
          /\ r.err = "ok" /\ ~Suits(s, y, r.node) => on[y] = Lost("ENOTDIR", r.links)
          /\ r.err = "ok" /\ Suits(s, y, r.node) => on[y] = on[Onward(s, view, y, r.node, r.links)]
      BY <2>5, WalkerSteps
    <3>2. /\ n \in DOMAIN s.nodes /\ link \in Path
          /\ ~Follows(s, y, n) => r = Found(n, y.links)
          /\ Follows(s, y, n) /\ (y.links + 1 > MaxLinks \/ IsEmptyPath(link)) =>
               r = Lost(IF y.links + 1 > MaxLinks THEN "ELOOP" ELSE "ENOENT", y.links + 1)
          /\ Follows(s, y, n) /\ ~(y.links + 1 > MaxLinks \/ IsEmptyPath(link)) =>
               /\ r = on[Through(s, view, y, link)]
               /\ Through(s, view, y, link) \in Walks(s)
               /\ Sooner(Through(s, view, y, link), y)
      BY <2>5, NextSteps
    <3>3. Named1(t, y) /\ FirstKid(t, y) = n
      <4>1. StaysIn(s, t, y.cur) /\ (IsDir(t, y.cur) <=> IsDir(s, y.cur))
        BY <1>0, <2>0, TurnsStay
      <4> QED BY <4>1, <2>5 DEF Named1, FirstKid, Has, Kids, StaysIn
    <3>4. t.nodes[n].link = link /\ (Follows(t, y, n) <=> Follows(s, y, n))
      <4>1. StaysIn(s, t, n)
        BY <1>0, <3>2
      <4> HIDE DEF n
      <4> QED BY <4>1 DEF StaysIn, SameNode, Follows
    <3>5. /\ ~Follows(t, y, FirstKid(t, y)) => q = Found(FirstKid(t, y), y.links)
          /\ Follows(t, y, FirstKid(t, y)) /\ ~(y.links + 1 > MaxLinks \/ IsEmptyPath(t.nodes[FirstKid(t, y)].link)) =>
               q = to[Through(t, view, y, t.nodes[FirstKid(t, y)].link)]
      BY <1>0, <2>0, <3>3, NextSteps
    <3>6. /\ q.err = "ok" /\ Suits(t, y, q.node) => to[y] = to[Onward(t, view, y, q.node, q.links)]
      BY <1>0, <2>0, <3>3, WalkerSteps
    <3>7. Through(t, view, y, link) = Through(s, view, y, link)
      <4> DEFINE cur == y.cur
      <4>0. cur \in DOMAIN s.nodes
        BY <2>0
      <4> HIDE DEF link, cur
      <4>1. Origin(t, view, cur, link) = Origin(s, view, cur, link)
        BY <4>0, TurnsStay
      <4> USE DEF cur
      <4> QED BY <4>1 DEF Through
    <3> HIDE DEF r, q, n, link, on, to
    <3>8. r.err = "ok" /\ on[y] = on[Onward(s, view, y, r.node, r.links)] /\ Suits(s, y, r.node)
      BY <3>1, <1>1, FoundIs
    <3>9. r.node \in DOMAIN s.nodes /\ r.links \in Nat /\ r.links >= y.links
      BY <3>1, <3>8 DEF Within, Outcomes
    <3>10. q = r
      <4>1. CASE ~Follows(s, y, n)
        BY <4>1, <3>2, <3>3, <3>4, <3>5
      <4>2. CASE Follows(s, y, n)
        <5>1. ~(y.links + 1 > MaxLinks \/ IsEmptyPath(link))
          BY <4>2, <3>2, <3>8, FoundIs
        <5> DEFINE z == Through(s, view, y, link)
        <5>2. r = on[z] /\ z \in Walks(s) /\ Sooner(z, y)
          BY <4>2, <5>1, <3>2
        <5>3. q = to[z]
          BY <4>2, <5>1, <3>3, <3>4, <3>5, <3>7
        <5> HIDE DEF z
        <5>4. to[z] = on[z]
          BY <5>2, <3>8, <1>1
        <5> QED BY <5>2, <5>3, <5>4
      <4> QED BY <4>1, <4>2
    <3>11. Suits(t, y, r.node)
      <4>1. IsDir(t, r.node) <=> IsDir(s, r.node)
        BY <3>9, TurnsStay
      <4> QED BY <4>1, <3>8 DEF Suits
    <3>12. to[y] = to[Onward(t, view, y, r.node, r.links)]
      BY <3>6, <3>8, <3>10, <3>11
    <3>13. on[Onward(s, view, y, r.node, r.links)].err = "ok" /\ y.cs # <<>>
      BY <3>8, <1>1, <2>5 DEF Named1
    <3> QED BY <3>8, <3>9, <3>12, <3>13, <2>2
  <2> QED BY <2>1, <2>3, <2>4, <2>5 DEF Named1
<1> HIDE DEF on, to
<1>2. Inherits(s, T)
  BY <1>1 DEF Inherits
<1>3. Walks(s) \subseteq T
  <2> HIDE DEF T
  <2> QED BY <1>2, WalkInduction
<1>4. to[x] = on[x]
  BY <1>3 DEF on
<1> QED
  BY <1>4, <1>w DEF on, to

-----------------------------------------------------------------------------
(* FsDriver: what open(O_CREAT) makes is what its path names               *)

\* What holds a name is a directory.
LEMMA HolderIsDir ==
    ASSUME NEW s, Sound(s), NEW n \in DOMAIN s.nodes, NEW c \in DOMAIN s.nodes[n].kids
    PROVE  IsDir(s, n) /\ c \in GoodNames
<1> DEFINE e == Entry(n, c, s.nodes[n].kids[c])
<1>1. e.dir = n /\ e.name = c /\ e.node = s.nodes[n].kids[c]
  BY EntryParts
<1>2. e = Entry(e.dir, e.name, e.node)
  BY <1>1
<1> HIDE DEF e
<1>3. e \in TreeOf(s).entries
  BY <1>1, <1>2, EntryIn
<1>4. IsDir(s, n)
  BY <1>1, <1>3, TreeParts, TreeIs DEF Sound
<1> QED
  BY <1>4, NodesAre DEF NodePlain

\* The last name of a path, looked up in a directory.
LastStep(d, c, links) == WalkOf(d, <<c>>, TRUE, FALSE, links)
Steps(s, d, c, links) ==
    /\ Clear(s, d) /\ links \in Nat /\ Has(s, d, c)
    /\ s.nodes[Kids(s, d)[c]].kind = "link" => links + 1 <= MaxLinks
\* It finds the node of that name, or what its link leads to.
StepFinds(s, d, c, links) ==
    LET n == Kids(s, d)[c]
        r == Lookup(s, "virtual", d, s.nodes[n].link, TRUE, links + 1)
        to == Walker(s, "virtual")[LastStep(d, c, links)]
    IN  /\ s.nodes[n].kind # "link" /\ s.nodes[n].over = 0 => to.err = "ok" /\ to.node = n
        /\ s.nodes[n].kind = "link" /\ r.err = "ok" => to.err = "ok" /\ to.node = r.node
LEMMA LastStepIs ==
    ASSUME FsNames, NEW s, Sound(s), NEW d, NEW c, NEW links, Steps(s, d, c, links)
    PROVE  StepFinds(s, d, c, links)
<1> DEFINE n == Kids(s, d)[c]
           x == LastStep(d, c, links)
           link == s.nodes[n].link
           r == Lookup(s, "virtual", d, link, TRUE, links + 1)
           on == Walker(s, "virtual")
           q == NextNode(s, "virtual", x, on)
<1>1. /\ d \in DOMAIN s.nodes /\ c \in DOMAIN s.nodes[d].kids /\ IsDir(s, d)
      /\ c \in Component /\ c \notin {".", ".."} /\ c \notin LongNames /\ links \in Nat
  BY HolderIsDir DEF Steps, Clear, Has, Kids, GoodNames
<1>2. /\ x.cur = d /\ x.cs = <<c>> /\ x.last = TRUE /\ x.slash = FALSE /\ x.links = links
      /\ x \in Walks(s)
  <2>1. <<c>> \in Seq(Component)
    BY <1>1, AppendIs
  <2> QED BY <1>1, <2>1, WalkOfIs DEF LastStep, Walks, WalkOf
<1>3. Head(x.cs) = c /\ Tail(x.cs) = <<>> /\ x.cs # <<>>
  BY <1>2
<1> HIDE DEF x
<1>4. Named1(s, x) /\ FirstKid(s, x) = n
  BY <1>1, <1>2, <1>3 DEF Named1, FirstKid, Has, Kids
<1> HIDE DEF n
<1>5. n \in DOMAIN s.nodes /\ n \in Nat /\ link \in Path
  <2>1. n \in DOMAIN s.nodes
    BY <1>1, NodesAre DEF n, Kids
  <2> QED BY <2>1, NodesAre DEF NodePlain
<1>6. \A k \in DOMAIN s.nodes : \A i \in Nat :
        i >= links => on[Onward(s, "virtual", x, k, i)] = Found(Enter(s, "virtual", k), i)
  <2> TAKE k \in DOMAIN s.nodes
  <2> TAKE i \in Nat
  <2> HAVE i >= links
  <2> DEFINE z == Onward(s, "virtual", x, k, i)
  <2>0. x \in Walks(s) /\ x.cs # <<>> /\ i >= x.links /\ Tail(x.cs) = <<>>
    BY <1>2, <1>3
  <2>1. z \in Walks(s) /\ z.links = i /\ z.cur = Enter(s, "virtual", k) /\ z.cs = <<>>
    <3> DEFINE view == "virtual"
    <3> HIDE DEF view
    <3>1. /\ Onward(s, view, x, k, i) \in Walks(s) /\ Onward(s, view, x, k, i).links = i
          /\ Onward(s, view, x, k, i).cur = Enter(s, view, k)
          /\ Onward(s, view, x, k, i).cs = Tail(x.cs)
      BY <2>0, OnwardIs
    <3> QED BY <2>0, <3>1 DEF view
  <2> HIDE DEF z
  <2>2. on[z] = Found(z.cur, z.links)
    BY <2>1, WalkerSteps
  <2> QED BY <2>1, <2>2 DEF z
<1>7. q \in Within(s, x) /\ (q.err = "ok" => on[x] = on[Onward(s, "virtual", x, q.node, q.links)])
  <2>1. Suits(s, x, q.node)
    BY <1>2, <1>3 DEF Suits
  <2> QED BY <1>2, <1>4, <2>1, WalkerSteps
<1>8. /\ ~Follows(s, x, n) => q = Found(n, links)
      /\ Follows(s, x, n) /\ ~(links + 1 > MaxLinks \/ IsEmptyPath(link)) =>
           q = on[Through(s, "virtual", x, link)]
  BY <1>2, <1>4, NextSteps
<1>9. Follows(s, x, n) <=> s.nodes[n].kind = "link"
  BY <1>2 DEF Follows
<1>10. s.nodes[n].kind = "link" => ~(links + 1 > MaxLinks)
  BY <1>1 DEF Steps, n, FsNames
<1>11. r = IF IsEmptyPath(link) THEN Lost("ENOENT", links + 1)
           ELSE on[Through(s, "virtual", x, link)]
  <2> DEFINE yes == TRUE
             l == links + 1
             view == "virtual"
  <2>1. LookupOf(s, view, d, link, yes, l) = Through(s, "virtual", x, link)
    BY <1>2 DEF LookupOf, Through
  <2> HIDE DEF yes, l, link, view
  <2>2. Lookup(s, view, d, link, yes, l) =
          IF IsEmptyPath(link) THEN Lost("ENOENT", l)
          ELSE Walker(s, view)[LookupOf(s, view, d, link, yes, l)]
    BY LookupWalks
  <2>3. r = Lookup(s, view, d, link, yes, l) /\ on = Walker(s, view)
    BY DEF yes, l, view
  <2> HIDE DEF r, on
  <2> QED BY <2>1, <2>2, <2>3 DEF l
<1>12. ASSUME q.err = "ok" PROVE on[x].err = "ok" /\ on[x].node = Enter(s, "virtual", q.node)
  <2>1. q.node \in DOMAIN s.nodes /\ q.links \in Nat /\ q.links >= links
    BY <1>2, <1>7, <1>12 DEF Within, Outcomes
  <2> HIDE DEF q, on
  <2> QED BY <2>1, <1>6, <1>7, <1>12, FoundIs
<1>13. ASSUME s.nodes[n].kind # "link", s.nodes[n].over = 0
       PROVE  on[x].err = "ok" /\ on[x].node = n
  <2>1. q = Found(n, links)
    BY <1>8, <1>9, <1>13
  <2> HIDE DEF q, on
  <2> QED BY <2>1, <1>12, <1>13, FoundIs DEF Enter
<1>14. ASSUME s.nodes[n].kind = "link", r.err = "ok"
       PROVE  on[x].err = "ok" /\ on[x].node = r.node
  <2>1. ~IsEmptyPath(link) /\ q = r
    <3> HIDE DEF q, on, r
    <3> QED BY <1>8, <1>9, <1>10, <1>11, <1>14, FoundIs
  <2>2. Clear(s, r.node)
    <3>1. links + 1 \in Nat /\ TRUE \in BOOLEAN
      BY <1>1
    <3> HIDE DEF link
    <3> QED BY <3>1, <1>1, <1>5, <1>14, LookupFinds DEF r
  <2> HIDE DEF q, on, r
  <2> QED BY <2>1, <2>2, <1>12, <1>14 DEF Enter, Clear
<1> HIDE DEF on, r
<1> QED
  BY <1>13, <1>14 DEF n, x, on, r, StepFinds

\* In t, which has all that s has, a chase's path is looked up in the directory
\* that the chase came to.
LEMMA ChaseLooks ==
    ASSUME FsNames, NEW s, NEW t, Sound(s), Grows(s, t), NEW x \in Chases(s), ~x.path.slash,
           ChasedDir(s, x).err = "ok"
    PROVE  LET dir == ChasedDir(s, x) IN
           /\ Clear(t, dir.node) /\ dir.links \in Nat
           /\ Lookup(t, "virtual", x.cur, x.path, TRUE, x.links) =
                Walker(t, "virtual")[LastStep(dir.node, Last(Real(x.path)), dir.links)]
<1> DEFINE dir == ChasedDir(s, x)
           real == Real(x.path)
           c == Last(real)
           y == ChaseWalk(s, x)
           to == Walker(t, "virtual")
           yes == TRUE
           no == FALSE
<1>1. /\ dir \in DirsFound /\ real # <<>> /\ ~IsEmptyPath(x.path)
      /\ dir = Walker(s, "virtual")[y] /\ dir.node \in DOMAIN s.nodes /\ Clear(s, dir.node)
  BY ChasedDirIs
<1>2. /\ x.cur \in DOMAIN s.nodes /\ x.path \in Path /\ x.links \in Nat /\ real \in Seq(Component)
      /\ c \in Component /\ y \in Walks(s)
  BY <1>1, ChaseParts
<1>3. Sound(t) /\ \A n \in DOMAIN s.nodes : StaysIn(s, t, n)
  BY GrownIs
<1>4. y \in Walks(t) /\ to[y] = dir
  BY <1>1, <1>2, WalksStay
<1>5. y.last /\ y.slash
  BY DEF ChaseWalk, WalkOf
<1>6. LookupOf(t, "virtual", x.cur, x.path, TRUE, x.links) = Further(y, c, TRUE, FALSE)
  <2>1. Origin(t, "virtual", x.cur, x.path) = Origin(s, "virtual", x.cur, x.path)
    <3> DEFINE cur == x.cur
               p == x.path
    <3>1. cur \in DOMAIN s.nodes
      BY <1>2
    <3> HIDE DEF cur, p
    <3>2. Origin(t, "virtual", cur, p) = Origin(s, "virtual", cur, p)
      BY <3>1, TurnsStay
    <3> QED BY <3>2 DEF cur, p
  <2>2. real = Append(Front(real), c)
    BY <1>1, <1>2, FrontLast
  <2>3. ~AsksDir(x.path) /\ AsksDir(x.path) \in BOOLEAN
    BY DEF AsksDir
  <2> QED BY <2>1, <2>2, <2>3 DEF LookupOf, Further, ChaseWalk, WalkOf
<1>7. Lookup(t, "virtual", x.cur, x.path, TRUE, x.links) = to[Further(y, c, TRUE, FALSE)]
  <2> DEFINE to1 == LookupOf(t, "virtual", x.cur, x.path, TRUE, x.links)
             cur == x.cur
             p == x.path
             links == x.links
             last == TRUE
             view == "virtual"
  <2>1. to1 = LookupOf(t, view, cur, p, last, links) /\ to = Walker(t, view)
    OBVIOUS
  <2> HIDE DEF cur, p, links, last, view
  <2>2. Lookup(t, view, cur, p, last, links) =
          IF IsEmptyPath(p) THEN Lost("ENOENT", links)
          ELSE Walker(t, view)[LookupOf(t, view, cur, p, last, links)]
    BY <1>3, LookupWalks
  <2>3. Lookup(t, view, cur, p, last, links) = to[to1]
    <3> HIDE DEF to, to1
    <3> QED BY <1>1, <2>1, <2>2 DEF p
  <2> QED BY <2>3, <1>6 DEF cur, p, links, last, view
<1>8. yes \in BOOLEAN /\ no \in BOOLEAN
  OBVIOUS
<1> HIDE DEF y, c, yes, no, to, dir
<1>9. to[Further(y, c, yes, no)] = Goes(t, to, to[y], c, yes, no)
  BY <1>2, <1>3, <1>4, <1>5, <1>8, FurtherIs DEF to
<1>10. Goes(t, to, dir, c, yes, no) = to[LastStep(dir.node, c, dir.links)]
  BY DEF Goes, LastStep, dir, yes, no
<1>11. Clear(t, dir.node) /\ dir.links \in Nat
  BY <1>1, <1>3 DEF Clear, StaysIn, SameNode, DirsFound
<1> QED
  BY <1>4, <1>7, <1>9, <1>10, <1>11 DEF yes, no, c, dir, to

\* In t the file n is where a chase ends.
LandsOn(s, t, end, n) ==
    LET place == CreateIn(s, end) IN
    /\ place.err = "ok" /\ Has(t, place.node, place.name) /\ Kids(t, place.node)[place.name] = n
    /\ t.nodes[n].kind # "link" /\ t.nodes[n].over = 0
Unslashed(s) == \A n \in DOMAIN s.nodes : ~s.nodes[n].link.slash
\* The path of a chase, looked up in t.
Sought(t, x) == Lookup(t, "virtual", x.cur, x.path, TRUE, x.links)

\* A chase that stops does so at a free name of a directory.
LEMMA StoppedIs ==
    ASSUME NEW s, NEW x, ~GoesOn(s, x), CreateIn(s, Stopped(s, x)).err = "ok"
    PROVE  /\ ChasedDir(s, x).err = "ok"
           /\ CreateIn(s, Stopped(s, x)).node = ChasedDir(s, x).node
           /\ CreateIn(s, Stopped(s, x)).name = Last(Real(x.path))
<1> DEFINE end == Stopped(s, x)
<1>1. /\ end.dir = ChasedDir(s, x)
      /\ end.name = IF ChasedDir(s, x).err = "ok" THEN Last(Real(x.path)) ELSE "none"
  BY DEF Stopped
<1> HIDE DEF end
<1>2. end.dir.err = "ok" /\ CreateIn(s, end) = Place(end.dir.node, end.name, FALSE)
  BY DEF CreateIn, NoPlace, end
<1> QED
  BY <1>1, <1>2 DEF Place, end

\* What is at the end of a chain of links is what its first path leads to.
LEMMA ChainLeads ==
    ASSUME FsNames, NEW s, NEW t, Sound(s), Grows(s, t), Unslashed(s), NEW n,
           NEW x \in Chases(s), ~x.path.slash, LandsOn(s, t, Chaser(s)[x], n)
    PROVE  Sought(t, x).err = "ok" /\ Sought(t, x).node = n
<1> DEFINE on == Chaser(s)
           Leads(y) == Sought(t, y).err = "ok" /\ Sought(t, y).node = n
           T == {y \in Chases(s) : ~y.path.slash /\ LandsOn(s, t, on[y], n) => Leads(y)}
<1>1. ASSUME NEW y \in Chases(s), \A z \in Chases(s) : Shorter(z, y) => z \in T,
             ~y.path.slash, LandsOn(s, t, on[y], n)
      PROVE  Leads(y)
  <2> DEFINE dir == ChasedDir(s, y)
             c == Last(Real(y.path))
             k == Kids(t, dir.node)[c]
             to == Walker(t, "virtual")[LastStep(dir.node, c, dir.links)]
  <2>0. Sound(t) /\ \A i \in DOMAIN s.nodes : StaysIn(s, t, i)
    BY GrownIs
  <2>1. dir.err = "ok" => /\ dir.node \in DOMAIN s.nodes
                          /\ Clear(t, dir.node) /\ dir.links \in Nat
                          /\ Sought(t, y) = to
    <3>1. dir.err = "ok" => dir.node \in DOMAIN s.nodes
      BY ChasedDirIs
    <3>2. dir.err = "ok" => /\ Clear(t, dir.node) /\ dir.links \in Nat
                            /\ Sought(t, y) = to
      BY <1>1, ChaseLooks DEF Sought
    <3> QED BY <3>1, <3>2
  <2>4. ASSUME Steps(t, dir.node, c, dir.links)
        PROVE  /\ t.nodes[k].kind # "link" /\ t.nodes[k].over = 0 => to.err = "ok" /\ to.node = k
               /\ LET r == Lookup(t, "virtual", dir.node, t.nodes[k].link, TRUE, dir.links + 1) IN
                  t.nodes[k].kind = "link" /\ r.err = "ok" => to.err = "ok" /\ to.node = r.node
    <3>1. StepFinds(t, dir.node, c, dir.links)
      BY <2>0, <2>4, LastStepIs
    <3> QED BY <3>1 DEF StepFinds
  <2>2. CASE GoesOn(s, y)
    <3> DEFINE z == NextChase(s, y)
               link == ChaseNext(s, y).link
    <3>1. /\ z \in Chases(s) /\ Shorter(z, y) /\ z.links = dir.links + 1 /\ z.cur = dir.node
          /\ z.path = link
      BY <2>2, ChasedIs
    <3>2. /\ dir.err = "ok" /\ Has(s, dir.node, c) /\ ChaseNext(s, y).kind = "link"
          /\ dir.links + 1 <= MaxLinks
      BY <2>2 DEF GoesOn
    <3>3. on[y] = on[z]
      BY <2>2, ChaserIs
    <3>4. /\ Has(t, dir.node, c) /\ k = Kids(s, dir.node)[c] /\ k \in DOMAIN s.nodes
          /\ t.nodes[k].kind = "link" /\ t.nodes[k].link = link
      <4> HIDE DEF c
      <4>1. c \in DOMAIN s.nodes[dir.node].kids /\ StaysIn(s, t, dir.node)
        BY <2>0, <2>1, <3>2 DEF Has, Kids
      <4> DEFINE i == Kids(s, dir.node)[c]
      <4>2. i \in DOMAIN s.nodes
        BY <4>1, <2>1, <3>2, NodesAre DEF Kids
      <4>3. Has(t, dir.node, c) /\ k = i
        BY <4>1 DEF StaysIn, Has, Kids
      <4>4. ChaseNext(s, y) = s.nodes[i]
        BY DEF ChaseNext, c
      <4> HIDE DEF i, k
      <4>5. StaysIn(s, t, i)
        BY <4>2, <2>0
      <4> QED BY <4>2, <4>3, <4>4, <4>5, <3>2 DEF StaysIn, SameNode, i
    <3>5. ~link.slash
      <4>1. s.nodes[k] = ChaseNext(s, y)
        BY <3>4 DEF ChaseNext
      <4> HIDE DEF k
      <4> QED BY <4>1, <3>4 DEF Unslashed
    <3>6. Leads(z)
      <4> HIDE DEF Leads, on, z, link
      <4> QED BY <3>1, <3>3, <3>5, <1>1 DEF z
    <3>7. Lookup(t, "virtual", dir.node, t.nodes[k].link, TRUE, dir.links + 1) = Sought(t, z)
      <4> HIDE DEF k, z, dir
      <4> QED BY <3>1, <3>4 DEF Sought
    <3>8. Steps(t, dir.node, c, dir.links)
      <4> HIDE DEF dir, c
      <4> QED BY <2>1, <3>2, <3>4 DEF Steps
    <3>9. to.err = "ok" /\ to.node = Sought(t, z).node
      <4>1. s.nodes[k].kind = s.nodes[k].kind /\ Sought(t, z).err = "ok"
        BY <3>6
      <4> HIDE DEF c, dir, z
      <4> QED BY <2>4, <3>4, <4>1, <3>7, <3>8
    <3> HIDE DEF to, z
    <3> QED BY <2>1, <3>2, <3>6, <3>9
  <2>3. CASE ~GoesOn(s, y)
    <3>1. on[y] = Stopped(s, y)
      BY <2>3, ChaserIs
    <3>2. CreateIn(s, Stopped(s, y)).err = "ok"
      BY <3>1, <1>1 DEF LandsOn
    <3>3. /\ dir.err = "ok" /\ CreateIn(s, on[y]).node = dir.node /\ CreateIn(s, on[y]).name = c
      BY <2>3, <3>1, <3>2, StoppedIs
    <3> HIDE DEF dir, c, on
    <3>4. /\ Has(t, dir.node, c) /\ k = n /\ t.nodes[k].kind # "link" /\ t.nodes[k].over = 0
      BY <3>3, <1>1 DEF LandsOn
    <3>5. Steps(t, dir.node, c, dir.links)
      BY <2>1, <3>3, <3>4 DEF Steps
    <3>6. to.err = "ok" /\ to.node = n
      BY <2>4, <3>4, <3>5
    <3> HIDE DEF to
    <3> QED BY <2>1, <3>3, <3>6
  <2> QED BY <2>2, <2>3
<1> HIDE DEF on, Leads
<1>2. Passes(s, T)
  <2> SUFFICES ASSUME NEW y \in Chases(s), \A z \in Chases(s) : Shorter(z, y) => z \in T
               PROVE  y \in T
    BY DEF Passes
  <2>1. ~y.path.slash /\ LandsOn(s, t, on[y], n) => Leads(y)
    <3> HIDE DEF T
    <3> QED BY <1>1
  <2> QED BY <2>1
<1>3. Chases(s) \subseteq T
  <2> HIDE DEF T
  <2> QED BY <1>2, ChaseInduction
<1>4. Leads(x)
  BY <1>3 DEF on
<1> QED
  BY <1>4 DEF Leads

\* An open of a name without a slash opens what is there, or a file that it makes.
LEMMA OpenEither ==
    ASSUME NEW s, NEW p, ~p.slash, NEW flags, flags = {"create", "write"},
           Open(s, 0, p, flags).err = "ok"
    PROVE  LET start == IF p.abs THEN RootNode ELSE s.cwd
               r == Resolve(s, "virtual", start, p, TRUE)
           IN  \/ r.err = "ok" /\ Open(s, 0, p, flags) = OpenNode(s, r.node, flags)
               \/ Open(s, 0, p, flags) = CreateFile(s, CreateAt(s, start, p, 0), flags)
<1> DEFINE from == IF p.abs THEN RootNode ELSE s.cwd
           start == AtStart(s, 0, p)
           r == Resolve(s, "virtual", start.node, p, "nofollow" \notin flags)
           o == Open(s, 0, p, flags)
<1>1. start.err = "ok" /\ start.node = from
  BY FoundIs DEF AtStart, FdDir
<1>2. "create" \in flags /\ "directory" \notin flags /\ "excl" \notin flags /\ "nofollow" \notin flags
      /\ ~({"create", "excl"} \subseteq flags)
  OBVIOUS
<1>3. r = Resolve(s, "virtual", from, p, TRUE)
  <2>1. ("nofollow" \notin flags) = TRUE
    BY <1>2
  <2> QED BY <1>1, <2>1
<1> HIDE DEF start, from, r
<1>4. \A e : Fail(s, e).err = e
  BY DEF Fail
<1>5. o = OpenFrom(s, start, "plain", p, flags) \/ \E e : e # "ok" /\ o = Fail(s, e)
  <2>1. RootErrno(s, "EISDIR") # "ok"
    BY DEF RootErrno
  <2> QED BY <1>2, <2>1 DEF Open, start
<1>6. OpenFrom(s, start, "plain", p, flags) = OpenPlain(s, start, p, flags)
  BY DEF OpenFrom
<1>7. OpenPlain(s, start, p, flags) = OpenFound(s, start, r, p, flags)
  BY <1>1, <1>2 DEF OpenPlain, r
<1>8. \/ r.err = "ok" /\ OpenFound(s, start, r, p, flags) = OpenNode(s, r.node, flags)
      \/ OpenFound(s, start, r, p, flags) = CreateFile(s, CreateAt(s, from, p, 0), flags)
      \/ \E e : e # "ok" /\ OpenFound(s, start, r, p, flags) = Fail(s, e)
  BY <1>1 DEF OpenFound
<1>9. o.err = "ok"
  OBVIOUS
<1> HIDE DEF o
<1> QED
  BY <1>3, <1>4, <1>5, <1>6, <1>7, <1>8, <1>9 DEF from, o

\* A new descriptor is on the node it was taken for.
LEMMA AllocIs ==
    ASSUME NEW s, ModelShape(s), NEW n, NEW dir, NEW write
    PROVE  LET r == AllocFd(s, n, dir, write) IN
           r.model.fds[r.fd].node = n /\ r.model.cwd = s.cwd /\ r.model.nodes = s.nodes
<1> DEFINE fds == [f \in DOMAIN s.fds \cup {s.next} |->
                     IF f = s.next THEN [node |-> n, dir |-> dir, pos |-> 0, write |-> write]
                     ELSE s.fds[f]]
           r == AllocFd(s, n, dir, write)
<1>1. fds[s.next].node = n
  OBVIOUS
<1>2. r.err = "ok" /\ r.fd = s.next /\ r.model = [s EXCEPT !.fds = fds, !.next = s.next + 1]
  BY DEF AllocFd
<1> HIDE DEF fds, r
<1>3. s = [mac |-> s.mac, nodes |-> s.nodes, cwd |-> s.cwd, fds |-> s.fds, next |-> s.next]
  BY DEF ModelShape
<1>4. r.model.fds = fds /\ r.model.cwd = s.cwd /\ r.model.nodes = s.nodes
  BY <1>2, <1>3
<1> QED
  BY <1>1, <1>2, <1>4 DEF r

LEMMA OriginStays ==
    ASSUME NEW s, NEW t, Sound(s), Grows(s, t), NEW view, NEW n \in DOMAIN s.nodes, NEW p
    PROVE  Origin(t, view, n, p) = Origin(s, view, n, p)
<1>1. \A q : Origin(t, view, n, q) = Origin(s, view, n, q)
  BY TurnsStay
<1> QED
  BY <1>1

\* Where a process starts makes no difference to an absolute path.
LEMMA SameFrom ==
    ASSUME NEW s, NEW p, NEW view
    PROVE  Resolve(s, view, IF p.abs THEN RootNode ELSE s.cwd, p, TRUE) =
             Resolve(s, view, s.cwd, p, TRUE)
BY DEF Resolve, Lookup, Origin

\* open(O_CREAT) opens what its path names afterwards.
LEMMA CreatedLeads ==
    ASSUME FsBounds, FsNames, NEW s, Sound(s), Unslashed(s), NEW p \in Path, ~p.slash,
           NEW flags, flags = {"create", "write"}, Open(s, 0, p, flags).err = "ok"
    PROVE  LET r == Open(s, 0, p, flags) IN FromCwd(r.model, p, TRUE).node = r.model.fds[r.fd].node
<1> DEFINE from == IF p.abs THEN RootNode ELSE s.cwd
           r == Resolve(s, "virtual", from, p, TRUE)
           o == Open(s, 0, p, flags)
           t == o.model
<1>0. /\ o.err = "ok" /\ Grows(s, t) /\ ModelShape(s) /\ from \in DOMAIN s.nodes /\ Clear(s, from)
      /\ from = RootNode \/ from = s.cwd
  <2>1. RootNode \in DOMAIN s.nodes /\ Clear(s, RootNode)
    BY NodesAre DEF Clear
  <2>2. s.cwd \in DOMAIN s.nodes /\ Clear(s, s.cwd)
    BY DEF Sound, Plain, Clear
  <2>3. Grows(s, t)
    BY OpenKeeps
  <2>4. ModelShape(s)
    BY DEF Sound
  <2> QED BY <2>1, <2>2, <2>3, <2>4
<1>1. \/ r.err = "ok" /\ o = OpenNode(s, r.node, flags)
      \/ o = CreateFile(s, CreateAt(s, from, p, 0), flags)
  BY OpenEither
<1>2. \A k : k = s.cwd \/ k = from => FromCwd(s, p, TRUE) = r
  BY SameFrom DEF FromCwd
<1>c. t.cwd = s.cwd =>
        FromCwd(t, p, TRUE) = Lookup(t, "virtual", from, p, TRUE, 0)
  BY SameFrom DEF FromCwd, Resolve
<1> HIDE DEF from, o
<1>3. CASE r.err = "ok" /\ o = OpenNode(s, r.node, flags)
  <2> DEFINE n == r.node
             x == LookupOf(s, "virtual", from, p, TRUE, 0)
  <2>1. o = AllocFd(s, n, FALSE, TRUE)
    <3>1. "trunc" \notin flags /\ "write" \in flags /\ "directory" \notin flags
      OBVIOUS
    <3>2. o = AllocFd(s, n, FALSE, TRUE) \/ \E e : e # "ok" /\ o = Fail(s, e)
      <4> HIDE DEF n
      <4>1. CASE IsDir(s, n)
        <5>1. Kind(s, n) \notin {"link", "file"}
          BY <4>1 DEF IsDir, IsDirKind
        <5>2. flags \cap {"write", "trunc"} # {}
          BY <3>1
        <5>3. OpenNode(s, n, flags) = Fail(s, "EISDIR")
          BY <4>1, <5>1, <5>2 DEF OpenNode
        <5> QED BY <1>3, <5>3 DEF n
      <4>2. CASE ~IsDir(s, n) /\ Kind(s, n) = "link"
        BY <1>3, <3>1, <4>2 DEF OpenNode, n
      <4>3. CASE ~IsDir(s, n) /\ Kind(s, n) = "file"
        <5>1. OpenNode(s, n, flags) = AllocFd(s, n, FALSE, "write" \in flags)
          BY <3>1, <4>3 DEF OpenNode
        <5>2. ("write" \in flags) = TRUE
          BY <3>1
        <5> QED BY <1>3, <5>1, <5>2 DEF n
      <4>4. CASE ~IsDir(s, n) /\ Kind(s, n) \notin {"link", "file"}
        BY <1>3, <3>1, <4>4 DEF OpenNode, n
      <4> QED BY <4>1, <4>2, <4>3, <4>4
    <3>3. \A e : Fail(s, e).err = e
      BY DEF Fail
    <3>4. o.err = "ok"
      BY <1>0
    <3> HIDE DEF n, r
    <3> QED BY <3>2, <3>3, <3>4
  <2>2. t.fds[o.fd].node = n /\ t.cwd = s.cwd
    <3> DEFINE dir == FALSE
               write == TRUE
    <3>1. o = AllocFd(s, n, dir, write) /\ ModelShape(s)
      BY <1>0, <2>1
    <3> HIDE DEF n, dir, write
    <3>2. LET q == AllocFd(s, n, dir, write) IN q.model.fds[q.fd].node = n /\ q.model.cwd = s.cwd
      BY <3>1, AllocIs
    <3> QED BY <3>1, <3>2
  <2>3. Lookup(t, "virtual", from, p, TRUE, 0) = r
    <3> DEFINE yes == TRUE
               no == 0
               view == "virtual"
    <3>1. r = Lookup(s, view, from, p, yes, no)
      BY DEF Resolve
    <3>2. yes \in BOOLEAN /\ no \in Nat
      OBVIOUS
    <3> HIDE DEF yes, no, view, t, r, n
    <3>3. ~IsEmptyPath(p) /\ r = Walker(s, view)[LookupOf(s, view, from, p, yes, no)]
      BY <1>3, <3>1, LookupWalks, FoundIs
    <3> DEFINE z == LookupOf(s, view, from, p, yes, no)
    <3>4. z \in Walks(s)
      BY <1>0, <3>2, <3>3, LookupIs DEF Looks
    <3>5. z \in Walks(t) /\ Walker(t, view)[z] = r
      <4> HIDE DEF z
      <4>1. r = Walker(s, view)[z]
        BY <3>3 DEF z
      <4> QED BY <1>0, <1>3, <3>4, <4>1, WalksStay
    <3>6. LookupOf(t, view, from, p, yes, no) = z
      <4>0. from \in DOMAIN s.nodes /\ Grows(s, t)
        BY <1>0
      <4>1. Origin(t, view, from, p) = Origin(s, view, from, p)
        BY <4>0, OriginStays
      <4> QED BY <4>1 DEF LookupOf
    <3>7. Lookup(t, view, from, p, yes, no) = Walker(t, view)[LookupOf(t, view, from, p, yes, no)]
      <4>1. Sound(t)
        BY <1>0, GrownIs
      <4> QED BY <4>1, <3>3, LookupWalks
    <3> HIDE DEF z
    <3>8. Lookup(t, view, from, p, yes, no) = r
      BY <3>5, <3>6, <3>7
    <3> QED BY <3>8 DEF yes, no, view
  <2> HIDE DEF t, r
  <2> QED BY <1>c, <2>2, <2>3 DEF n, t, o
<1>4. CASE o = CreateFile(s, CreateAt(s, from, p, 0), flags)
  <2> DEFINE place == CreateAt(s, from, p, 0)
             made == AddAt(s, place, Node("file", NoPath, 0), "EEXIST")
             u == Add(s, place.node, place.name, Node("file", NoPath, 0))
             n == Len(u.nodes)
             x == ChaseOf(from, p, 0)
  <2>1. o = OpenNew(made, flags)
    BY <1>4 DEF CreateFile
  <2>2. made.err = "ok" /\ o = AllocFd(made.model, Len(made.model.nodes), FALSE, "write" \in flags)
    <3> HIDE DEF made
    <3> QED BY <2>1, <1>0 DEF OpenNew
  <2>3. /\ place.err = "ok" /\ ~Has(s, place.node, place.name) /\ ~IsDetached(s, place.node)
        /\ made.model = u
    <3> HIDE DEF place
    <3> QED BY <2>2 DEF AddAt, Fail, Done, CheckLive
  <2>4. GoodPlace(s, place)
    <3>1. 0 \in Nat
      OBVIOUS
    <3> QED BY <1>0, <2>3, <3>1, CreateAtIsGood
  <2>5. /\ Keeps(s, u) /\ n = Len(s.nodes) + 1 /\ u.nodes[n].kind = "file" /\ Clear(u, n)
        /\ NodeMade(TreeOf(s), TreeOf(u), place.node, place.name)
    <3>1. NoPath \in Path /\ "file" \in Kinds
      BY NoPathIs DEF Kinds
    <3> HIDE DEF place
    <3> QED BY <2>3, <2>4, <3>1, AddKeeps DEF GoodPlace
  <2>6. u.cwd = s.cwd
    BY <1>0 DEF Add, ModelShape
  <2> HIDE DEF made, place, u
  <2>7. ModelShape(u)
    BY <2>5 DEF Keeps, Sound
  <2>8. t.fds[o.fd].node = n /\ t.cwd = s.cwd /\ t.nodes = u.nodes
    <3> DEFINE w == "write" \in flags
               dir == FALSE
    <3>1. o = AllocFd(u, n, dir, w)
      BY <2>2, <2>3
    <3> HIDE DEF w, n, dir
    <3>2. LET q == AllocFd(u, n, dir, w) IN
          q.model.fds[q.fd].node = n /\ q.model.cwd = u.cwd /\ q.model.nodes = u.nodes
      BY <2>7, AllocIs
    <3> QED BY <2>6, <3>1, <3>2
  <2>9. /\ Has(u, place.node, place.name) /\ Kids(u, place.node)[place.name] = n
        /\ u.nodes[n].kind # "link" /\ u.nodes[n].over = 0
    <3> DEFINE e == Entry(place.node, place.name, n)
    <3>1. TreeOf(u).count = n
      BY <2>7, TreeIs
    <3>2. e \in TreeOf(u).entries
      BY <2>5, <3>1 DEF NodeMade
    <3>3. e.dir = place.node /\ e.name = place.name /\ e.node = n
      BY EntryParts
    <3> HIDE DEF e, n
    <3>4. place.name \in DOMAIN u.nodes[place.node].kids /\ u.nodes[place.node].kids[place.name] = n
      BY <3>2, <3>3, EntryIn
    <3> QED BY <3>4, <2>5 DEF Has, Kids, Clear
  <2>10. LandsOn(s, t, Chaser(s)[x], n)
    <3>1. place = CreateIn(s, Chaser(s)[x])
      BY ChaserIs DEF place, CreateAt
    <3> HIDE DEF x, n, t
    <3> QED BY <2>3, <2>8, <2>9, <3>1 DEF LandsOn, Has, Kids
  <2>11. x \in Chases(s) /\ x.cur = from /\ x.path = p /\ x.links = 0
    BY <1>0 DEF Chases, ChaseOf
  <2>12. Sought(t, x).node = n
    <3> HIDE DEF x, n, t
    <3> QED BY <1>0, <2>10, <2>11, ChainLeads
  <2>13. Sought(t, x) = Lookup(t, "virtual", from, p, TRUE, 0)
    <3> HIDE DEF x, t
    <3> QED BY <2>11 DEF Sought
  <2> HIDE DEF t, x, n
  <2> QED BY <1>c, <2>8, <2>12, <2>13 DEF t, o
<1> QED
  BY <1>1, <1>3, <1>4 DEF o

\* open(O_CREAT) opens the node that its path leads to from then on, also a new
\* one at the end of any chain of links (resolve and create_target).
THEOREM CreatedFilesAreFound == FsSpec => []CreatedIsFound
<1>1. FsInit => Sound(m)
  BY FirstIsSound
<1>2. Sound(m) /\ [FsNext]_fsVars => Sound(m)'
  BY SoundIsKept
<1>3. Sound(m) => CreatedIsFound
  <2> DEFINE flags == {"create", "write"}
  <2> SUFFICES ASSUME Sound(m), \A n \in Nodes : ~m.nodes[n].link.slash,
                      NEW p \in Paths, ~p.slash, Open(m, 0, p, flags).err = "ok"
               PROVE  LET r == Open(m, 0, p, flags) IN
                      FromCwd(r.model, p, TRUE).node = r.model.fds[r.fd].node
    BY DEF CreatedIsFound
  <2>1. p \in Path /\ Unslashed(m)
    BY FsNames DEF FsNames, Unslashed, Nodes
  <2>2. flags = {"create", "write"}
    OBVIOUS
  <2> HIDE DEF flags
  <2> QED BY <2>1, <2>2, FsBounds, FsNames, CreatedLeads
<1> QED
  BY <1>1, <1>2, <1>3, PTL DEF FsSpec

\* connect, readlink, opendir and list agree with stat and lstat in every state
\* and about every path, although connect and readlink find the last name on
\* their own (resolve_socket, apply).
THEOREM CallsGiveOneAccount == FsSpec => []AccountsAgree
<1>1. FsInit => Sound(m)
  BY FirstIsSound
<1>2. Sound(m) /\ [FsNext]_fsVars => Sound(m)'
  BY SoundIsKept
<1>3. Sound(m) => AccountsAgree
  <2> SUFFICES ASSUME Sound(m), NEW p \in Paths
               PROVE  /\ (Stat(m, p, TRUE).is = "socket" /\ LastOf(p) \notin WideNames \cup {"."})
                           <=> Connect(m, p) = "ok"
                      /\ Stat(m, p, FALSE).is = "link" <=> Readlink(m, p).err = "ok"
                      /\ \A e \in {OpenDir(m, p).err, List(m, p).err} :
                           IsDirKind(Stat(m, p, TRUE).is) <=> e = "ok"
    BY DEF AccountsAgree
  <2>1. p \in Path
    BY FsNames DEF FsNames
  <2> QED BY <2>1, FsNames, ConnectAgrees, ReadersAgree
<1> QED
  BY <1>1, <1>2, <1>3, PTL DEF FsSpec

-----------------------------------------------------------------------------
(* FsModel: the number of links a lookup begins with                       *)

\* The walk x, with l links followed before.
Before(x, l) == WalkOf(x.cur, x.cs, x.last, x.slash, l)
\* r is what was found with at least as many links as q.
NoMore(q, r) == q.err = "ok" /\ q.node = r.node /\ q.links <= r.links
LEMMA FoundSooner ==
    ASSUME NEW n, NEW k, NEW l, k <= l
    PROVE  NoMore(Found(n, k), Found(n, l))
BY DEF NoMore, Found
LEMMA BeforeIs ==
    ASSUME NEW s, Sound(s), NEW x \in Walks(s), NEW l \in Nat
    PROVE  LET y == Before(x, l) IN
           /\ y \in Walks(s) /\ y.cur = x.cur /\ y.cs = x.cs /\ y.last = x.last
           /\ y.slash = x.slash /\ y.links = l
<1>1. /\ x.cur \in DOMAIN s.nodes /\ x.cs \in Seq(Component)
      /\ x.last \in BOOLEAN /\ x.slash \in BOOLEAN
  BY WalkParts
<1> QED
  BY <1>1, WalkOfIs DEF Before, Walks, WalkOf

\* What was found after some links is found after fewer.
LEMMA FewerLinks ==
    ASSUME FsNames, NEW s, Sound(s), NEW view, NEW x \in Walks(s),
           Walker(s, view)[x].err = "ok", NEW l \in Nat, l <= x.links
    PROVE  NoMore(Walker(s, view)[Before(x, l)], Walker(s, view)[x])
<1> DEFINE on == Walker(s, view)
           T == {y \in Walks(s) : on[y].err = "ok" =>
                   \A k \in Nat : k <= y.links => NoMore(on[Before(y, k)], on[y])}
<1>1. ASSUME NEW y \in Walks(s), \A z \in Walks(s) : Sooner(z, y) => z \in T, on[y].err = "ok",
             NEW k \in Nat, k <= y.links
      PROVE  NoMore(on[Before(y, k)], on[y])
  <2> DEFINE w == Before(y, k)
  <2>0. /\ y.cur \in DOMAIN s.nodes /\ y.links \in Nat /\ y.links >= y.links
        /\ w \in Walks(s) /\ w.cur = y.cur /\ w.cs = y.cs /\ w.last = y.last /\ w.slash = y.slash
        /\ w.links = k
    BY <1>1, WalkParts, BeforeIs
  <2> HIDE DEF w
  <2>1. CASE y.cs = <<>>
    <3>1. on[y] = Found(y.cur, y.links)
      BY <2>1, WalkerSteps
    <3>2. on[w] = Found(w.cur, w.links)
      BY <2>0, <2>1, WalkerSteps
    <3> HIDE DEF on
    <3>3. on[w] = Found(y.cur, k)
      BY <3>2, <2>0
    <3>4. NoMore(on[w], on[y])
      BY <3>1, <3>3, <1>1, FoundSooner
    <3> QED BY <3>4 DEF w
  <2>2. ASSUME y.cs # <<>>, NEW n \in DOMAIN s.nodes, NEW links \in Nat, links >= y.links,
               NEW fewer \in Nat, fewer <= links,
               on[Onward(s, view, y, n, links)].err = "ok"
        PROVE  NoMore(on[Onward(s, view, w, n, fewer)], on[Onward(s, view, y, n, links)])
    <3> DEFINE z == Onward(s, view, y, n, links)
    <3>1. z \in Walks(s) /\ Sooner(z, y) /\ z.links = links
      BY <2>2, OnwardIs
    <3>2. Onward(s, view, w, n, fewer) = Before(z, fewer)
      <4>1. /\ z.cur = Enter(s, view, n) /\ z.cs = Tail(y.cs) /\ z.last = y.last
            /\ z.slash = y.slash
        BY <2>2, OnwardIs
      <4> HIDE DEF z
      <4> QED BY <4>1, <2>0 DEF Onward, Before
    <3>3. on[z].err = "ok"
      BY <2>2
    <3> HIDE DEF z, on
    <3>4. NoMore(on[Before(z, fewer)], on[z])
      BY <3>1, <3>3, <1>1, <2>2
    <3> QED BY <3>2, <3>4 DEF z
  <2>3. CASE y.cs # <<>> /\ Head(y.cs) = ".."
    <3> DEFINE n == Up(s, view, y.cur)
    <3>1. on[y] = on[Onward(s, view, y, n, y.links)]
      BY <2>3, WalkerSteps
    <3>2. on[w] = on[Onward(s, view, w, Up(s, view, w.cur), w.links)]
      BY <2>0, <2>3, WalkerSteps
    <3>3. n \in DOMAIN s.nodes
      BY <2>0, TurnsAre
    <3>4. on[w] = on[Onward(s, view, w, n, k)]
      BY <3>2, <2>0
    <3> HIDE DEF n, on
    <3> QED BY <3>1, <3>3, <3>4, <2>0, <2>2, <2>3, <1>1 DEF w
  <2>4. CASE y.cs # <<>> /\ Head(y.cs) # ".." /\ ~Named1(s, y)
    <3>1. \E e \in Errnos \ {"ok"} : on[y] = Lost(e, y.links)
      BY <1>1, <2>4, WalkerSteps
    <3> QED BY <3>1, <1>1, FoundIs
  <2>5. CASE Named1(s, y)
    <3> DEFINE r == NextNode(s, view, y, on)
               q == NextNode(s, view, w, on)
               n == FirstKid(s, y)
               link == s.nodes[n].link
    <3>1. /\ r \in Within(s, y) /\ (r.err # "ok" => on[y] = r)
          /\ r.err = "ok" /\ ~Suits(s, y, r.node) => on[y] = Lost("ENOTDIR", r.links)
          /\ r.err = "ok" /\ Suits(s, y, r.node) => on[y] = on[Onward(s, view, y, r.node, r.links)]
      BY <2>5, WalkerSteps
    <3>2. /\ n \in DOMAIN s.nodes /\ link \in Path
          /\ ~Follows(s, y, n) => r = Found(n, y.links)
          /\ Follows(s, y, n) /\ (y.links + 1 > MaxLinks \/ IsEmptyPath(link)) =>
               r = Lost(IF y.links + 1 > MaxLinks THEN "ELOOP" ELSE "ENOENT", y.links + 1)
          /\ Follows(s, y, n) /\ ~(y.links + 1 > MaxLinks \/ IsEmptyPath(link)) =>
               /\ r = on[Through(s, view, y, link)]
               /\ Through(s, view, y, link) \in Walks(s)
               /\ Sooner(Through(s, view, y, link), y)
      BY <2>5, NextSteps
    <3>3. Named1(s, w) /\ FirstKid(s, w) = n /\ (Follows(s, w, n) <=> Follows(s, y, n))
      BY <2>0, <2>5 DEF Named1, FirstKid, Follows
    <3>4. /\ ~Follows(s, w, FirstKid(s, w)) => q = Found(FirstKid(s, w), w.links)
          /\ Follows(s, w, FirstKid(s, w))
             /\ ~(w.links + 1 > MaxLinks \/ IsEmptyPath(s.nodes[FirstKid(s, w)].link)) =>
               q = on[Through(s, view, w, s.nodes[FirstKid(s, w)].link)]
      BY <2>0, <3>3, NextSteps
    <3>5. q.err = "ok" /\ Suits(s, w, q.node) => on[w] = on[Onward(s, view, w, q.node, q.links)]
      BY <2>0, <3>3, WalkerSteps
    <3>6. Through(s, view, w, link) = Before(Through(s, view, y, link), k + 1)
      <4> DEFINE z == Through(s, view, y, link)
      <4>1. /\ z.cur = Origin(s, view, y.cur, link) /\ z.cs = Real(link)
            /\ z.last = TRUE /\ z.slash = AsksDir(link)
        BY DEF Through, WalkOf
      <4> HIDE DEF z, link
      <4> QED BY <4>1, <2>0 DEF Through, Before, z
    <3>7. Through(s, view, y, link).links = y.links + 1
      BY DEF Through, WalkOf
    <3> HIDE DEF r, q, n, link, on
    <3>8. r.err = "ok" /\ on[y] = on[Onward(s, view, y, r.node, r.links)] /\ Suits(s, y, r.node)
      BY <3>1, <1>1, FoundIs
    <3>9. r.node \in DOMAIN s.nodes /\ r.links \in Nat /\ r.links >= y.links
      BY <3>1, <3>8 DEF Within, Outcomes
    <3>10. NoMore(q, r) /\ q.links \in Nat
      <4>1. CASE ~Follows(s, y, n)
        <5>1. q = Found(n, k) /\ r = Found(n, y.links)
          BY <4>1, <3>2, <3>3, <3>4, <2>0
        <5>2. NoMore(q, r)
          BY <5>1, FoundSooner, <1>1
        <5>3. q.links \in Nat
          BY <5>1, <1>1 DEF Found
        <5> QED BY <5>2, <5>3
      <4>2. CASE Follows(s, y, n)
        <5>1. ~(y.links + 1 > MaxLinks \/ IsEmptyPath(link)) /\ MaxLinks \in Nat
          BY <4>2, <3>2, <3>8, FoundIs, FsNames
        <5>2. ~(k + 1 > MaxLinks \/ IsEmptyPath(link)) /\ k + 1 \in Nat /\ k + 1 <= y.links + 1
          BY <5>1, <1>1, <2>0
        <5> DEFINE z == Through(s, view, y, link)
        <5>3. r = on[z] /\ z \in Walks(s) /\ Sooner(z, y) /\ z.links = y.links + 1
          BY <4>2, <5>1, <3>2, <3>7
        <5>4. q = on[Before(z, k + 1)]
          BY <4>2, <5>2, <3>3, <3>4, <3>6, <2>0 DEF link
        <5> HIDE DEF z
        <5> DEFINE more == k + 1
        <5>5. more \in Nat /\ more <= z.links
          BY <5>2, <5>3
        <5>6. q = on[Before(z, more)]
          BY <5>4
        <5> HIDE DEF more
        <5>7. NoMore(on[Before(z, more)], on[z])
          BY <5>3, <5>5, <3>8, <1>1
        <5>8. Before(z, more) \in Walks(s)
          BY <5>3, <5>5, BeforeIs
        <5>9. on[Before(z, more)].links \in Nat /\ NoMore(q, r)
          BY <5>3, <5>6, <5>7, <5>8, WalkerIs DEF on, Walkers, Outcomes
        <5> QED BY <5>3, <5>6, <5>7, <5>9
      <4> QED BY <4>1, <4>2
    <3>11. on[w] = on[Onward(s, view, w, r.node, q.links)]
      BY <3>5, <3>8, <3>10, <2>0 DEF Suits, NoMore
    <3>12. on[Onward(s, view, y, r.node, r.links)].err = "ok" /\ y.cs # <<>>
      BY <3>8, <1>1, <2>5 DEF Named1
    <3> DEFINE d == r.node
               more == r.links
               fewer == q.links
    <3>13. d \in DOMAIN s.nodes /\ more \in Nat /\ more >= y.links /\ fewer \in Nat /\ fewer <= more
      BY <3>9, <3>10 DEF NoMore
    <3>14. /\ on[Onward(s, view, y, d, more)].err = "ok" /\ on[w] = on[Onward(s, view, w, d, fewer)]
           /\ on[y] = on[Onward(s, view, y, d, more)]
      BY <3>8, <3>11, <3>12
    <3> HIDE DEF d, more, fewer
    <3>15. NoMore(on[Onward(s, view, w, d, fewer)], on[Onward(s, view, y, d, more)])
      BY <3>12, <3>13, <3>14, <2>2
    <3> QED BY <3>14, <3>15 DEF w
  <2> QED BY <2>1, <2>3, <2>4, <2>5 DEF Named1
<1> HIDE DEF on
<1>2. Inherits(s, T)
  BY <1>1 DEF Inherits
<1>3. Walks(s) \subseteq T
  <2> HIDE DEF T
  <2> QED BY <1>2, WalkInduction
<1> QED
  BY <1>3 DEF on

\* The last name of a path, in the directory d that the walk came to: what was
\* found is the node of that name, or what its link leads to.
NameStep(d, c, slash, links) == WalkOf(d, <<c>>, TRUE, slash, links)
Stepped(s, d, c, slash, links) ==
    /\ Clear(s, d) /\ links \in Nat /\ slash \in BOOLEAN /\ c \in Component \ {".", ".."}
    /\ Walker(s, "virtual")[NameStep(d, c, slash, links)].err = "ok"
StepTells(s, d, c, slash, links) ==
    LET n == Kids(s, d)[c]
        r == Lookup(s, "virtual", d, s.nodes[n].link, TRUE, links + 1)
        to == Walker(s, "virtual")[NameStep(d, c, slash, links)]
    IN  /\ IsDir(s, d) /\ Has(s, d, c)
        /\ s.nodes[n].kind # "link" => to.node = Enter(s, "virtual", n)
        /\ s.nodes[n].kind = "link" => links + 1 <= MaxLinks /\ r.err = "ok" /\ to.node = r.node
LEMMA StepIsTold ==
    ASSUME FsNames, NEW s, Sound(s), NEW d, NEW c, NEW slash, NEW links,
           Stepped(s, d, c, slash, links)
    PROVE  StepTells(s, d, c, slash, links)
<1> DEFINE n == Kids(s, d)[c]
           x == NameStep(d, c, slash, links)
           link == s.nodes[n].link
           r == Lookup(s, "virtual", d, link, TRUE, links + 1)
           on == Walker(s, "virtual")
           q == NextNode(s, "virtual", x, on)
<1>1. /\ d \in DOMAIN s.nodes /\ c \in Component /\ c \notin {".", ".."} /\ links \in Nat
      /\ slash \in BOOLEAN
  BY DEF Stepped, Clear
<1>2. /\ x.cur = d /\ x.cs = <<c>> /\ x.last = TRUE /\ x.slash = slash /\ x.links = links
      /\ x \in Walks(s)
  <2>1. <<c>> \in Seq(Component)
    BY <1>1, AppendIs
  <2> QED BY <1>1, <2>1, WalkOfIs DEF NameStep, Walks, WalkOf
<1>3. Head(x.cs) = c /\ Tail(x.cs) = <<>> /\ x.cs # <<>>
  BY <1>2
<1>ok. on[x].err = "ok"
  BY DEF Stepped
<1> HIDE DEF x
<1>4. Named1(s, x)
  <2> SUFFICES ASSUME ~Named1(s, x) PROVE FALSE
    OBVIOUS
  <2>0. x \in Walks(s) /\ x.cs # <<>> /\ Head(x.cs) # ".." /\ ~Named1(s, x)
    BY <1>1, <1>2, <1>3
  <2>1. \E e \in Errnos \ {"ok"} : on[x] = Lost(e, x.links)
    BY <2>0, WalkerSteps
  <2> QED BY <2>1, <1>ok, FoundIs
<1>5. FirstKid(s, x) = n /\ IsDir(s, d) /\ Has(s, d, c)
  BY <1>2, <1>3, <1>4 DEF Named1, FirstKid
<1>6. n \in DOMAIN s.nodes /\ n \in Nat /\ link \in Path
  <2>1. n \in DOMAIN s.nodes
    BY <1>1, <1>5, NodesAre DEF Kids, Has
  <2> HIDE DEF n
  <2> QED BY <2>1, NodesAre DEF NodePlain
<1> HIDE DEF n
<1>7. \A k \in DOMAIN s.nodes : \A i \in Nat :
        i >= links => on[Onward(s, "virtual", x, k, i)] = Found(Enter(s, "virtual", k), i)
  <2> TAKE k \in DOMAIN s.nodes
  <2> TAKE i \in Nat
  <2> HAVE i >= links
  <2> DEFINE z == Onward(s, "virtual", x, k, i)
  <2>0. x \in Walks(s) /\ x.cs # <<>> /\ i >= x.links /\ Tail(x.cs) = <<>>
    BY <1>2, <1>3
  <2>1. z \in Walks(s) /\ z.links = i /\ z.cur = Enter(s, "virtual", k) /\ z.cs = <<>>
    <3> DEFINE view == "virtual"
    <3> HIDE DEF view
    <3>1. /\ Onward(s, view, x, k, i) \in Walks(s) /\ Onward(s, view, x, k, i).links = i
          /\ Onward(s, view, x, k, i).cur = Enter(s, view, k)
          /\ Onward(s, view, x, k, i).cs = Tail(x.cs)
      BY <2>0, OnwardIs
    <3> QED BY <2>0, <3>1 DEF view
  <2> HIDE DEF z
  <2>2. on[z] = Found(z.cur, z.links)
    BY <2>1, WalkerSteps
  <2> QED BY <2>1, <2>2 DEF z
<1>8. /\ q \in Within(s, x) /\ (q.err # "ok" => on[x] = q)
      /\ q.err = "ok" /\ ~Suits(s, x, q.node) => on[x] = Lost("ENOTDIR", q.links)
      /\ q.err = "ok" /\ Suits(s, x, q.node) => on[x] = on[Onward(s, "virtual", x, q.node, q.links)]
  BY <1>2, <1>4, WalkerSteps
<1>9. /\ ~Follows(s, x, n) => q = Found(n, links)
      /\ Follows(s, x, n) /\ (links + 1 > MaxLinks \/ IsEmptyPath(link)) =>
           q = Lost(IF links + 1 > MaxLinks THEN "ELOOP" ELSE "ENOENT", links + 1)
      /\ Follows(s, x, n) /\ ~(links + 1 > MaxLinks \/ IsEmptyPath(link)) =>
           q = on[Through(s, "virtual", x, link)]
  BY <1>2, <1>4, <1>5, NextSteps
<1>10. Follows(s, x, n) <=> s.nodes[n].kind = "link"
  BY <1>2 DEF Follows
<1>11. ~IsEmptyPath(link) => r = on[Through(s, "virtual", x, link)]
  <2> DEFINE yes == TRUE
             l == links + 1
             view == "virtual"
  <2>1. LookupOf(s, view, d, link, yes, l) = Through(s, "virtual", x, link)
    BY <1>2 DEF LookupOf, Through
  <2> HIDE DEF yes, l, link, view
  <2>2. Lookup(s, view, d, link, yes, l) =
          IF IsEmptyPath(link) THEN Lost("ENOENT", l)
          ELSE Walker(s, view)[LookupOf(s, view, d, link, yes, l)]
    BY LookupWalks
  <2>3. r = Lookup(s, view, d, link, yes, l) /\ on = Walker(s, view)
    BY DEF yes, l, view
  <2> HIDE DEF r, on
  <2> QED BY <2>1, <2>2, <2>3 DEF l
<1> HIDE DEF q, on, r
<1>12. /\ q.err = "ok" /\ on[x].node = Enter(s, "virtual", q.node)
       /\ q.node \in DOMAIN s.nodes
  <2>1. q.err = "ok" /\ Suits(s, x, q.node)
    BY <1>8, <1>ok, FoundIs
  <2>2. q.node \in DOMAIN s.nodes /\ q.links \in Nat /\ q.links >= links
    BY <1>2, <1>8, <2>1 DEF Within, Outcomes
  <2>3. on[x] = on[Onward(s, "virtual", x, q.node, q.links)]
    BY <2>1, <1>8
  <2>4. on[x] = Found(Enter(s, "virtual", q.node), q.links)
    BY <2>2, <2>3, <1>7
  <2> QED BY <2>1, <2>2, <2>4, FoundIs
<1>13. s.nodes[n].kind # "link" => on[x].node = Enter(s, "virtual", n)
  BY <1>9, <1>10, <1>12, FoundIs
<1>14. ASSUME s.nodes[n].kind = "link"
       PROVE  links + 1 <= MaxLinks /\ r.err = "ok" /\ on[x].node = r.node
  <2>1. ~(links + 1 > MaxLinks \/ IsEmptyPath(link)) /\ MaxLinks \in Nat
    BY <1>9, <1>10, <1>12, <1>14, FoundIs, FsNames
  <2>2. q = r
    <3> HIDE DEF link
    <3> QED BY <2>1, <1>9, <1>10, <1>11, <1>14
  <2>3. Clear(s, r.node)
    <3>1. links + 1 \in Nat /\ TRUE \in BOOLEAN
      BY <1>1
    <3>2. r.err = "ok"
      BY <2>2, <1>12
    <3> HIDE DEF link
    <3> QED BY <3>1, <3>2, <1>1, <1>6, LookupFinds DEF r
  <2> QED BY <2>1, <2>2, <2>3, <1>1, <1>12 DEF Enter, Clear
<1> QED
  BY <1>5, <1>13, <1>14 DEF n, x, on, r, StepTells

\* A lookup through links goes to the path's directory, and one name on.
GoesBy(s, start, p, links) ==
    LET q == Resolve(s, "virtual", start, DirOf(p), TRUE) IN
    /\ q.err = "ok" /\ IsDir(s, q.node)
    /\ \E l \in Nat : /\ l >= links
                      /\ Lookup(s, "virtual", start, p, TRUE, links) =
                           Walker(s, "virtual")[NameStep(q.node, LastOf(p), AsksDir(p), l)]
LEMMA DirectoryThen ==
    ASSUME FsNames, NEW s, Sound(s), NEW start, NEW p, Splits(s, start, p), IsDir(s, start),
           LastOf(p) # ".", NEW links \in Nat, Lookup(s, "virtual", start, p, TRUE, links).err = "ok"
    PROVE  GoesBy(s, start, p, links)
<1> DEFINE on == Walker(s, "virtual")
           x == DirWalk(s, start, p)
           y == NameWalk(s, start, p)
           xl == Before(x, links)
           z == AsDir(xl)
           c == LastOf(p)
           slash == AsksDir(p)
<1>1. /\ x \in Walks(s) /\ x.cur = Origin(s, "virtual", start, p)
      /\ x.last /\ x.slash = FALSE
      /\ y = Further(x, c, TRUE, slash)
      /\ Resolve(s, "virtual", start, DirOf(p), TRUE) = on[x]
  BY LookupSplits
<1>2. c \in Component /\ slash \in BOOLEAN /\ ~IsEmptyPath(p)
  BY DirOfIs DEF AsksDir, Path, Splits, IsEmptyPath
<1>3. Lookup(s, "virtual", start, p, TRUE, links) = on[Before(y, links)]
  <2> DEFINE yes == TRUE
             view == "virtual"
  <2>1. LookupOf(s, view, start, p, yes, links) = Before(y, links)
    BY DEF LookupOf, NameWalk, Before, WalkOf
  <2> HIDE DEF yes, view, y
  <2>2. Lookup(s, view, start, p, yes, links) =
          IF IsEmptyPath(p) THEN Lost("ENOENT", links)
          ELSE Walker(s, view)[LookupOf(s, view, start, p, yes, links)]
    BY LookupWalks
  <2> QED BY <1>2, <2>1, <2>2 DEF yes, view
<1>x. x.links = 0
  BY DEF DirWalk, LookupOf, WalkOf
<1>y. /\ y.cur = x.cur /\ y.cs = Append(x.cs, c) /\ y.last = TRUE /\ y.slash = slash
  <2> HIDE DEF x, y, c, slash
  <2> QED BY <1>1 DEF Further, WalkOf
<1> HIDE DEF on, x, y, c, slash
<1>4. IsDir(s, x.cur)
  <2>1. start \in DOMAIN s.nodes
    BY DEF Splits
  <2>2. IsDir(s, Origin(s, "virtual", start, p))
    BY <2>1, TurnsToDirs
  <2> QED BY <1>1, <2>2
<1>5. /\ xl \in Walks(s) /\ xl.cur = x.cur /\ xl.cs = x.cs /\ xl.last = x.last
      /\ xl.slash = x.slash /\ xl.links = links
  <2>1. x \in Walks(s) /\ links \in Nat
    BY <1>1
  <2> QED BY <2>1, BeforeIs
<1>6. Before(xl, 0) = x
  <2> HIDE DEF xl
  <2>1. Before(xl, 0) = WalkOf(x.cur, x.cs, x.last, x.slash, x.links)
    BY <1>5, <1>x DEF Before
  <2> QED BY <2>1, <1>1 DEF WalkOf, Walks
<1> HIDE DEF xl
<1>7. on[z] = EndsInDir(s, on[xl])
  <2>1. xl \in Walks(s) /\ xl.last /\ ~xl.slash /\ IsDir(s, xl.cur)
    BY <1>1, <1>4, <1>5
  <2> QED BY <2>1, AsDirFinds DEF on, z
<1>8. z \in Walks(s) /\ z.last /\ z.slash /\ z.cur = x.cur /\ z.cs = x.cs /\ z.links = links
  BY <1>5, AsDirIs
<1> HIDE DEF z
<1>9. Before(y, links) = Further(z, c, TRUE, slash)
  BY <1>y, <1>8 DEF Before, Further
<1>10. on[Before(y, links)] = Goes(s, on, on[z], c, TRUE, slash)
  <2> DEFINE yes == TRUE
  <2>1. yes \in BOOLEAN
    OBVIOUS
  <2> HIDE DEF yes
  <2>2. on[Further(z, c, yes, slash)] = Goes(s, on, on[z], c, yes, slash)
    BY <1>2, <1>8, <2>1, FurtherIs DEF on
  <2> QED BY <1>9, <2>2 DEF yes
<1>11. on[z].err = "ok"
  BY <1>3, <1>10 DEF Goes
<1>12. on[xl].err = "ok" /\ IsDir(s, on[xl].node) /\ on[z] = on[xl]
  BY <1>7, <1>11, FoundIs DEF EndsInDir
<1>13. on[x].err = "ok" /\ on[x].node = on[xl].node
  <2> DEFINE none == 0
  <2>1. none \in Nat /\ none <= xl.links
    BY <1>5
  <2> HIDE DEF none
  <2>2. NoMore(on[Before(xl, none)], on[xl])
    BY <1>5, <1>12, <2>1, FewerLinks DEF on
  <2> QED BY <2>2, <1>6 DEF none, NoMore
<1>14. on[xl].links \in Nat /\ on[xl].links >= links
  BY <1>5, WalkerIs, WalkerSteps DEF on, Within, Outcomes
<1>15. on[Before(y, links)] = on[NameStep(on[x].node, c, slash, on[xl].links)]
  BY <1>10, <1>11, <1>12, <1>13 DEF Goes, NameStep
<1> QED
  BY <1>1, <1>3, <1>12, <1>13, <1>14, <1>15 DEF GoesBy, on, c, slash

-----------------------------------------------------------------------------
(* FsDriver: what the guards let through                                   *)

\* The guard of each chase, and its parts: the place, and where it goes on.
Guard == CHOOSE f : f = [x \in Chases(m) |-> GuardedBy(x, f)]
Spot(x) == ParentUnchecked(m, Found(x.cur, 0), x.path)
SpotNode(x) == m.nodes[Kids(m, Spot(x).node)[Spot(x).name]]
Watches(x) ==
    /\ Spot(x).err = "ok" /\ x.links > 0
    /\ Has(m, Spot(x).node, Spot(x).name) /\ SpotNode(x).kind = "link"
NextWatch(x) ==
    ChaseOf(IF SpotNode(x).link.abs THEN RootNode ELSE Spot(x).node, SpotNode(x).link, x.links - 1)
\* What the guard finds at x itself.
Passed(x) ==
    LET end == Resolve(m, "virtual", x.cur, x.path, TRUE) IN
    /\ Spot(x).err = "EINVAL" => (end.err = "ok" => Inside(end.node))
    /\ Spot(x).err = "ok" => ParentAllowed(Spot(x))

LEMMA GuardedIs ==
    ASSUME NEW x, NEW on, Watches(x) => on[NextWatch(x)] \in BOOLEAN
    PROVE  GuardedBy(x, on) \in BOOLEAN
           /\ (GuardedBy(x, on) <=> Passed(x) /\ (Watches(x) => on[NextWatch(x)]))
<1>1. CASE Spot(x).err = "EINVAL"
  <2>1. GuardedBy(x, on) = (LET end == Resolve(m, "virtual", x.cur, x.path, TRUE)
                            IN  end.err = "ok" => Inside(end.node))
    BY <1>1 DEF GuardedBy, GuardedAt, Spot
  <2> QED BY <1>1, <2>1 DEF Passed, Watches
<1>2. CASE Spot(x).err \notin {"ok", "EINVAL"}
  <2>1. GuardedBy(x, on) = TRUE
    BY <1>2 DEF GuardedBy, GuardedAt, Spot
  <2> QED BY <1>2, <2>1 DEF Passed, Watches
<1>3. CASE Spot(x).err = "ok"
  <2>1. GuardedBy(x, on) = (/\ ParentAllowed(Spot(x))
                            /\ (/\ x.links > 0 /\ Has(m, Spot(x).node, Spot(x).name)
                                /\ SpotNode(x).kind = "link") => on[NextWatch(x)])
    BY <1>3 DEF GuardedBy, GuardedAt, Spot, SpotNode, NextWatch
  <2> QED BY <1>3, <2>1 DEF Passed, Watches
<1> QED
  BY <1>1, <1>2, <1>3

\* The place that a guard looks at.
LEMMA SpotIs ==
    ASSUME FsNames, Sound(m), NEW x \in Chases(m), Spot(x).err = "ok"
    PROVE  /\ Spot(x).node \in DOMAIN m.nodes /\ Spot(x).name = LastOf(x.path)
           /\ Clear(m, x.cur) => Clear(m, Spot(x).node)
           /\ x.path.comps # <<>> /\ LastOf(x.path) \in Component \ {".", ".."}
           /\ IsEmptyPath(DirOf(x.path)) => Spot(x).node = x.cur
           /\ ~IsEmptyPath(DirOf(x.path)) =>
                Resolve(m, "virtual", x.cur, DirOf(x.path), TRUE).err = "ok"
                /\ Spot(x).node = Resolve(m, "virtual", x.cur, DirOf(x.path), TRUE).node
<1> DEFINE p == x.path
           here == Found(x.cur, 0)
           r == Resolve(m, "virtual", x.cur, DirOf(p), TRUE)
           place == Spot(x)
<1>0. x.cur \in DOMAIN m.nodes /\ p \in Path
  BY DEF Chases
<1>1. place.err = "ok" /\ place = ParentUnchecked(m, here, p)
  BY DEF Spot
<1>2. here.err = "ok" /\ here.node = x.cur
  BY DEF Found
<1> HIDE DEF place, here, p
<1>3. ~IsEmptyPath(p) /\ p.comps # <<>> /\ LastOf(p) \notin {".", ".."}
  BY <1>1 DEF ParentUnchecked, NoPlace
<1>4. DirOf(p) \in Path /\ LastOf(p) \in Component
  BY <1>0, <1>3, DirOfIs
<1>5. CASE IsEmptyPath(DirOf(p))
  <2>1. place = PlaceIn(here, p)
    BY <1>1, <1>3, <1>5 DEF ParentUnchecked
  <2>2. place.node = x.cur /\ place.name = LastOf(p)
    BY <2>1, <1>2, PlaceIs DEF PlaceIn
  <2> QED BY <1>0, <1>3, <1>4, <1>5, <2>2 DEF place, p
<1>6. CASE ~IsEmptyPath(DirOf(p))
  <2>1. place = PlaceIn(Resolve(m, "virtual", here.node, DirOf(p), TRUE), p)
    BY <1>1, <1>2, <1>3, <1>6 DEF ParentUnchecked
  <2>2. place = PlaceIn(r, p)
    BY <2>1, <1>2
  <2>4. r = Lookup(m, "virtual", x.cur, DirOf(p), TRUE, 0)
    BY DEF Resolve
  <2> HIDE DEF r
  <2>3. r.err = "ok" /\ place.node = r.node /\ place.name = LastOf(p)
    BY <2>2, <1>1, PlaceIs DEF PlaceIn
  <2>5. r.node \in DOMAIN m.nodes /\ Clear(m, r.node)
    BY <1>0, <1>4, <2>3, <2>4, LookupFinds
  <2> QED BY <1>3, <1>4, <1>6, <2>3, <2>5 DEF place, p, r
<1> QED
  BY <1>5, <1>6

\* The chase that a guard goes on with.
LEMMA NextWatchIs ==
    ASSUME FsNames, Sound(m), NEW x \in Chases(m), Watches(x)
    PROVE  /\ NextWatch(x) \in Chases(m) /\ NextWatch(x).links = x.links - 1
           /\ x.links \in Nat \ {0}
           /\ NextWatch(x).path = SpotNode(x).link
           /\ NextWatch(x).cur = IF SpotNode(x).link.abs THEN RootNode ELSE Spot(x).node
<1>1. Spot(x).node \in DOMAIN m.nodes /\ x.links \in Nat /\ x.links > 0
  BY SpotIs DEF Watches, Chases
<1>2. SpotNode(x).link \in Path
  <2> DEFINE n == Kids(m, Spot(x).node)[Spot(x).name]
  <2>1. n \in DOMAIN m.nodes
    BY <1>1, NodesAre DEF Watches, Has, Kids
  <2> HIDE DEF n
  <2>2. m.nodes[n].link \in Path
    BY <2>1, NodesAre DEF NodePlain
  <2> QED BY <2>2 DEF n, SpotNode
<1>3. RootNode \in DOMAIN m.nodes
  BY NodesAre
<1> QED
  BY <1>1, <1>2, <1>3 DEF NextWatch, ChaseOf, Chases

\* So the recursion of the guard is defined.
LEMMA GuardIs ==
    ASSUME FsNames, Sound(m)
    PROVE  /\ \A x \in Chases(m) :
                /\ Guard[x] \in BOOLEAN
                /\ Guard[x] => Passed(x) /\ (Watches(x) => Guard[NextWatch(x)])
           /\ \A start, p, links : Guarded(start, p, links) = Guard[ChaseOf(start.node, p, links)]
<1> DEFINE D == Chases(m)
           V == BOOLEAN
           W == [x \in D |-> V]
           F == {f \in [D -> V] : \A x \in D : f[x] \in W[x]}
           G == [x \in D |-> [f \in F |-> GuardedBy(x, f)]]
           a == [x \in D |-> x.links]
           b == [x \in D |-> 0]
           P(f) == f = [x \in Chases(m) |-> GuardedBy(x, f)]
           R == Guard
<1>1. \A x, y \in D : y.links < x.links => Lower(a, b, y, x)
  BY DEF Lower
<1>2. a \in [D -> Nat] /\ b \in [D -> Nat]
  BY DEF Chases
<1>n. \A x \in D : Watches(x) => NextWatch(x) \in D /\ NextWatch(x).links < x.links
  BY NextWatchIs
<1>3. \A x \in D, f \in F :
        /\ GuardedBy(x, f) \in V
        /\ GuardedBy(x, f) <=> Passed(x) /\ (Watches(x) => f[NextWatch(x)])
  <2> TAKE x \in D, f \in F
  <2>1. Watches(x) => f[NextWatch(x)] \in BOOLEAN
    <3> HIDE DEF D
    <3> QED BY <1>n
  <2> HIDE DEF F, D
  <2> QED BY <2>1, GuardedIs
<1>4. \A x \in D, f, g \in F :
        (\A y \in D : Lower(a, b, y, x) => f[y] = g[y]) => G[x][f] = G[x][g]
  <2> TAKE x \in D, f \in F, g \in F
  <2> HAVE \A y \in D : Lower(a, b, y, x) => f[y] = g[y]
  <2>1. Watches(x) => f[NextWatch(x)] = g[NextWatch(x)]
    <3> HIDE DEF F, D, a, b
    <3> QED BY <1>1, <1>n
  <2>2. G[x][f] = GuardedBy(x, f) /\ G[x][g] = GuardedBy(x, g)
    OBVIOUS
  <2>3. GuardedBy(x, f) \in V /\ GuardedBy(x, g) \in V
        /\ (GuardedBy(x, f) <=> GuardedBy(x, g))
    <3> HIDE DEF F, D
    <3> QED BY <2>1, <1>3
  <2> HIDE DEF F, a, b, D, G
  <2> QED BY <2>2, <2>3
<1>5. Recurses(D, a, b, V, W, F, G)
  <2>1. W \in [D -> SUBSET V]
    OBVIOUS
  <2>2. \A x \in D : W[x] # {}
    OBVIOUS
  <2>3. G \in [D -> [F -> V]] /\ \A x \in D, f \in F : G[x][f] \in W[x]
    <3> HIDE DEF F, D
    <3> QED BY <1>3
  <2> HIDE DEF D, V, W, G, a, b
  <2> QED BY <1>2, <1>4, <2>1, <2>2, <2>3 DEF Recurses
<1>6. \E f : P(f) /\ f \in F
  <2> HIDE DEF V, W, a, b
  <2>1. PICK f \in F : \A x \in D : f[x] = G[x][f]
    <3> HIDE DEF D, F, G
    <3> QED BY <1>5, RecursionExists
  <2>2. f = [x \in D |-> GuardedBy(x, f)]
    <3>1. f \in [D -> V]
      OBVIOUS
    <3>2. \A x \in D : f[x] = GuardedBy(x, f)
      BY <2>1
    <3> HIDE DEF D, F, G
    <3> QED BY <3>1, <3>2
  <2> QED BY <2>1, <2>2
<1>7. P(R)
  <2>1. R = CHOOSE f : P(f)
    BY DEF Guard
  <2> HIDE DEF P, R, F
  <2> QED BY <1>6, <2>1, Zenon
<1>8. \A start, p, links : Guarded(start, p, links) = R[ChaseOf(start.node, p, links)]
  BY DEF Guarded, Guard
<1> HIDE DEF R
<1>9. \A x \in D : R[x] = GuardedBy(x, R)
  BY <1>7
<1>10. \A x \in D : R[x] \in BOOLEAN
  <2> DEFINE T == {x \in D : R[x] \in BOOLEAN}
  <2>1. Hereditary(D, a, b, T)
    <3>1. ASSUME NEW x \in D, \A y \in D : Lower(a, b, y, x) => y \in T
          PROVE  x \in T
      <4>1. Watches(x) => R[NextWatch(x)] \in BOOLEAN
        <5>1. Watches(x) => NextWatch(x) \in T
          <6> HIDE DEF T, D, a, b
          <6> QED BY <3>1, <1>1, <1>n
        <5> QED BY <5>1
      <4>2. GuardedBy(x, R) \in BOOLEAN
        BY <4>1, GuardedIs
      <4> QED BY <4>2, <1>9
    <3> HIDE DEF T, D, a, b
    <3> QED BY <3>1, <1>2 DEF Hereditary
  <2>2. D \subseteq T
    <3> HIDE DEF T, D, a, b
    <3> QED BY <2>1, RankInduction
  <2> QED BY <2>2
<1>11. ASSUME NEW x \in D, R[x] PROVE Passed(x) /\ (Watches(x) => R[NextWatch(x)])
  <2>1. Watches(x) => R[NextWatch(x)] \in BOOLEAN
    BY <1>n, <1>10
  <2>2. GuardedBy(x, R) <=> Passed(x) /\ (Watches(x) => R[NextWatch(x)])
    BY <2>1, GuardedIs
  <2>3. GuardedBy(x, R)
    BY <1>9, <1>11
  <2> QED BY <2>2, <2>3
<1> QED
  BY <1>8, <1>10, <1>11 DEF R

\* What is mounted has a parent in the process's view.
Mounts(s) == \A h \in DOMAIN s.nodes : s.nodes[h].over # 0 => s.nodes[s.nodes[h].over].vup # 0
\* The guards may leave to a call what is inside the run's own directories, and
\* what is mounted, which no call moves or removes.
Spare(n) == Inside(n) \/ m.nodes[n].vup # 0
Covered(x, k) ==
    LET r == Lookup(m, "virtual", x.cur, x.path, TRUE, k) IN r.err = "ok" => Spare(r.node)

\* What is in a directory inside is inside.
LEMMA KidIsInside ==
    ASSUME Sound(m), NEW d \in DOMAIN m.nodes, NEW c, Has(m, d, c),
           Inside(d) \/ Kids(m, d)[c] \in Sandboxes(m)
    PROVE  Inside(Kids(m, d)[c])
<1> DEFINE n == Kids(m, d)[c]
           t == TreeOf(m)
           e == Entry(d, c, n)
<1>1. e.dir = d /\ e.name = c /\ e.node = n
  BY EntryParts
<1>2. e = Entry(e.dir, e.name, e.node)
  BY <1>1
<1> HIDE DEF e
<1>3. e \in t.entries
  BY <1>1, <1>2, EntryIn DEF Has, Kids
<1>4. OneTree(t) /\ ModelShape(m)
  BY DEF Sound
<1>5. /\ n \in 1..t.count /\ n # Top /\ t.up[n] = d
  BY <1>1, <1>3, <1>4 DEF OneTree, TreeTypeOK, Named
<1>6. t.above[n] = {n} \cup t.above[d] /\ t.count \in Nat /\ d \in 1..t.count
  <2>1. t.count \in Nat /\ n \in 2..t.count
    BY <1>4, <1>5 DEF OneTree, TreeTypeOK, Top
  <2>2. d \in 1..t.count
    BY <1>4, TreeIs
  <2> QED BY <1>4, <1>5, <2>1, <2>2 DEF OneTree, Rooted, RootedBy
<1>7. \A x \in 1..t.count : t.above[x] = Ancestors(m, x)
  <2>1. t.count = Len(m.nodes)
    BY <1>4, TreeIs
  <2> QED BY <1>4, <2>1, TreeIs
<1> HIDE DEF n, t
<1>8. Ancestors(m, n) = {n} \cup Ancestors(m, d)
  BY <1>5, <1>6, <1>7
<1> QED
  BY <1>8 DEF Inside, n

\* One step of the guard: at x it covers what x leads to, if further along it
\* covers what comes there.
LEMMA CoverStep ==
    ASSUME FsNames, Sound(m), Mounts(m), NEW x \in Chases(m), Passed(x),
           Clear(m, x.cur), IsDir(m, x.cur), NEW k \in Nat, k + x.links > MaxLinks,
           Watches(x) =>
             \A l \in Nat : l + (x.links - 1) > MaxLinks => Covered(NextWatch(x), l)
    PROVE  Covered(x, k)
<1> DEFINE p == x.path
           r == Lookup(m, "virtual", x.cur, p, TRUE, k)
           on == Walker(m, "virtual")
           c == LastOf(p)
           d == Spot(x).node
           slash == AsksDir(p)
<1> SUFFICES ASSUME r.err = "ok" PROVE Spare(r.node)
  BY DEF Covered
<1>0. x.cur \in DOMAIN m.nodes /\ p \in Path /\ x.links \in Nat /\ MaxLinks \in Nat
  BY FsNames DEF Chases
<1>s. slash \in BOOLEAN
  BY <1>0 DEF AsksDir, Path
<1> HIDE DEF p
<1>w. ~IsEmptyPath(p) /\ r = on[LookupOf(m, "virtual", x.cur, p, TRUE, k)]
  <2> DEFINE yes == TRUE
             view == "virtual"
             cur == x.cur
  <2> HIDE DEF yes, view, cur
  <2>1. Lookup(m, view, cur, p, yes, k) =
          IF IsEmptyPath(p) THEN Lost("ENOENT", k)
          ELSE Walker(m, view)[LookupOf(m, view, cur, p, yes, k)]
    BY LookupWalks
  <2>2. r = Lookup(m, view, cur, p, yes, k) /\ r.err = "ok"
    BY DEF yes, view, cur
  <2> HIDE DEF r
  <2>3. ~IsEmptyPath(p)
    BY <2>1, <2>2, FoundIs
  <2> QED BY <2>1, <2>2, <2>3 DEF yes, view, cur
<1>1. CASE p.comps = <<>> \/ c \in {".", ".."}
  <2>1. Spot(x).err = "EINVAL"
    BY <1>1, <1>w DEF Spot, ParentUnchecked, NoPlace, p
  <2> DEFINE w == LookupOf(m, "virtual", x.cur, p, TRUE, k)
             end == Resolve(m, "virtual", x.cur, p, TRUE)
  <2>2. w \in Walks(m) /\ w.links = k
    <3>1. Looks(m, x.cur, p, TRUE, k)
      BY <1>0, <1>w DEF Looks
    <3>2. w \in Walks(m)
      BY <3>1, LookupIs
    <3> QED BY <3>2 DEF LookupOf, WalkOf
  <2>3. LookupOf(m, "virtual", x.cur, p, TRUE, 0) = Before(w, 0)
    BY DEF LookupOf, Before, WalkOf
  <2>4. end = on[Before(w, 0)]
    <3> DEFINE yes == TRUE
               view == "virtual"
               none == 0
               cur == x.cur
    <3>0. LookupOf(m, view, cur, p, yes, none) = Before(w, 0)
      BY <2>3
    <3> HIDE DEF yes, view, none, cur, w
    <3>1. Lookup(m, view, cur, p, yes, none) =
            IF IsEmptyPath(p) THEN Lost("ENOENT", none)
            ELSE Walker(m, view)[LookupOf(m, view, cur, p, yes, none)]
      BY LookupWalks
    <3> QED BY <1>w, <3>0, <3>1 DEF yes, view, none, cur, Resolve
  <2>5. on[w].err = "ok" /\ r = on[w]
    BY <1>w
  <2> HIDE DEF w, r, on
  <2> DEFINE none == 0
  <2>6. none \in Nat /\ none <= w.links
    BY <2>2
  <2> HIDE DEF none
  <2>7. NoMore(on[Before(w, none)], on[w])
    BY <2>2, <2>5, <2>6, FewerLinks DEF on
  <2> HIDE DEF end
  <2>8. end.err = "ok" /\ end.node = r.node
    BY <2>4, <2>5, <2>7 DEF NoMore, none
  <2> QED BY <2>1, <2>8 DEF Passed, Spare, end, p
<1>2. CASE p.comps # <<>> /\ c \notin {".", ".."}
  <2>0. c \in Component \ {".", ".."}
    BY <1>0, <1>2, DirOfIs
  <2>1. /\ Spot(x).err = "ok"
        /\ \E l \in Nat : l >= k /\ r = on[NameStep(d, c, slash, l)]
    <3>1. CASE IsEmptyPath(DirOf(p))
      <4>1. Spot(x).err = "ok"
        BY <1>2, <1>w, <3>1, FoundIs, PlaceIs DEF Spot, ParentUnchecked, PlaceIn, p
      <4>2. d = x.cur
        BY <4>1, <3>1, SpotIs DEF p
      <4>3. p.comps = <<c>> /\ ~p.abs
        <5> DEFINE cs == p.comps
        <5>1. Front(cs) = <<>> /\ ~p.abs /\ c = Last(cs) /\ cs \in Seq(Component) /\ cs # <<>>
          BY <1>0, <1>2, <3>1, DirOfIs DEF IsEmptyPath, Path
        <5> HIDE DEF cs, c
        <5>2. cs = Append(Front(cs), Last(cs))
          BY <5>1, FrontLast
        <5> QED BY <5>1, <5>2 DEF cs
      <4>4. Real(p) = <<c>>
        <5> HIDE DEF c
        <5>1. p.comps \in Seq(Component) /\ \A i \in 1..Len(p.comps) : p.comps[i] # "."
          BY <4>3, <2>0
        <5> QED BY <5>1, <4>3, RealWhole
      <4>5. Origin(m, "virtual", x.cur, p) = x.cur
        BY <4>3 DEF Origin, Enter, Clear
      <4>6. LookupOf(m, "virtual", x.cur, p, TRUE, k) = NameStep(d, c, slash, k)
        BY <4>2, <4>4, <4>5 DEF LookupOf, NameStep
      <4>7. r = on[NameStep(d, c, slash, k)]
        BY <4>6, <1>w
      <4> HIDE DEF r, on, d, c, slash
      <4>8. k \in Nat /\ k >= k
        OBVIOUS
      <4> QED BY <4>1, <4>7, <4>8
    <3>2. CASE ~IsEmptyPath(DirOf(p))
      <4>1. Splits(m, x.cur, p)
        BY <1>0, <1>2, <3>2 DEF Splits
      <4>2. GoesBy(m, x.cur, p, k)
        <5> DEFINE cur == x.cur
        <5> HIDE DEF cur
        <5>1. Splits(m, cur, p) /\ IsDir(m, cur) /\ LastOf(p) # "."
              /\ Lookup(m, "virtual", cur, p, TRUE, k).err = "ok"
          BY <4>1, <1>2 DEF cur
        <5> QED BY <5>1, DirectoryThen DEF cur
      <4> DEFINE q == Resolve(m, "virtual", x.cur, DirOf(p), TRUE)
      <4>3. /\ q.err = "ok"
            /\ \E l \in Nat : l >= k /\ r = on[NameStep(q.node, c, slash, l)]
        BY <4>2 DEF GoesBy
      <4>4. Spot(x) = PlaceIn(q, p)
        <5> DEFINE here == Found(x.cur, 0)
        <5>1. here.err = "ok" /\ here.node = x.cur /\ Spot(x) = ParentUnchecked(m, here, p)
          BY DEF Found, Spot, p
        <5> HIDE DEF here
        <5> QED BY <5>1, <1>2, <1>w, <3>2 DEF ParentUnchecked
      <4> HIDE DEF q, r, on, c, slash
      <4>5. Spot(x).err = "ok" /\ Spot(x).node = q.node
        BY <4>3, <4>4, PlaceIs DEF PlaceIn
      <4> QED BY <4>3, <4>5
    <3> QED BY <3>1, <3>2
  <2>2. /\ d \in DOMAIN m.nodes /\ Clear(m, d) /\ Spot(x).name = c
    BY <2>1, SpotIs DEF p
  <2>3. PICK l \in Nat : l >= k /\ r = on[NameStep(d, c, slash, l)]
    BY <2>1
  <2> DEFINE n == Kids(m, d)[c]
             link == m.nodes[n].link
             q == Lookup(m, "virtual", d, link, TRUE, l + 1)
  <2>4. StepTells(m, d, c, slash, l)
    <3> HIDE DEF d, c, slash
    <3>1. Stepped(m, d, c, slash, l)
      BY <1>s, <2>0, <2>2, <2>3 DEF Stepped
    <3> QED BY <3>1, StepIsTold
  <2>5. /\ IsDir(m, d) /\ Has(m, d, c)
        /\ m.nodes[n].kind # "link" => r.node = Enter(m, "virtual", n)
        /\ m.nodes[n].kind = "link" => l + 1 <= MaxLinks /\ q.err = "ok" /\ r.node = q.node
    BY <2>3, <2>4 DEF StepTells
  <2> HIDE DEF r, on
  <2>6. Inside(n)
    <3>1. ParentAllowed(Spot(x))
      BY <2>1 DEF Passed
    <3>2. Inside(d) \/ n \in Sandboxes(m)
      BY <3>1, <2>2 DEF ParentAllowed
    <3> HIDE DEF d, c
    <3> QED BY <3>2, <2>2, <2>5, KidIsInside DEF n
  <2>7. CASE m.nodes[n].kind # "link"
    <3>1. n \in DOMAIN m.nodes
      BY <2>2, <2>5, NodesAre DEF Has, Kids
    <3> HIDE DEF n
    <3>2. r.node = Enter(m, "virtual", n)
      BY <2>5, <2>7
    <3> QED BY <3>1, <3>2, <2>6 DEF Enter, Mounts, Spare
  <2>8. CASE m.nodes[n].kind = "link"
    <3>1. l + 1 <= MaxLinks /\ q.err = "ok" /\ r.node = q.node
      BY <2>5, <2>8
    <3>2. x.links > 0 /\ (l + 1) + (x.links - 1) > MaxLinks /\ l + 1 \in Nat
      BY <3>1, <2>3, <1>0
    <3>3. Watches(x) /\ SpotNode(x) = m.nodes[n]
      BY <3>2, <2>1, <2>2, <2>5, <2>8 DEF Watches, SpotNode
    <3> DEFINE y == NextWatch(x)
               more == l + 1
    <3>4. y.path = link /\ y.cur = IF link.abs THEN RootNode ELSE d
      BY <3>3, NextWatchIs
    <3>5. q = Lookup(m, "virtual", y.cur, y.path, TRUE, more)
      <4> HIDE DEF y, more, n, d, link
      <4>1. Origin(m, "virtual", d, link) = Origin(m, "virtual", y.cur, link)
        BY <3>4 DEF Origin
      <4> QED BY <3>4, <4>1 DEF Lookup, more
    <3>6. more \in Nat /\ more + (x.links - 1) > MaxLinks
      BY <3>2
    <3> HIDE DEF more, y
    <3>7. Covered(y, more)
      BY <3>3, <3>6 DEF y
    <3> HIDE DEF q
    <3> QED BY <3>1, <3>5, <3>7 DEF Covered
  <2> QED BY <2>7, <2>8
<1> QED
  BY <1>1, <1>2

\* Where a guard lets a call through, what the operand leads to may be left to it.
LEMMA GuardCovers ==
    ASSUME FsNames, Sound(m), Mounts(m), NEW x \in Chases(m), Guard[x],
           Clear(m, x.cur), IsDir(m, x.cur), NEW k \in Nat, k + x.links > MaxLinks
    PROVE  Covered(x, k)
<1> DEFINE N == x.links
           Fit(y) == Guard[y] /\ Clear(m, y.cur) /\ IsDir(m, y.cur)
           T == {i \in 0..N : \A y \in Chases(m) : y.links = i /\ Fit(y) =>
                   \A l \in Nat : l + i > MaxLinks => Covered(y, l)}
<1>1. N \in Nat /\ MaxLinks \in Nat
  BY FsNames DEF Chases
<1>2. ASSUME NEW y \in Chases(m), Fit(y), Watches(y)
      PROVE  NextWatch(y) \in Chases(m) /\ NextWatch(y).links = y.links - 1 /\ Fit(NextWatch(y))
             /\ y.links # 0
  <2> DEFINE z == NextWatch(y)
  <2>1. /\ z \in Chases(m) /\ z.links = y.links - 1 /\ y.links # 0
        /\ z.cur = IF SpotNode(y).link.abs THEN RootNode ELSE Spot(y).node
    BY <1>2, NextWatchIs
  <2>2. Guard[z]
    BY <1>2, GuardIs
  <2>3. Clear(m, Spot(y).node) /\ IsDir(m, Spot(y).node)
    <3>1. Clear(m, Spot(y).node) /\ Spot(y).node \in DOMAIN m.nodes
      BY <1>2, SpotIs DEF Watches
    <3>2. Spot(y).name \in DOMAIN m.nodes[Spot(y).node].kids
      BY <1>2 DEF Watches, Has, Kids
    <3> QED BY <3>1, <3>2, HolderIsDir
  <2>4. Clear(m, RootNode) /\ IsDir(m, RootNode)
    BY DEF Sound, Plain, Seat
  <2> HIDE DEF z
  <2> QED BY <2>1, <2>2, <2>3, <2>4 DEF z
<1>3. ASSUME NEW i \in 0..N, i = 0 \/ i - 1 \in T, NEW y \in Chases(m), y.links = i, Fit(y),
             NEW l \in Nat, l + i > MaxLinks
      PROVE  Covered(y, l)
  <2>1. Passed(y) /\ l + y.links > MaxLinks
    BY <1>3, GuardIs
  <2>2. ASSUME Watches(y)
        PROVE  \A j \in Nat : j + (y.links - 1) > MaxLinks => Covered(NextWatch(y), j)
    <3> DEFINE z == NextWatch(y)
    <3>1. z \in Chases(m) /\ z.links = y.links - 1 /\ Fit(z) /\ y.links # 0
      BY <1>2, <1>3, <2>2
    <3>2. i - 1 \in T /\ z.links = i - 1
      BY <3>1, <1>3
    <3> HIDE DEF Fit, z
    <3> QED BY <3>1, <3>2 DEF z
  <2> QED BY <1>3, <2>1, <2>2, CoverStep
<1> HIDE DEF Fit
<1>4. Climbs(N, T)
  <2>1. 0 \in T
    BY <1>1, <1>3
  <2>2. \A i \in 1..N : i - 1 \in T => i \in T
    BY <1>1, <1>3
  <2> HIDE DEF N, T
  <2> QED BY <1>1, <2>1, <2>2 DEF Climbs
<1>5. 0..N \subseteq T
  <2> HIDE DEF N, T
  <2> QED BY <1>4, UpToInduction
<1>6. N \in T
  <2> HIDE DEF T
  <2> QED BY <1>1, <1>5
<1> QED
  BY <1>6, <1>1 DEF Fit

-----------------------------------------------------------------------------
(* FsDriver: what calls may take away                                      *)
\* An operand that its guard let through.
ChaseAt(start, p, chase) == ChaseOf(start.node, p, IF chase THEN MaxLinks + 1 ELSE 0)
Asked(start, p, chase) ==
    /\ start = Found(start.node, 0) /\ Clear(m, start.node)
    /\ p \in Path /\ chase \in BOOLEAN /\ ~IsRootOperand(p)
    /\ Guarded(start, p, IF chase THEN MaxLinks + 1 ELSE 0)

\* Where an *at call starts, something was found without any link.
LEMMA StartIsFound ==
    ASSUME NEW s, NEW fd, NEW p, AtStart(s, fd, p).err = "ok"
    PROVE  AtStart(s, fd, p) = Found(AtStart(s, fd, p).node, 0)
BY FoundIs DEF AtStart, FdDir

LEMMA AskedIs ==
    ASSUME FsNames, Sound(m), NEW fd, NEW p \in Path, NEW chase \in BOOLEAN
    PROVE  /\ Permitted(AtStart(m, fd, p), p, chase) => Asked(AtStart(m, fd, p), p, chase)
           /\ Permitted(Here, p, chase) => Asked(Found(m.cwd, 0), p, chase)
<1> DEFINE there == AtStart(m, fd, p)
           cwd == Found(m.cwd, 0)
<1>1. GoodStart(m, there) /\ GoodStart(m, cwd)
  BY StartIsGood
<1>2. there.err = "ok" => there = Found(there.node, 0)
  BY StartIsFound
<1>3. cwd = Found(cwd.node, 0) /\ Here = cwd
  BY FoundIs DEF Here
<1> HIDE DEF there, cwd
<1>4. Permitted(there, p, chase) => Asked(there, p, chase)
  BY <1>1, <1>2 DEF Permitted, Asked, GoodStart
<1>5. Permitted(cwd, p, chase) => Asked(cwd, p, chase)
  BY <1>1, <1>3 DEF Permitted, Asked, GoodStart
<1> QED
  BY <1>3, <1>4, <1>5 DEF there, cwd

\* The guard of such an operand.
LEMMA AskedGuard ==
    ASSUME FsNames, Sound(m), NEW start, NEW p, NEW chase, Asked(start, p, chase)
    PROVE  LET x == ChaseAt(start, p, chase) IN
           /\ x \in Chases(m) /\ x.cur = start.node /\ x.path = p
           /\ x.links = IF chase THEN MaxLinks + 1 ELSE 0
           /\ Guard[x] /\ Spot(x) = ParentUnchecked(m, start, p)
<1> DEFINE N == IF chase THEN MaxLinks + 1 ELSE 0
           x == ChaseAt(start, p, chase)
<1>1. start.node \in DOMAIN m.nodes /\ p \in Path /\ N \in Nat
  BY FsNames DEF Asked, Clear
<1>2. x = ChaseOf(start.node, p, N)
  BY DEF ChaseAt
<1>3. Guard[x]
  BY <1>2, GuardIs DEF Asked
<1> HIDE DEF N
<1>4. x \in Chases(m) /\ x.cur = start.node /\ x.path = p /\ x.links = N
  BY <1>1, <1>2 DEF ChaseOf, Chases
<1> HIDE DEF x
<1>5. Spot(x) = ParentUnchecked(m, start, p)
  BY <1>4 DEF Spot, Asked
<1> QED
  BY <1>3, <1>4, <1>5 DEF N, x

\* The place of a name, and that what it names is inside.
OwnsIt(place) == Owns(m, place) /\ Inside(Kids(m, place.node)[place.name])

\* What it names is inside the run's own directories.
LEMMA PlaceIsInside ==
    ASSUME FsNames, Sound(m), NEW start, NEW p, NEW chase, Asked(start, p, chase),
           NEW place, place = Parent(m, start, p), place.err = "ok", Has(m, place.node, place.name)
    PROVE  OwnsIt(place) /\ Spot(ChaseAt(start, p, chase)).err = "ok"
           /\ Spot(ChaseAt(start, p, chase)).node = place.node
           /\ Spot(ChaseAt(start, p, chase)).name = place.name
<1> DEFINE x == ChaseAt(start, p, chase)
<1>1. x \in Chases(m) /\ Guard[x] /\ Spot(x) = ParentUnchecked(m, start, p)
  BY AskedGuard
<1> HIDE DEF x
<1>2. place = Spot(x)
  BY <1>1, PlaceIs DEF Parent, Checked
<1>3. ParentAllowed(place)
  <2>1. Passed(x) /\ Spot(x).err = "ok"
    BY <1>1, <1>2, GuardIs
  <2> QED BY <2>1, <1>2 DEF Passed
<1>4. place.node \in DOMAIN m.nodes
  BY <1>1, <1>2, SpotIs
<1>5. Inside(Kids(m, place.node)[place.name])
  BY <1>3, <1>4, KidIsInside DEF ParentAllowed
<1> QED
  BY <1>2, <1>4, <1>5 DEF OwnsIt, Owns, x

\* What its slash leads to is inside, or mounted.
LEMMA TrailIsSpare ==
    ASSUME FsNames, Sound(m), Mounts(m), NEW start, NEW p, Asked(start, p, TRUE),
           NEW place, place = Parent(m, start, p), place.err = "ok",
           Trail(m, start, place, p).is = "dir"
    PROVE  LET t == Trail(m, start, place, p) IN
           Spare(t.node) \/ t.node = Kids(m, place.node)[place.name]
<1> DEFINE t == Trail(m, start, place, p)
           id == Kids(m, place.node)[place.name]
           end == CreateAt(m, start.node, p, 0)
           yes == TRUE
           x == ChaseAt(start, p, yes)
           r == Follow(m, "virtual", place.node, id, 0)
<1>1. Has(m, place.node, place.name)
  BY TrailHas
<1>2. CASE m.nodes[id].kind # "link"
  <2>1. t = TrailOf(m, Found(id, 0), NoPlace("ok"))
    BY <1>1, <1>2 DEF Trail
  <2>2. t.is = "dir" => t.node = id
    <3> HIDE DEF id
    <3>1. Found(id, 0).err = "ok" /\ Found(id, 0).node = id
      BY FoundIs
    <3> QED BY <2>1, <3>1 DEF TrailOf
  <2> QED BY <2>2
<1>3. CASE m.nodes[id].kind = "link"
  <2>1. t = TrailOf(m, r, end)
    BY <1>1, <1>3 DEF Trail
  <2>2. r.err = "ok" /\ t.node = r.node
    <3> HIDE DEF r, end
    <3> QED BY <2>1 DEF TrailOf
  <2>a. Asked(start, p, yes) /\ yes = TRUE
    OBVIOUS
  <2> HIDE DEF t, end, yes
  <2>3. /\ x \in Chases(m) /\ x.links = MaxLinks + 1 /\ Guard[x]
        /\ Spot(x).err = "ok" /\ Spot(x).node = place.node /\ Spot(x).name = place.name
    <3>0. Asked(start, p, yes) /\ place = Parent(m, start, p) /\ place.err = "ok"
          /\ Has(m, place.node, place.name) /\ Sound(m)
      BY <1>1, <2>a
    <3>1. /\ Spot(x).err = "ok" /\ Spot(x).node = place.node /\ Spot(x).name = place.name
      BY <3>0, FsNames, PlaceIsInside
    <3>3. x \in Chases(m) /\ x.links = (IF yes THEN MaxLinks + 1 ELSE 0) /\ Guard[x]
      BY <3>0, FsNames, AskedGuard
    <3>2. x \in Chases(m) /\ x.links = MaxLinks + 1 /\ Guard[x]
      <4> HIDE DEF x
      <4> QED BY <3>3, <2>a
    <3> QED BY <3>1, <3>2
  <2>9. x.cur = start.node /\ Clear(m, start.node)
    <3>1. Asked(start, p, yes) /\ Sound(m)
      BY <2>a
    <3>2. x.cur = start.node
      BY <3>1, FsNames, AskedGuard
    <3>3. Clear(m, start.node)
      BY <3>1 DEF Asked
    <3> QED BY <3>2, <3>3
  <2> HIDE DEF x
  <2>4. Watches(x) /\ SpotNode(x) = m.nodes[id]
    BY <1>1, <1>3, <2>3, FsNames DEF Watches, SpotNode, FsNames
  <2> DEFINE y == NextWatch(x)
             link == m.nodes[id].link
             one == 1
  <2>5. /\ y \in Chases(m) /\ y.links = MaxLinks /\ y.path = link
        /\ y.cur = IF link.abs THEN RootNode ELSE place.node
    BY <2>3, <2>4, NextWatchIs, FsNames DEF FsNames
  <2>6. Guard[y]
    BY <2>3, <2>4, GuardIs
  <2>7. Clear(m, y.cur) /\ IsDir(m, y.cur)
    <3>1. Clear(m, RootNode) /\ IsDir(m, RootNode)
      BY DEF Sound, Plain, Seat
    <3>2. Clear(m, place.node) /\ place.node \in DOMAIN m.nodes
      BY <2>3, <2>9, SpotIs
    <3>3. IsDir(m, place.node)
      BY <1>1, <3>2, HolderIsDir DEF Has, Kids
    <3> HIDE DEF y
    <3> QED BY <2>5, <3>1, <3>2, <3>3
  <2>8. r = Lookup(m, "virtual", y.cur, y.path, TRUE, one)
    <3>1. r = Lookup(m, "virtual", place.node, link, TRUE, 1)
      <4>1. 1 <= MaxLinks /\ 0 + 1 = 1
        BY FsNames DEF FsNames
      <4>2. ~(0 + 1 > MaxLinks)
        BY FsNames DEF FsNames
      <4> QED BY <4>1, <4>2 DEF Follow
    <3> HIDE DEF y, r, link, id
    <3>2. Origin(m, "virtual", place.node, link) = Origin(m, "virtual", y.cur, link)
      BY <2>5 DEF Origin
    <3> QED BY <2>5, <3>1, <3>2 DEF Lookup, one
  <2>10. one \in Nat /\ one + y.links > MaxLinks
    <3> HIDE DEF y
    <3> QED BY <2>5, FsNames DEF FsNames
  <2> HIDE DEF y, one, r
  <2>11. Covered(y, one)
    BY <2>5, <2>6, <2>7, <2>10, GuardCovers
  <2> QED BY <2>2, <2>8, <2>11 DEF Covered, t
<1> QED
  BY <1>2, <1>3

\* Through its slash a call comes to a name of something inside.
LEMMA ThroughIsInside ==
    ASSUME FsNames, Sound(m), Mounts(m), NEW start, NEW p, Asked(start, p, TRUE),
           NEW place, place = Parent(m, start, p), place.err = "ok",
           NEW t, t = Trail(m, start, place, p), ThroughSlash(m, place, t).err = "ok"
    PROVE  OwnsIt(ThroughSlash(m, place, t))
<1> DEFINE to == ThroughSlash(m, place, t)
           id == Kids(m, place.node)[place.name]
<1>1. TrailOK(m, t)
  BY TrailIs DEF Asked
<1>2. t.is = "dir"
  BY <1>1, PlaceIs DEF ThroughSlash, TrailOK
<1>3. Has(m, place.node, place.name) /\ IsDir(m, t.node)
  BY <1>1, <1>2, TrailHas DEF TrailOK
<1>4. OwnsIt(place)
  BY <1>3, PlaceIsInside
<1>5. CASE id = t.node
  BY <1>2, <1>4, <1>5 DEF ThroughSlash
<1>6. CASE id # t.node
  <2>1. to = OwnerOf(m, t.node)
    BY <1>2, <1>6 DEF ThroughSlash
  <2>2. Spare(t.node)
    BY <1>2, <1>6, TrailIsSpare
  <2>3. /\ m.nodes[t.node].vup = 0 /\ NamesIn(m, t.node) # {}
        /\ to.node = m.nodes[t.node].up /\ to.name \in NamesIn(m, t.node)
    <3>1. OwnerOf(m, t.node).err = "ok"
      BY <2>1
    <3> DEFINE n == t.node
    <3>2. OwnerOf(m, n).err = "ok"
      BY <3>1
    <3> HIDE DEF n, to
    <3>3. m.nodes[n].vup = 0 /\ NamesIn(m, n) # {}
          /\ OwnerOf(m, n) = Place(m.nodes[n].up, CHOOSE c \in NamesIn(m, n) : TRUE, FALSE)
      BY <3>2 DEF OwnerOf, NoPlace
    <3>4. (CHOOSE c \in NamesIn(m, n) : TRUE) \in NamesIn(m, n)
      BY <3>3
    <3>5. OwnerOf(m, n).node = m.nodes[n].up /\ OwnerOf(m, n).name \in NamesIn(m, n)
      BY <3>3, <3>4 DEF Place
    <3> QED BY <3>3, <3>5, <2>1 DEF n
  <2>4. Inside(t.node)
    BY <2>2, <2>3 DEF Spare
  <2>5. Kids(m, to.node)[to.name] = t.node
    <3> HIDE DEF to
    <3> QED BY <2>3 DEF NamesIn
  <2>6. Owns(m, to)
    BY <1>3, <2>1, OwnerIs
  <2> QED BY <2>4, <2>5, <2>6 DEF OwnsIt
<1> QED
  BY <1>5, <1>6

\* The names that a call takes away are of nodes inside the run's own directories.
Spares(u) == \A e \in TreeOf(m).entries : e \in TreeOf(u).entries \/ Inside(e.node)

LEMMA GrowsSpares == ASSUME NEW u, Grows(m, u) PROVE Spares(u)
BY DEF Grows, Spares

LEMMA FailSpares == ASSUME NEW e PROVE Spares(Fail(m, e).model) /\ Spares(m)
BY DEF Fail, Spares

\* unlink and rmdir of an entry that was found.
LEMMA UnlinkAtSpares ==
    ASSUME Sound(m), NEW named, NEW place, place.err = "ok" => OwnsIt(place),
           NEW rmdir \in BOOLEAN
    PROVE  Spares(UnlinkAt(m, named, place, rmdir).model)
<1> DEFINE id == Kids(m, place.node)[place.name]
<1>1. CASE /\ place.err = "ok" /\ (rmdir => IsDir(m, id) /\ IsEmpty(m, id))
           /\ (~rmdir => ~IsDir(m, id) /\ ~named.slash)
  <2>1. UnlinkAt(m, named, place, rmdir).model = RemoveEntry(m, place)
    BY <1>1 DEF UnlinkAt, Done
  <2>2. IsDir(m, id) => IsEmpty(m, id)
    BY <1>1
  <2>3. /\ place.node \in DOMAIN m.nodes /\ Has(m, place.node, place.name) /\ Inside(id)
        /\ ModelShape(m) /\ OneTree(TreeOf(m))
    BY <1>1 DEF OwnsIt, Owns, Sound
  <2>4. NameRemoved(TreeOf(m), TreeOf(RemoveEntry(m, place)), Entry(place.node, place.name, id))
    BY <2>2, <2>3, RemoveEdits
  <2> DEFINE u == RemoveEntry(m, place)
             e == Entry(place.node, place.name, id)
  <2>5. e.node = id
    BY EntryParts
  <2> HIDE DEF u, e, id
  <2>6. Spares(u)
    BY <2>3, <2>4, <2>5 DEF Spares, NameRemoved, u, e
  <2> QED BY <2>1, <2>6 DEF u
<1>2. CASE ~(/\ place.err = "ok" /\ (rmdir => IsDir(m, id) /\ IsEmpty(m, id))
             /\ (~rmdir => ~IsDir(m, id) /\ ~named.slash))
  <2>1. \E e : UnlinkAt(m, named, place, rmdir) = Fail(m, e)
    BY <1>2 DEF UnlinkAt
  <2> QED BY <2>1, FailSpares
<1> QED
  BY <1>1, <1>2

\* The place that an operand names has its slash.
LEMMA PlaceSlash ==
    ASSUME NEW s, NEW start, NEW p, Parent(s, start, p).err = "ok"
    PROVE  Parent(s, start, p).slash = p.slash /\ ~IsEmptyPath(p)
<1> DEFINE place == ParentUnchecked(s, start, p)
<1>1. Parent(s, start, p) = place /\ place.err = "ok"
  <2> HIDE DEF place
  <2> QED BY PlaceIs DEF Parent, Checked, place
<1>2. ~IsEmptyPath(p) /\ \E r : place = PlaceIn(r, p)
  <2> DEFINE q == Resolve(s, "virtual", start.node, DirOf(p), TRUE)
  <2>1. ~IsEmptyPath(p) /\ (place = PlaceIn(start, p) \/ place = PlaceIn(q, p))
    <3> HIDE DEF q
    <3> QED BY <1>1 DEF ParentUnchecked, NoPlace, q
  <2> HIDE DEF place, q
  <2> QED BY <2>1
<1> HIDE DEF place
<1> QED
  BY <1>1, <1>2, PlaceIs DEF PlaceIn

\* The name that a call goes by, through its slash on macOS.
Went(start, named, p) ==
    IF m.mac /\ named.slash THEN ThroughSlash(m, named, Trail(m, start, named, p)) ELSE named
LEMMA WentIsInside ==
    ASSUME FsNames, Sound(m), Mounts(m), NEW start, NEW p, Asked(start, p, p.slash),
           NEW named, named = Parent(m, start, p), named.err = "ok",
           Has(m, named.node, named.name), Went(start, named, p).err = "ok"
    PROVE  OwnsIt(Went(start, named, p))
<1>1. named.slash = p.slash /\ p.slash \in BOOLEAN
  BY PlaceSlash DEF Asked, Path
<1>2. CASE m.mac /\ named.slash
  <2>1. Asked(start, p, TRUE)
    BY <1>1, <1>2
  <2> DEFINE t == Trail(m, start, named, p)
  <2>2. Went(start, named, p) = ThroughSlash(m, named, t) /\ t = Trail(m, start, named, p)
    BY <1>2 DEF Went
  <2> HIDE DEF t
  <2> QED BY <2>1, <2>2, ThroughIsInside
<1>3. CASE ~(m.mac /\ named.slash)
  <2>1. Went(start, named, p) = named
    BY <1>3 DEF Went
  <2> DEFINE chase == p.slash
  <2>2. Asked(start, p, chase)
    OBVIOUS
  <2> HIDE DEF chase
  <2> QED BY <2>1, <2>2, PlaceIsInside
<1> QED
  BY <1>2, <1>3

\* unlink, unlinkat and rmdir.
LEMMA UnlinkSpares ==
    ASSUME FsNames, Sound(m), Mounts(m), NEW fd, NEW p \in Path, NEW rmdir \in BOOLEAN,
           Permitted(AtStart(m, fd, p), p, p.slash)
    PROVE  Spares(Unlink(m, fd, p, rmdir).model)
<1> DEFINE start == AtStart(m, fd, p)
           named == Parent(m, start, p)
           place == Went(start, named, p)
<1>1. Asked(start, p, p.slash)
  <2> DEFINE chase == p.slash
  <2>1. chase \in BOOLEAN /\ Permitted(AtStart(m, fd, p), p, chase)
    BY DEF Path
  <2> HIDE DEF chase
  <2>2. Asked(AtStart(m, fd, p), p, chase)
    BY <2>1, AskedIs
  <2> QED BY <2>2 DEF chase
<1>2. Unlink(m, fd, p, rmdir) = UnlinkNamed(m, start, named, p, rmdir)
        \/ \E e : Unlink(m, fd, p, rmdir) = Fail(m, e)
  BY DEF Unlink
<1> HIDE DEF start
<1>5. named.err = "ok" /\ Has(m, named.node, named.name) /\ place.err = "ok" => OwnsIt(place)
  BY <1>1, WentIsInside
<1> HIDE DEF named
<1>3. Spares(UnlinkNamed(m, start, named, p, rmdir).model)
  <2>1. CASE named.err # "ok" \/ ~Has(m, named.node, named.name)
    <3>1. \E e : UnlinkNamed(m, start, named, p, rmdir) = Fail(m, e)
      BY <2>1 DEF UnlinkNamed
    <3> QED BY <3>1, FailSpares
  <2>2. CASE named.err = "ok" /\ Has(m, named.node, named.name)
    <3>1. \/ UnlinkNamed(m, start, named, p, rmdir) = UnlinkAt(m, named, place, rmdir)
          \/ \E e : UnlinkNamed(m, start, named, p, rmdir) = Fail(m, e)
      BY <2>2 DEF UnlinkNamed, UnlinkTrail, Went
    <3> HIDE DEF place
    <3>2. Spares(UnlinkAt(m, named, place, rmdir).model)
      BY <2>2, <1>5, UnlinkAtSpares
    <3> QED BY <3>1, <3>2, FailSpares
  <2> QED BY <2>1, <2>2
<1> QED
  BY <1>2, <1>3, FailSpares

\* Where a moved node goes: what it replaces is inside.
LEMMA LandingSpares ==
    ASSUME FsNames, Sound(m), Mounts(m), NEW q, Asked(Found(m.cwd, 0), q, q.slash),
           NEW place, place = Parent(m, Found(m.cwd, 0), q), NEW fromDir,
           NEW to, to = Landing(m, place, q, fromDir), to.err = "ok", Has(m, to.node, to.name)
    PROVE  OwnsIt(to)
<1> DEFINE start == Found(m.cwd, 0)
           t == Trail(m, start, place, q)
           through == ThroughSlash(m, place, t)
<1>0. Asked(start, q, q.slash) /\ place = Parent(m, start, q)
  OBVIOUS
<1>a. to = IF m.mac /\ place.err = "ok" /\ place.slash THEN LandingTrail(m, place, t, fromDir)
           ELSE place
  BY DEF Landing
<1>b. t = Trail(m, start, place, q)
  OBVIOUS
<1>t. TrailOK(m, t)
  <2>1. Clear(m, start.node)
    BY <1>0 DEF Asked
  <2>2. q \in Path
    BY <1>0 DEF Asked
  <2> HIDE DEF start
  <2> QED BY <2>1, <2>2, TrailIs
<1>d. t.is = "dangling" /\ t.end.err = "ok" => ~Has(m, t.end.node, t.end.name)
  <2> DEFINE end == CreateAt(m, start.node, q, 0)
  <2>1. end.err = "ok" => ~Has(m, end.node, end.name)
    <3> DEFINE ce == CreateEnd(m, start.node, q, 0)
    <3>1. end = CreateIn(m, ce)
      BY DEF CreateAt
    <3> HIDE DEF ce, end
    <3> QED BY <3>1 DEF CreateIn, NoPlace, Place
  <2>2. \A r : TrailOf(m, r, end).is = "dangling" => TrailOf(m, r, end).end = end
    <3> HIDE DEF end
    <3> QED BY DEF TrailOf
  <2>3. \A r : TrailOf(m, r, NoPlace("ok")).is = "dangling" => r.err = "ENOENT"
    BY DEF TrailOf
  <2>4. \A n : Found(n, 0).err # "ENOENT"
    BY FoundIs
  <2>5. t.is = "dangling" => \E r : t = TrailOf(m, r, end)
    <3> HIDE DEF end
    <3> QED BY <2>3, <2>4 DEF Trail, end
  <2> HIDE DEF t, end
  <2> QED BY <2>1, <2>2, <2>5
<1>m. t.is = "missing" => ~Has(m, place.node, place.name)
  <2> DEFINE end == CreateAt(m, start.node, q, 0)
  <2>1. \A r, e : TrailOf(m, r, e).is # "missing"
    BY DEF TrailOf
  <2> HIDE DEF start, end
  <2> QED BY <2>1 DEF Trail
<1> HIDE DEF start, t
<1>1. CASE m.mac /\ place.err = "ok" /\ place.slash
  <2>1. place.slash = q.slash /\ q.slash \in BOOLEAN
    BY <1>0, <1>1, PlaceSlash DEF Asked, Path
  <2>2. Asked(start, q, TRUE)
    BY <2>1, <1>1, <1>0
  <2>3. through.err = "ok" => OwnsIt(through)
    BY <2>2, <1>0, <1>1, <1>b, ThroughIsInside
  <2> HIDE DEF through
  <2>4. \/ to = place /\ t.is = "missing"
        \/ to = t.end /\ t.is = "dangling"
        \/ to = through
    BY <1>a, <1>1, <1>t DEF LandingTrail, TrailOK, through
  <2> QED BY <2>3, <2>4, <1>d, <1>m
<1>2. CASE ~(m.mac /\ place.err = "ok" /\ place.slash)
  <2> DEFINE chase == q.slash
  <2>1. Asked(start, q, chase) /\ to = Parent(m, start, q)
    BY <1>0, <1>2, <1>a
  <2> HIDE DEF chase
  <2> QED BY <2>1, PlaceIsInside
<1> QED
  BY <1>1, <1>2

\* rename to a place that was found.
LEMMA RenameToSpares ==
    ASSUME Sound(m), NEW slash, NEW from, OwnsIt(from),
           NEW to, to.err = "ok" => GoodPlace(m, to) /\ (Has(m, to.node, to.name) => OwnsIt(to))
    PROVE  Spares(RenameTo(m, slash, from, to).model)
<1> DEFINE id == Kids(m, from.node)[from.name]
           hit == Collision(m, id, to)
           u == Move(m, from, to)
<1>1. CASE to.err = "ok" /\ ~IsDetached(m, to.node) /\ ~IsDescendant(m, id, to.node)
  <2>1. \/ RenameTo(m, slash, from, to) = MoveUnless(m, hit, from, to)
        \/ \E e : RenameTo(m, slash, from, to) = Fail(m, e)
    BY <1>1 DEF RenameTo, CheckLive
  <2>2. CASE hit = "ok"
    <3>1. Replaceable(m, id, to)
      BY <2>2, CollisionIs
    <3>2. ModelShape(m) /\ OneTree(TreeOf(m)) /\ IsDir(m, to.node)
          /\ from.node \in DOMAIN m.nodes /\ Has(m, from.node, from.name)
      BY <1>1 DEF Sound, GoodPlace, OwnsIt, Owns
    <3>3. NodeMoved(TreeOf(m), TreeOf(u), Entry(from.node, from.name, id), to.node, to.name)
      BY <1>1, <3>1, <3>2, MoveEdits
    <3> DEFINE e == Entry(from.node, from.name, id)
               t == TreeOf(m)
    <3>4. e.node = id /\ Inside(id)
      BY EntryParts DEF OwnsIt
    <3>5. ASSUME NEW old \in At(t, to.node, to.name)
          PROVE  Inside(old.node)
      <4>1. old.dir = to.node /\ old.name = to.name /\ old \in t.entries
        BY <3>5 DEF At
      <4>2. Has(m, to.node, to.name) /\ old.node = Kids(m, to.node)[to.name]
        BY <4>1, EntryIn DEF Has, Kids
      <4> QED BY <4>2, <1>1 DEF OwnsIt
    <3> HIDE DEF e, t, u, id
    <3>6. Spares(u)
      <4>1. \A f \in t.entries : f \in TreeOf(u).entries \/ f = e \/ f \in At(t, to.node, to.name)
        BY <3>3 DEF NodeMoved, e, t
      <4> QED BY <4>1, <3>4, <3>5 DEF Spares, t
    <3>7. MoveUnless(m, hit, from, to).model = u
      BY <2>2 DEF MoveUnless, Done, u
    <3> HIDE DEF hit
    <3> QED BY <2>1, <3>6, <3>7, FailSpares
  <2>3. CASE hit # "ok"
    <3>1. MoveUnless(m, hit, from, to).model = m
      BY <2>3 DEF MoveUnless, Done, Fail
    <3> HIDE DEF hit
    <3> QED BY <2>1, <3>1, FailSpares
  <2> QED BY <2>2, <2>3
<1>2. CASE ~(to.err = "ok" /\ ~IsDetached(m, to.node) /\ ~IsDescendant(m, id, to.node))
  <2>1. \E e : RenameTo(m, slash, from, to) = Fail(m, e)
    BY <1>2 DEF RenameTo, CheckLive
  <2> QED BY <2>1, FailSpares
<1> QED
  BY <1>1, <1>2

\* rename.
LEMMA RenameSpares ==
    ASSUME FsNames, Sound(m), Mounts(m), NEW p \in Path, NEW q \in Path,
           Permitted(Here, p, p.slash), Permitted(Here, q, q.slash)
    PROVE  Spares(Rename(m, p, q).model)
<1> DEFINE here == Found(m.cwd, 0)
           named == Parent(m, here, p)
           place == Parent(m, here, q)
           from == Went(here, named, p)
           slash == named.slash \/ place.slash
           to == Landing(m, place, q, IsDir(m, Kids(m, from.node)[from.name]))
<1>1. Asked(here, p, p.slash) /\ Asked(here, q, q.slash)
  <2>1. p.slash \in BOOLEAN /\ q.slash \in BOOLEAN
    BY DEF Path
  <2> DEFINE cp == p.slash
             cq == q.slash
  <2>2. Permitted(Here, p, cp) /\ Permitted(Here, q, cq) /\ cp \in BOOLEAN /\ cq \in BOOLEAN
    BY <2>1
  <2> HIDE DEF cp, cq
  <2>3. Asked(here, p, cp) /\ Asked(here, q, cq)
    BY <2>2, AskedIs
  <2> QED BY <2>3 DEF cp, cq
<1>2. place.err = "ok" => GoodPlace(m, place)
  BY StartIsGood, ParentIsGood
<1>3. Rename(m, p, q) = RenameNamed(m, named, place, p, q) \/ \E e : Rename(m, p, q) = Fail(m, e)
  BY DEF Rename
<1>4. CASE named.err # "ok" \/ ~Has(m, named.node, named.name)
  <2> HIDE DEF named, place
  <2>1. \E e : RenameNamed(m, named, place, p, q) = Fail(m, e)
    BY <1>4 DEF RenameNamed
  <2> QED BY <1>3, <2>1, FailSpares
<1>5. CASE named.err = "ok" /\ Has(m, named.node, named.name)
  <2>1. from.err = "ok" => OwnsIt(from)
    <3> HIDE DEF here
    <3> QED BY <1>1, <1>5, WentIsInside
  <2>2. RenameNamed(m, named, place, p, q) = RenameOnto(m, slash, from, place, q)
    <3> HIDE DEF named, place
    <3> QED BY <1>5 DEF RenameNamed, Went
  <2>3. to.err = "ok" /\ Has(m, to.node, to.name) => OwnsIt(to)
    <3> DEFINE fromDir == IsDir(m, Kids(m, from.node)[from.name])
    <3>1. to = Landing(m, place, q, fromDir)
      OBVIOUS
    <3> HIDE DEF fromDir, from, to
    <3> QED BY <1>1, <3>1, LandingSpares
  <2>4. to.err = "ok" => GoodPlace(m, to)
    <3> HIDE DEF place, from
    <3> QED BY <1>2, LandingIsGood
  <2> HIDE DEF slash, named, place, from
  <2>5. CASE from.err # "ok"
    <3>1. \E e : RenameOnto(m, slash, from, place, q) = Fail(m, e)
      BY <2>5 DEF RenameOnto
    <3> QED BY <1>3, <2>2, <3>1, FailSpares
  <2>6. CASE from.err = "ok"
    <3>1. RenameOnto(m, slash, from, place, q) = RenameTo(m, slash, from, to)
      BY <2>6 DEF RenameOnto
    <3> HIDE DEF to
    <3>3. Spares(RenameTo(m, slash, from, to).model)
      BY <2>1, <2>3, <2>4, <2>6, RenameToSpares
    <3> QED BY <1>3, <2>2, <3>1, <3>3, FailSpares
  <2> QED BY <2>5, <2>6
<1> QED
  BY <1>4, <1>5

\* Every call of the driver takes away only what is inside.
LEMMA CallsSpare == Sound(m) /\ Mounts(m) /\ [FsNext]_fsVars => Spares(m')
<1> SUFFICES ASSUME Sound(m), Mounts(m), [FsNext]_fsVars PROVE Spares(m')
  OBVIOUS
<1>0. MaxLen \in Nat
  BY FsBounds DEF FsBounds
<1>p. Paths \subseteq Path /\ Targets \subseteq Path
  BY FsNames DEF FsNames
<1>g. \A u : Grows(m, u) => Spares(u)
  BY GrowsSpares
<1>1. ASSUME NEW fd, NEW p \in Paths, DoMkdir(fd, p) PROVE Spares(m')
  BY <1>1, <1>p, <1>g, FsBounds, FsNames, MkdirKeeps DEF DoMkdir, Takes
<1>2. ASSUME NEW fd, NEW p \in Paths, DoOpen(fd, p) PROVE Spares(m')
  <2>1. PICK flags \in Flags : Takes(Open(m, fd, p, flags))
    BY <1>2 DEF DoOpen
  <2>2. Grows(m, Open(m, fd, p, flags).model)
    BY <1>p, FsBounds, FsNames, OpenKeeps
  <2> QED BY <2>1, <2>2, <1>g DEF Takes
<1>3. ASSUME NEW fd, NEW p \in Paths, DoUnlink(fd, p) PROVE Spares(m')
  <2>1. PICK rmdir \in BOOLEAN : Takes(Unlink(m, fd, p, rmdir))
    BY <1>3 DEF DoUnlink
  <2>2. Permitted(AtStart(m, fd, p), p, p.slash)
    BY <1>3 DEF DoUnlink
  <2>3. Spares(Unlink(m, fd, p, rmdir).model)
    BY <2>2, <1>p, FsNames, UnlinkSpares
  <2> QED BY <2>1, <2>3 DEF Takes
<1>4. ASSUME NEW p \in Paths, DoSymlink(p) PROVE Spares(m')
  <2>1. PICK t \in Targets : Takes(Symlink(m, Stored(t), p))
    BY <1>4 DEF DoSymlink
  <2>2. Stored(t) \in Path /\ p \in Path
    BY <1>p, FsNames, StoredIs
  <2>3. Grows(m, Symlink(m, Stored(t), p).model)
    BY <2>2, FsBounds, FsNames, SymlinkKeeps
  <2> QED BY <2>1, <2>3, <1>g DEF Takes
<1>5. ASSUME NEW p \in Paths, DoBind(p) PROVE Spares(m')
  BY <1>5, <1>p, <1>g, FsBounds, FsNames, BindKeeps DEF DoBind, Takes
<1>6. ASSUME NEW p \in Paths, DoRename(p) PROVE Spares(m')
  <2>1. PICK q \in Paths : /\ Takes(Rename(m, p, q))
                           /\ Permitted(Here, p, p.slash) /\ Permitted(Here, q, q.slash)
    BY <1>6 DEF DoRename
  <2>2. Spares(Rename(m, p, q).model)
    BY <2>1, <1>p, FsNames, RenameSpares
  <2> QED BY <2>1, <2>2 DEF Takes
<1>7. ASSUME NEW p \in Paths, DoOpenDir(p) PROVE Spares(m')
  BY <1>7, <1>p, <1>g, FsBounds, FsNames, OpenDirKeeps DEF DoOpenDir, Takes
<1>8. ASSUME NEW p \in Paths, DoChdir(p) PROVE Spares(m')
  BY <1>8, <1>p, <1>g, FsNames, ChdirKeeps DEF DoChdir, Takes
<1>9. ASSUME NEW name \in Names, DoMkstemp(name) PROVE Spares(m')
  <2>1. PICK p \in Paths : Len(p.comps) = 1 /\ name = LastOf(p)
    BY DEF Names
  <2>2. p.comps \in Seq(Component) /\ Len(p.comps) = 1
    BY <2>1, <1>p DEF Path
  <2>3. name \in Component
    BY <2>1, <2>2 DEF LastOf
  <2> QED BY <2>3, <1>9, <1>g, FsBounds, MkstempKeeps DEF DoMkstemp, Takes
<1>10. ASSUME NEW fd, DoWrite(fd) PROVE Spares(m')
  <2>1. fd \in DOMAIN m.fds => m.fds[fd].pos + 1 <= MaxLen
    <3> SUFFICES ASSUME fd \in DOMAIN m.fds PROVE m.fds[fd].pos + 1 <= MaxLen
      OBVIOUS
    <3>1. m.fds[fd].pos \in 0..MaxLen
      BY DEF Sound, ModelOK
    <3>2. m.fds[fd].pos < MaxLen
      BY <1>10 DEF DoWrite
    <3> QED BY <3>1, <3>2, <1>0
  <2>2. Grows(m, Write(m, fd, 1).model)
    BY <2>1, <1>0, WriteKeeps
  <2> QED BY <2>2, <1>10, <1>g DEF DoWrite, Takes
<1>11. ASSUME NEW fd, DoRead(fd) PROVE Spares(m')
  BY <1>0, <1>11, <1>g, ReadKeeps DEF DoRead, Takes
<1>12. ASSUME NEW fd, DoClose(fd) PROVE Spares(m')
  BY <1>12, <1>g, CloseKeeps DEF DoClose, Takes
<1>13. ASSUME UNCHANGED fsVars PROVE Spares(m')
  BY <1>13, FailSpares DEF fsVars
<1> QED
  BY <1>1, <1>2, <1>3, <1>4, <1>5, <1>6, <1>7, <1>8, <1>9, <1>10, <1>11, <1>12, <1>13 DEF FsNext

-----------------------------------------------------------------------------
(* FsDriver: the host's part of the first model                            *)

\* The directories that what is mounted has above it.
Outer(s) == IF s.mac THEN {1, 2, 3} ELSE {1, 3}

\* Each node was made after its parent and has a name there, none in `own'.
MadeInTurn(t, own) ==
    \A n \in 2..Len(t) :
       /\ t[n].up \in 1..(n - 1) /\ t[n].up \notin own
       /\ \E c \in DOMAIN t[t[n].up].kids : t[t[n].up].kids[c] = n

\* What is mounted is mounted in a directory "tmp" of one of `outer'.
MountedAtTmp(t, outer) ==
    \A n \in DOMAIN t : t[n].vup # 0 =>
       LET up == t[t[n].vup] IN
       "tmp" \in DOMAIN up.kids /\ t[up.kids["tmp"]].over = n /\ t[n].vup \in outer

\* None of `outer' is mounted, and their parents are of `outer'.
AboveMounts(t, outer) ==
    \A n \in outer : n \in DOMAIN t /\ t[n].vup = 0 /\ (n # RootNode => t[n].up \in outer)

\* What the first model's directories are.
HostTable(s) ==
    /\ Mounts(s)
    /\ MadeInTurn(s.nodes, Sandboxes(s))
    /\ MountedAtTmp(s.nodes, Outer(s))
    /\ AboveMounts(s.nodes, Outer(s))
    /\ RootNode \notin Sandboxes(s) /\ Sandboxes(s) \subseteq DOMAIN s.nodes
    /\ \A n \in Sandboxes(s) : s.nodes[n].over = 0

\* The first model on macOS: each node after its parent.
LEMMA MacTable ==
    ASSUME FsBounds, FsNames PROVE HostTable(New(TRUE))
<1> DEFINE s == New(TRUE)
           t == MacNodes
<1>1. s.nodes = t /\ s.mac = TRUE
  BY DEF New
<1>2. Len(t) = 13 /\ DOMAIN t = 1..13
  BY MacNodesAre
<1>3. /\ Rel(<<"private", "tmp">>) \in Path /\ Rel(<<"private", "var">>) \in Path
  BY DEF Rel, Path, FsNames
<1>4. /\ IsTied(t[1], 0, 0) /\ IsTied(t[2], 0, 0) /\ IsTied(t[3], 0, 0)
      /\ IsTied(t[4], 9, 0) /\ IsTied(t[5], 11, 0) /\ IsTied(t[6], 0, 0)
      /\ IsTied(t[7], 0, 0) /\ IsTied(t[8], 0, 0) /\ IsTied(t[9], 0, 2)
      /\ IsTied(t[10], 0, 0) /\ IsTied(t[11], 0, 3) /\ IsTied(t[12], 0, 0)
      /\ IsTied(t[13], 0, 0)
  BY <1>3, TiesAre DEF MacNodes
<1>5. /\ IsNode(t[1], "dir", 0, t[1].kids) /\ IsNode(t[2], "dir", 1, Pair("var", 3, "tmp", 4))
      /\ IsNode(t[3], "dir", 2, Kid("tmp", 5)) /\ IsNode(t[4], "opaque", 2, NoKids)
      /\ IsNode(t[5], "opaque", 3, NoKids) /\ IsNode(t[6], "link", 1, NoKids)
      /\ IsNode(t[7], "link", 1, NoKids) /\ IsNode(t[8], "dir", 1, Pair("tmp", 9, "var", 10))
      /\ IsNode(t[9], "dir", 8, Kid("s", 12)) /\ IsNode(t[10], "dir", 8, Kid("tmp", 11))
      /\ IsNode(t[11], "dir", 10, Kid("s", 13)) /\ IsNode(t[12], "dir", 9, NoKids)
      /\ IsNode(t[13], "dir", 11, NoKids)
  BY MacNodesAre
<1>6. /\ DOMAIN t[1].kids = {"private", "tmp", "var", Root[1]}
      /\ t[1].kids["private"] = 2
      /\ t[1].kids["tmp"] = 6
      /\ t[1].kids["var"] = 7
      /\ t[1].kids[Root[1]] = 8
  BY MacNodesAre
<1> HIDE DEF s, t
<1>7. /\ t[1].up = 0 /\ t[2].up = 1 /\ t[3].up = 2 /\ t[4].up = 2 /\ t[5].up = 3
      /\ t[6].up = 1 /\ t[7].up = 1 /\ t[8].up = 1 /\ t[9].up = 8 /\ t[10].up = 8
      /\ t[11].up = 10 /\ t[12].up = 9 /\ t[13].up = 11
  BY <1>5 DEF IsNode
<1>8. /\ t[2].kids = Pair("var", 3, "tmp", 4) /\ t[3].kids = Kid("tmp", 5)
      /\ t[4].kids = NoKids /\ t[5].kids = NoKids
      /\ t[6].kids = NoKids /\ t[7].kids = NoKids
      /\ t[8].kids = Pair("tmp", 9, "var", 10) /\ t[9].kids = Kid("s", 12)
      /\ t[10].kids = Kid("tmp", 11) /\ t[11].kids = Kid("s", 13)
      /\ t[12].kids = NoKids /\ t[13].kids = NoKids
  BY <1>5 DEF IsNode
<1>9. /\ "var" \in DOMAIN t[2].kids /\ t[2].kids["var"] = 3
      /\ "tmp" \in DOMAIN t[2].kids /\ t[2].kids["tmp"] = 4
      /\ "tmp" \in DOMAIN t[3].kids /\ t[3].kids["tmp"] = 5
      /\ "tmp" \in DOMAIN t[8].kids /\ t[8].kids["tmp"] = 9
      /\ "var" \in DOMAIN t[8].kids /\ t[8].kids["var"] = 10
      /\ "tmp" \in DOMAIN t[10].kids /\ t[10].kids["tmp"] = 11
      /\ "s" \in DOMAIN t[9].kids /\ t[9].kids["s"] = 12
      /\ "s" \in DOMAIN t[11].kids /\ t[11].kids["s"] = 13
  BY <1>8 DEF Kid, Pair
<1>10. /\ "private" \in DOMAIN t[1].kids /\ "tmp" \in DOMAIN t[1].kids
       /\ "var" \in DOMAIN t[1].kids /\ Root[1] \in DOMAIN t[1].kids
  BY <1>6
<1>11. \A n \in 1..13 :
        \/ n = 1 \/ n = 2 \/ n = 3 \/ n = 4 \/ n = 5 \/ n = 6
        \/ n = 7 \/ n = 8 \/ n = 9 \/ n = 10 \/ n = 11 \/ n = 12 \/ n = 13
  OBVIOUS
<1>12. Sandboxes(s) = {12, 13} /\ Outer(s) = {1, 2, 3} /\ RootNode = 1
  BY <1>1 DEF Sandboxes, Outer, RootNode
<1>13. \A n \in 2..13 : t[n].up \in 1..(n - 1) /\ t[n].up \notin Sandboxes(s)
  <2> DEFINE P(n) == t[n].up \in 1..(n - 1) /\ t[n].up \notin Sandboxes(s)
  <2>2. P(2)
    BY <1>7, <1>12
  <2>3. P(3)
    BY <1>7, <1>12
  <2>4. P(4)
    BY <1>7, <1>12
  <2>5. P(5)
    BY <1>7, <1>12
  <2>6. P(6)
    BY <1>7, <1>12
  <2>7. P(7)
    BY <1>7, <1>12
  <2>8. P(8)
    BY <1>7, <1>12
  <2>9. P(9)
    BY <1>7, <1>12
  <2>10. P(10)
    BY <1>7, <1>12
  <2>11. P(11)
    BY <1>7, <1>12
  <2>12. P(12)
    BY <1>7, <1>12
  <2>13. P(13)
    BY <1>7, <1>12
  <2> HIDE DEF P
  <2>20. \A n \in 2..13 : P(n)
    BY <1>11, <2>2, <2>3, <2>4, <2>5, <2>6, <2>7, <2>8, <2>9, <2>10, <2>11, <2>12, <2>13
  <2> QED BY <2>20 DEF P
<1>14. \A n \in 2..13 : \E c \in DOMAIN t[t[n].up].kids : t[t[n].up].kids[c] = n
  <2> DEFINE P(n) == \E c \in DOMAIN t[t[n].up].kids : t[t[n].up].kids[c] = n
  <2>2. P(2)
    BY <1>7, <1>6, <1>10
  <2>3. P(3)
    BY <1>7, <1>9
  <2>4. P(4)
    BY <1>7, <1>9
  <2>5. P(5)
    BY <1>7, <1>9
  <2>6. P(6)
    BY <1>7, <1>6, <1>10
  <2>7. P(7)
    BY <1>7, <1>6, <1>10
  <2>8. P(8)
    BY <1>7, <1>6, <1>10
  <2>9. P(9)
    BY <1>7, <1>9
  <2>10. P(10)
    BY <1>7, <1>9
  <2>11. P(11)
    BY <1>7, <1>9
  <2>12. P(12)
    BY <1>7, <1>9
  <2>13. P(13)
    BY <1>7, <1>9
  <2> HIDE DEF P
  <2>20. \A n \in 2..13 : P(n)
    BY <1>11, <2>2, <2>3, <2>4, <2>5, <2>6, <2>7, <2>8, <2>9, <2>10, <2>11, <2>12, <2>13
  <2> QED BY <2>20 DEF P
<1>15. /\ t[1].over = 0 /\ t[1].vup = 0 /\ t[2].over = 0 /\ t[2].vup = 0
       /\ t[3].over = 0 /\ t[3].vup = 0 /\ t[4].over = 9 /\ t[4].vup = 0
       /\ t[5].over = 11 /\ t[5].vup = 0 /\ t[6].over = 0 /\ t[6].vup = 0
       /\ t[7].over = 0 /\ t[7].vup = 0 /\ t[8].over = 0 /\ t[8].vup = 0
       /\ t[9].over = 0 /\ t[9].vup = 2 /\ t[10].over = 0 /\ t[10].vup = 0
       /\ t[11].over = 0 /\ t[11].vup = 3 /\ t[12].over = 0 /\ t[12].vup = 0
       /\ t[13].over = 0 /\ t[13].vup = 0
  BY <1>4 DEF IsTied
<1>16. \A n \in 1..13 : t[n].over # 0 => t[t[n].over].vup # 0
  BY <1>11, <1>15
<1>17. \A n \in 1..13 : t[n].vup # 0 =>
         LET up == t[t[n].vup] IN
         "tmp" \in DOMAIN up.kids /\ t[up.kids["tmp"]].over = n /\ t[n].vup \in Outer(s)
  <2> TAKE n \in 1..13
  <2>1. n = 9 \/ n = 11 \/ t[n].vup = 0
    BY <1>11, <1>15
  <2>2. CASE n = 9
    BY <2>2, <1>9, <1>10, <1>6, <1>12, <1>15
  <2>3. CASE n = 11
    BY <2>3, <1>9, <1>12, <1>15
  <2> QED BY <2>1, <2>2, <2>3
<1>18. \A n \in Outer(s) : t[n].vup = 0 /\ (n # RootNode => t[n].up \in Outer(s)) /\ n \in 1..13
  BY <1>7, <1>12, <1>15
<1>19. /\ RootNode \notin Sandboxes(s) /\ Sandboxes(s) \subseteq 1..13
       /\ \A n \in Sandboxes(s) : t[n].over = 0
  BY <1>12, <1>15
<1>20. Mounts(s)
  BY <1>1, <1>2, <1>16 DEF Mounts
<1> DEFINE k == 13
<1>21. Len(t) = k /\ DOMAIN t = 1..k
  BY <1>2
<1>22. /\ \A n \in 2..k : t[n].up \in 1..(n - 1) /\ t[n].up \notin Sandboxes(s)
       /\ \A n \in 2..k : \E c \in DOMAIN t[t[n].up].kids : t[t[n].up].kids[c] = n
  BY <1>13, <1>14
<1>23. \A n \in 1..k : t[n].vup # 0 =>
         LET up == t[t[n].vup] IN
         "tmp" \in DOMAIN up.kids /\ t[up.kids["tmp"]].over = n /\ t[n].vup \in Outer(s)
  BY <1>17
<1>24. /\ \A n \in Outer(s) : t[n].vup = 0 /\ (n # RootNode => t[n].up \in Outer(s)) /\ n \in 1..k
       /\ Sandboxes(s) \subseteq 1..k
  BY <1>18, <1>19
<1> HIDE DEF k
<1>25. t = s.nodes
  BY <1>1
<1> HIDE DEF t
<1>26. MadeInTurn(t, Sandboxes(s))
  BY <1>21, <1>22 DEF MadeInTurn
<1>27. MountedAtTmp(t, Outer(s))
  BY <1>21, <1>23 DEF MountedAtTmp
<1>28. AboveMounts(t, Outer(s))
  BY <1>21, <1>24 DEF AboveMounts
<1>29. /\ RootNode \notin Sandboxes(s) /\ Sandboxes(s) \subseteq DOMAIN t
       /\ \A n \in Sandboxes(s) : t[n].over = 0
  BY <1>19, <1>21, <1>24
<1>30. HostTable(s)
  BY <1>20, <1>25, <1>26, <1>27, <1>28, <1>29 DEF HostTable
<1> QED
  BY <1>30 DEF s

\* The first model on Linux: each node after its parent.
LEMMA LinuxTable ==
    ASSUME FsBounds, FsNames PROVE HostTable(New(FALSE))
<1> DEFINE s == New(FALSE)
           t == LinuxNodes
<1>1. s.nodes = t /\ s.mac = FALSE
  BY DEF New
<1>2. Len(t) = 10 /\ DOMAIN t = 1..10
  BY LinuxNodesAre
<1>4. /\ IsTied(t[1], 0, 0) /\ IsTied(t[2], 6, 0) /\ IsTied(t[3], 0, 0)
      /\ IsTied(t[4], 8, 0) /\ IsTied(t[5], 0, 0) /\ IsTied(t[6], 0, 1)
      /\ IsTied(t[7], 0, 0) /\ IsTied(t[8], 0, 3) /\ IsTied(t[9], 0, 0)
      /\ IsTied(t[10], 0, 0)
  BY TiesAre DEF LinuxNodes
<1>5. /\ IsNode(t[1], "dir", 0, t[1].kids) /\ IsNode(t[2], "opaque", 1, NoKids)
      /\ IsNode(t[3], "dir", 1, Kid("tmp", 4)) /\ IsNode(t[4], "opaque", 3, NoKids)
      /\ IsNode(t[5], "dir", 1, Pair("tmp", 6, "var", 7)) /\ IsNode(t[6], "dir", 5, Kid("s", 9))
      /\ IsNode(t[7], "dir", 5, Kid("tmp", 8)) /\ IsNode(t[8], "dir", 7, Kid("s", 10))
      /\ IsNode(t[9], "dir", 6, NoKids) /\ IsNode(t[10], "dir", 8, NoKids)
  BY LinuxNodesAre
<1>6. /\ DOMAIN t[1].kids = {"tmp", "var", Root[1]}
      /\ t[1].kids["tmp"] = 2
      /\ t[1].kids["var"] = 3
      /\ t[1].kids[Root[1]] = 5
  BY LinuxNodesAre
<1> HIDE DEF s, t
<1>7. /\ t[1].up = 0 /\ t[2].up = 1 /\ t[3].up = 1 /\ t[4].up = 3 /\ t[5].up = 1
      /\ t[6].up = 5 /\ t[7].up = 5 /\ t[8].up = 7 /\ t[9].up = 6 /\ t[10].up = 8
  BY <1>5 DEF IsNode
<1>8. /\ t[2].kids = NoKids /\ t[3].kids = Kid("tmp", 4)
      /\ t[4].kids = NoKids /\ t[5].kids = Pair("tmp", 6, "var", 7)
      /\ t[6].kids = Kid("s", 9) /\ t[7].kids = Kid("tmp", 8)
      /\ t[8].kids = Kid("s", 10) /\ t[9].kids = NoKids
      /\ t[10].kids = NoKids
  BY <1>5 DEF IsNode
<1>9. /\ "tmp" \in DOMAIN t[3].kids /\ t[3].kids["tmp"] = 4
      /\ "tmp" \in DOMAIN t[5].kids /\ t[5].kids["tmp"] = 6
      /\ "var" \in DOMAIN t[5].kids /\ t[5].kids["var"] = 7
      /\ "tmp" \in DOMAIN t[7].kids /\ t[7].kids["tmp"] = 8
      /\ "s" \in DOMAIN t[6].kids /\ t[6].kids["s"] = 9
      /\ "s" \in DOMAIN t[8].kids /\ t[8].kids["s"] = 10
  BY <1>8 DEF Kid, Pair
<1>10. /\ "tmp" \in DOMAIN t[1].kids /\ "var" \in DOMAIN t[1].kids
       /\ Root[1] \in DOMAIN t[1].kids
  BY <1>6
<1>11. \A n \in 1..10 :
        \/ n = 1 \/ n = 2 \/ n = 3 \/ n = 4 \/ n = 5
        \/ n = 6 \/ n = 7 \/ n = 8 \/ n = 9 \/ n = 10
  OBVIOUS
<1>12. Sandboxes(s) = {9, 10} /\ Outer(s) = {1, 3} /\ RootNode = 1
  BY <1>1 DEF Sandboxes, Outer, RootNode
<1>13. \A n \in 2..10 : t[n].up \in 1..(n - 1) /\ t[n].up \notin Sandboxes(s)
  <2> DEFINE P(n) == t[n].up \in 1..(n - 1) /\ t[n].up \notin Sandboxes(s)
  <2>2. P(2)
    BY <1>7, <1>12
  <2>3. P(3)
    BY <1>7, <1>12
  <2>4. P(4)
    BY <1>7, <1>12
  <2>5. P(5)
    BY <1>7, <1>12
  <2>6. P(6)
    BY <1>7, <1>12
  <2>7. P(7)
    BY <1>7, <1>12
  <2>8. P(8)
    BY <1>7, <1>12
  <2>9. P(9)
    BY <1>7, <1>12
  <2>10. P(10)
    BY <1>7, <1>12
  <2> HIDE DEF P
  <2>20. \A n \in 2..10 : P(n)
    BY <1>11, <2>2, <2>3, <2>4, <2>5, <2>6, <2>7, <2>8, <2>9, <2>10
  <2> QED BY <2>20 DEF P
<1>14. \A n \in 2..10 : \E c \in DOMAIN t[t[n].up].kids : t[t[n].up].kids[c] = n
  <2> DEFINE P(n) == \E c \in DOMAIN t[t[n].up].kids : t[t[n].up].kids[c] = n
  <2>2. P(2)
    BY <1>7, <1>6, <1>10
  <2>3. P(3)
    BY <1>7, <1>6, <1>10
  <2>4. P(4)
    BY <1>7, <1>9
  <2>5. P(5)
    BY <1>7, <1>6, <1>10
  <2>6. P(6)
    BY <1>7, <1>9
  <2>7. P(7)
    BY <1>7, <1>9
  <2>8. P(8)
    BY <1>7, <1>9
  <2>9. P(9)
    BY <1>7, <1>9
  <2>10. P(10)
    BY <1>7, <1>9
  <2> HIDE DEF P
  <2>20. \A n \in 2..10 : P(n)
    BY <1>11, <2>2, <2>3, <2>4, <2>5, <2>6, <2>7, <2>8, <2>9, <2>10
  <2> QED BY <2>20 DEF P
<1>15. /\ t[1].over = 0 /\ t[1].vup = 0 /\ t[2].over = 6 /\ t[2].vup = 0
       /\ t[3].over = 0 /\ t[3].vup = 0 /\ t[4].over = 8 /\ t[4].vup = 0
       /\ t[5].over = 0 /\ t[5].vup = 0 /\ t[6].over = 0 /\ t[6].vup = 1
       /\ t[7].over = 0 /\ t[7].vup = 0 /\ t[8].over = 0 /\ t[8].vup = 3
       /\ t[9].over = 0 /\ t[9].vup = 0 /\ t[10].over = 0 /\ t[10].vup = 0
  BY <1>4 DEF IsTied
<1>16. \A n \in 1..10 : t[n].over # 0 => t[t[n].over].vup # 0
  BY <1>11, <1>15
<1>17. \A n \in 1..10 : t[n].vup # 0 =>
         LET up == t[t[n].vup] IN
         "tmp" \in DOMAIN up.kids /\ t[up.kids["tmp"]].over = n /\ t[n].vup \in Outer(s)
  <2> TAKE n \in 1..10
  <2>1. n = 6 \/ n = 8 \/ t[n].vup = 0
    BY <1>11, <1>15
  <2>2. CASE n = 6
    BY <2>2, <1>9, <1>10, <1>6, <1>12, <1>15
  <2>3. CASE n = 8
    BY <2>3, <1>9, <1>12, <1>15
  <2> QED BY <2>1, <2>2, <2>3
<1>18. \A n \in Outer(s) : t[n].vup = 0 /\ (n # RootNode => t[n].up \in Outer(s)) /\ n \in 1..10
  BY <1>7, <1>12, <1>15
<1>19. /\ RootNode \notin Sandboxes(s) /\ Sandboxes(s) \subseteq 1..10
       /\ \A n \in Sandboxes(s) : t[n].over = 0
  BY <1>12, <1>15
<1>20. Mounts(s)
  BY <1>1, <1>2, <1>16 DEF Mounts
<1> DEFINE k == 10
<1>21. Len(t) = k /\ DOMAIN t = 1..k
  BY <1>2
<1>22. /\ \A n \in 2..k : t[n].up \in 1..(n - 1) /\ t[n].up \notin Sandboxes(s)
       /\ \A n \in 2..k : \E c \in DOMAIN t[t[n].up].kids : t[t[n].up].kids[c] = n
  BY <1>13, <1>14
<1>23. \A n \in 1..k : t[n].vup # 0 =>
         LET up == t[t[n].vup] IN
         "tmp" \in DOMAIN up.kids /\ t[up.kids["tmp"]].over = n /\ t[n].vup \in Outer(s)
  BY <1>17
<1>24. /\ \A n \in Outer(s) : t[n].vup = 0 /\ (n # RootNode => t[n].up \in Outer(s)) /\ n \in 1..k
       /\ Sandboxes(s) \subseteq 1..k
  BY <1>18, <1>19
<1> HIDE DEF k
<1>25. t = s.nodes
  BY <1>1
<1> HIDE DEF t
<1>26. MadeInTurn(t, Sandboxes(s))
  BY <1>21, <1>22 DEF MadeInTurn
<1>27. MountedAtTmp(t, Outer(s))
  BY <1>21, <1>23 DEF MountedAtTmp
<1>28. AboveMounts(t, Outer(s))
  BY <1>21, <1>24 DEF AboveMounts
<1>29. /\ RootNode \notin Sandboxes(s) /\ Sandboxes(s) \subseteq DOMAIN t
       /\ \A n \in Sandboxes(s) : t[n].over = 0
  BY <1>19, <1>21, <1>24
<1>30. HostTable(s)
  BY <1>20, <1>25, <1>26, <1>27, <1>28, <1>29 DEF HostTable
<1> QED
  BY <1>30 DEF s

-----------------------------------------------------------------------------
(* FsDriver: what is the host's stays                                      *)

\* The model that s was first, and its names but those of the run's own
\* directories.
First(s) == New(s.mac)
HostEntries(s) == {e \in TreeOf(First(s)).entries : e.node \notin Sandboxes(s)}
Hosted(s) == SameNodes(First(s), s) /\ HostEntries(s) \subseteq TreeOf(s).entries

\* The first model is in order, and its directories are as they are.
LEMMA FirstTable ==
    ASSUME FsBounds, FsNames, NEW s, s.mac \in BOOLEAN
    PROVE  /\ Sound(First(s)) /\ HostTable(First(s)) /\ First(s).mac = s.mac
           /\ Sandboxes(First(s)) = Sandboxes(s) /\ Outer(First(s)) = Outer(s)
<1>1. s.mac = TRUE \/ s.mac = FALSE
  OBVIOUS
<1>2. First(s).mac = s.mac
  BY DEF First, New
<1>3. Sound(First(s))
  BY <1>1, FsBounds, FsNames, MacSound, LinuxSound DEF First
<1>4. HostTable(First(s))
  BY <1>1, FsBounds, FsNames, MacTable, LinuxTable DEF First
<1> QED
  BY <1>2, <1>3, <1>4 DEF Sandboxes, Outer

\* Nodes of the host are where they were first, under the same name.
LEMMA HostStands ==
    ASSUME FsBounds, FsNames, Sound(m), Hosted(m), NEW n, n \in 2..Len(First(m).nodes),
           n \notin Sandboxes(m)
    PROVE  /\ n \in DOMAIN m.nodes /\ m.nodes[n].up = First(m).nodes[n].up
           /\ m.nodes[n].up \in 1..(n - 1) /\ m.nodes[n].up \notin Sandboxes(m)
           /\ \A c \in DOMAIN First(m).nodes[m.nodes[n].up].kids :
                First(m).nodes[m.nodes[n].up].kids[c] = n =>
                  Has(m, m.nodes[n].up, c) /\ Kids(m, m.nodes[n].up)[c] = n
<1> DEFINE f == First(m)
           d == f.nodes[n].up
<1>1. m.mac \in BOOLEAN /\ ModelShape(m) /\ OneTree(TreeOf(m))
  BY DEF Sound, ModelOK
<1>2. Sound(f) /\ HostTable(f) /\ Sandboxes(f) = Sandboxes(m)
  BY <1>1, FsBounds, FsNames, FirstTable
<1>3. Len(f.nodes) \in Nat /\ DOMAIN f.nodes = 1..Len(f.nodes)
  BY <1>2, NodesAre
<1>4. Len(m.nodes) >= Len(f.nodes) /\ Len(m.nodes) \in Nat /\ DOMAIN m.nodes = 1..Len(m.nodes)
  BY NodesAre DEF Hosted, SameNodes
<1>5. /\ d \in 1..(n - 1) /\ d \notin Sandboxes(m)
      /\ \E c \in DOMAIN f.nodes[d].kids : f.nodes[d].kids[c] = n
  BY <1>2 DEF HostTable, MadeInTurn
<1>6. d \in DOMAIN f.nodes
  BY <1>3, <1>5
<1> HIDE DEF f, d
<1>7. ASSUME NEW c \in DOMAIN f.nodes[d].kids, f.nodes[d].kids[c] = n
      PROVE  m.nodes[n].up = d /\ Has(m, d, c) /\ Kids(m, d)[c] = n
  <2> DEFINE e == Entry(d, c, n)
  <2>1. e.dir = d /\ e.name = c /\ e.node = n
    BY EntryParts
  <2>2. e = Entry(e.dir, e.name, e.node)
    BY <2>1
  <2> HIDE DEF e
  <2>3. e \in TreeOf(f).entries
    BY <1>6, <1>7, <2>1, <2>2, EntryIn
  <2>4. e \in TreeOf(m).entries
    BY <2>1, <2>3 DEF Hosted, HostEntries, f
  <2>5. Has(m, d, c) /\ Kids(m, d)[c] = n
    BY <2>1, <2>4, EntryIn DEF Has, Kids
  <2>6. TreeOf(m).up[n] = d
    BY <1>1, <2>1, <2>4 DEF OneTree, Named
  <2>7. TreeOf(m).up[n] = m.nodes[n].up
    <3>1. n \in 1..Len(m.nodes)
      BY <1>3, <1>4 DEF f
    <3>2. TreeOf(m).up = [x \in 1..Len(m.nodes) |-> m.nodes[x].up]
      BY <1>1, TreeIs
    <3> QED BY <3>1, <3>2
  <2> QED BY <2>5, <2>6, <2>7
<1>8. m.nodes[n].up = d
  BY <1>5, <1>7
<1>9. n \in DOMAIN m.nodes
  BY <1>3, <1>4 DEF f
<1> QED
  BY <1>5, <1>7, <1>8, <1>9 DEF f, d

\* None of them is inside the run's own directories.
LEMMA HostIsOutside ==
    ASSUME FsBounds, FsNames, Sound(m), Hosted(m), NEW n \in DOMAIN First(m).nodes,
           n \notin Sandboxes(m)
    PROVE  ~Inside(n)
<1> DEFINE f == First(m)
           k == Len(f.nodes)
           own == Sandboxes(m)
           T == {i \in 0..k : \A x \in 1..i : x \notin own => ~Inside(x)}
           t == TreeOf(m)
<1>1. m.mac \in BOOLEAN /\ ModelShape(m) /\ OneTree(t)
  BY DEF Sound, ModelOK
<1>2. Sound(f) /\ HostTable(f) /\ Sandboxes(f) = own
  BY <1>1, FsBounds, FsNames, FirstTable
<1>3. k \in Nat /\ DOMAIN f.nodes = 1..k
  BY <1>2, NodesAre
<1>4. t.count = Len(m.nodes) /\ t.count \in Nat /\ t.count >= k
  BY <1>1, TreeIs, NodesAre DEF Hosted, SameNodes
<1>5. \A x \in 1..t.count : t.above[x] = Ancestors(m, x) /\ t.up[x] = m.nodes[x].up
  <2>1. t.up = [x \in 1..Len(m.nodes) |-> m.nodes[x].up]
    BY <1>1, TreeIs
  <2>2. \A x \in 1..Len(m.nodes) : t.above[x] = Ancestors(m, x)
    BY <1>1, TreeIs
  <2> HIDE DEF t
  <2> QED BY <2>1, <2>2, <1>4
<1>6. \A x \in 2..t.count : t.above[x] = {x} \cup t.above[t.up[x]]
  BY <1>1 DEF OneTree, Rooted, RootedBy
<1>7. t.above[1] = {1}
  BY <1>1 DEF OneTree, Rooted, RootedBy, Top
<1>8. \A x \in 2..k : x \notin own => m.nodes[x].up \in 1..(x - 1) /\ m.nodes[x].up \notin own
  BY FsBounds, FsNames, HostStands
<1>9. RootNode \notin own
  BY <1>2 DEF HostTable
<1> HIDE DEF f, k, own, t
<1>10. Climbs(k, T)
  <2>1. 0 \in T
    BY <1>3
  <2>2. ASSUME NEW i \in 1..k, i - 1 \in T PROVE i \in T
    <3> SUFFICES ASSUME NEW x \in 1..i, x \notin own PROVE ~Inside(x)
      BY <1>3
    <3>1. CASE x < i
      BY <3>1, <2>2, <1>3
    <3>2. CASE x = i /\ x = 1
      <4>1. Ancestors(m, 1) = {1}
        BY <3>2, <1>3, <1>4, <1>5, <1>7
      <4> QED BY <4>1, <3>2, <1>9 DEF Inside, RootNode, own
    <3>3. CASE x = i /\ x # 1
      <4>1. x \in 2..k /\ x \in 2..t.count
        BY <3>3, <1>3, <1>4
      <4>2. m.nodes[x].up \in 1..(i - 1) /\ m.nodes[x].up \notin own
        BY <3>3, <4>1, <1>8
      <4>3. ~Inside(m.nodes[x].up)
        BY <4>2, <2>2
      <4>4. m.nodes[x].up \in 1..t.count /\ x \in 1..t.count
        BY <4>1, <4>2, <1>4, <1>3
      <4>5. Ancestors(m, x) = {x} \cup Ancestors(m, m.nodes[x].up)
        BY <4>1, <4>4, <1>5, <1>6
      <4> QED BY <4>3, <4>5 DEF Inside, own
    <3> QED BY <3>1, <3>2, <3>3
  <2> QED BY <2>1, <2>2, <1>3 DEF Climbs
<1>11. 0..k \subseteq T
  BY <1>10, UpToInduction
<1>12. k \in T
  BY <1>3, <1>11
<1>13. n \in 1..k
  BY <1>3 DEF f
<1>14. n \notin own
  BY DEF own
<1> QED
  BY <1>12, <1>13, <1>14

\* What is mounted was so first.
LEMMA HostMounts ==
    ASSUME FsBounds, FsNames, NEW s, Sound(s), Hosted(s) PROVE Mounts(s)
<1> DEFINE f == First(s)
<1>1. Sound(f) /\ Mounts(f)
  BY FsBounds, FsNames, FirstTable DEF Sound, ModelOK, HostTable
<1>2. /\ Len(f.nodes) \in Nat /\ DOMAIN f.nodes = 1..Len(f.nodes)
      /\ Len(s.nodes) \in Nat /\ DOMAIN s.nodes = 1..Len(s.nodes)
  BY <1>1, NodesAre
<1>3. SameNodes(f, s)
  BY DEF Hosted
<1> HIDE DEF f
<1> SUFFICES ASSUME NEW h \in DOMAIN s.nodes, s.nodes[h].over # 0
             PROVE  s.nodes[s.nodes[h].over].vup # 0
  BY DEF Mounts
<1>4. h \in 1..Len(f.nodes)
  BY <1>2, <1>3 DEF SameNodes
<1>5. f.nodes[h].over = s.nodes[h].over
  BY <1>3, <1>4 DEF SameNodes, SameNode
<1>6. f.nodes[f.nodes[h].over].vup # 0
  BY <1>1, <1>2, <1>4, <1>5 DEF Mounts
<1>7. f.nodes[h].over \in 1..Len(f.nodes)
  <2>1. NodePlain(f, f.nodes[h])
    BY <1>1, <1>2, <1>4, NodesAre
  <2> QED BY <2>1, <1>2, <1>5 DEF NodePlain, Seat, Clear
<1> QED
  BY <1>3, <1>5, <1>6, <1>7 DEF SameNodes, SameNode

\* Calls take away only what is inside: so the host's names stay.
LEMMA HostedNext ==
    ASSUME Sound(m), Hosted(m), [FsNext]_fsVars PROVE Hosted(m')
<1>1. Keeps(m, m') /\ Sound(m')
  BY CallsKeep DEF Keeps
<1>2. Mounts(m)
  BY FsBounds, FsNames, HostMounts
<1>3. Spares(m')
  BY <1>2, CallsSpare
<1>4. SameNodes(m, m') /\ m'.mac = m.mac
  BY <1>1 DEF Keeps, SameNodes
<1>5. m.mac \in BOOLEAN
  BY DEF Sound, ModelOK
<1>6. First(m') = First(m) /\ Sandboxes(m') = Sandboxes(m)
  BY <1>4 DEF First, Sandboxes
<1>7. Sound(First(m))
  BY <1>5, FsBounds, FsNames, FirstTable
<1>8. SameNodes(First(m), m')
  <2>1. Len(First(m).nodes) \in Nat /\ Len(m.nodes) \in Nat /\ Len(m'.nodes) \in Nat
    BY <1>1, <1>7, NodesAre
  <2> QED BY <2>1, <1>4, SameNodesOn DEF Hosted
<1>9. HostEntries(m') = HostEntries(m)
  BY <1>6 DEF HostEntries
<1>10. ASSUME NEW e \in HostEntries(m) PROVE e \in TreeOf(m').entries
  <2>1. e \in TreeOf(m).entries
    BY DEF Hosted
  <2>2. e.node \in DOMAIN First(m).nodes /\ e.node \notin Sandboxes(m)
    <3>1. e \in TreeOf(First(m)).entries
      BY DEF HostEntries
    <3>2. e.node = First(m).nodes[e.dir].kids[e.name] /\ e.dir \in DOMAIN First(m).nodes
          /\ e.name \in DOMAIN First(m).nodes[e.dir].kids
      BY <3>1, EntryIn
    <3> QED BY <1>7, <3>2, NodesAre DEF HostEntries
  <2>3. ~Inside(e.node)
    BY <2>2, FsBounds, FsNames, HostIsOutside
  <2> QED BY <2>1, <2>3, <1>3 DEF Spares
<1> QED
  BY <1>6, <1>8, <1>9, <1>10 DEF Hosted

\* At first nothing is lost.
LEMMA HostedFirst == FsInit => Hosted(m)
<1> SUFFICES ASSUME FsInit PROVE Hosted(m)
  OBVIOUS
<1>1. PICK mac \in BOOLEAN : m = New(mac)
  BY DEF FsInit, Macs
<1>2. m = First(m) /\ Sound(m)
  BY <1>1, FirstIsSound DEF First, New
<1>3. SameNodes(m, m)
  <2>1. SameNodes(m, m)
    BY <1>2, SameKeeps DEF Grows, Keeps
  <2> QED BY <2>1
<1> QED
  BY <1>2, <1>3 DEF Hosted, HostEntries

\* parent_allowed and guarded_chain keep what is the host's: however calls that
\* they let through go, through links and slashes, made before or during the
\* run, of what was there first only the run's own two directories are moved or
\* removed.
THEOREM GuardsKeepTheHost == FsSpec => []HostKept
<1>1. FsInit => Sound(m) /\ Hosted(m)
  BY FirstIsSound, HostedFirst
<1>2. Sound(m) /\ Hosted(m) /\ [FsNext]_fsVars => (Sound(m) /\ Hosted(m))'
  BY SoundIsKept, HostedNext
<1>3. Sound(m) /\ Hosted(m) => HostKept
  BY DEF Hosted, HostEntries, First, HostKept
<1> QED
  BY <1>1, <1>2, <1>3, PTL DEF FsSpec

-----------------------------------------------------------------------------
(* FsDriver: what is above a node of the model                             *)

\* The parent of a node, and what is above it.
LEMMA ParentIs ==
    ASSUME NEW s, Sound(s), NEW n \in DOMAIN s.nodes, n # RootNode
    PROVE  LET up == s.nodes[n].up IN
           /\ up \in DOMAIN s.nodes /\ up # 0 /\ IsDir(s, up) /\ Clear(s, up)
           /\ Ancestors(s, n) = {n} \cup Ancestors(s, up) /\ n \notin Ancestors(s, up)
           /\ Ancestors(s, n) \subseteq DOMAIN s.nodes
<1> DEFINE t == TreeOf(s)
           up == s.nodes[n].up
<1>1. OneTree(t) /\ ModelShape(s)
  BY DEF Sound
<1>2. /\ t.count = Len(s.nodes) /\ t.count \in Nat /\ DOMAIN s.nodes = 1..t.count
      /\ \A x \in 1..t.count : t.above[x] = Ancestors(s, x)
      /\ \A x \in 1..t.count : x \in t.dirs <=> IsDir(s, x)
  <2>1. t.count = Len(s.nodes)
    BY <1>1, TreeIs
  <2>2. Len(s.nodes) \in Nat /\ DOMAIN s.nodes = 1..Len(s.nodes)
    BY <1>1, TreeIs
  <2>3. \A x \in 1..Len(s.nodes) : t.above[x] = Ancestors(s, x)
    BY <1>1, TreeIs
  <2>4. \A x \in 1..Len(s.nodes) : x \in t.dirs <=> IsDir(s, x)
    BY <1>1, TreeIs
  <2> QED BY <2>1, <2>2, <2>3, <2>4
<1>3. t.up[n] = up
  <2>1. t.up = [x \in 1..Len(s.nodes) |-> s.nodes[x].up]
    BY <1>1, TreeIs
  <2> QED BY <2>1, <1>2
<1>4. n \in 2..t.count
  BY <1>2 DEF RootNode
<1>5. /\ t.up[n] \in t.dirs /\ n \notin t.above[t.up[n]]
      /\ t.above[n] = {n} \cup t.above[t.up[n]]
  BY <1>1, <1>4 DEF OneTree, Rooted, RootedBy
<1>6. t.dirs \subseteq 1..t.count /\ t.above[n] \subseteq 1..t.count
  <2>1. t.above \in [1..t.count -> SUBSET (1..t.count)] /\ t.dirs \subseteq 1..t.count
    BY <1>1 DEF OneTree, TreeTypeOK
  <2>2. n \in 1..t.count
    BY <1>2
  <2> HIDE DEF t
  <2> QED BY <2>1, <2>2
<1> HIDE DEF t, up
<1>7. /\ up \in 1..t.count /\ up \in t.dirs /\ n \notin t.above[up] /\ t.above[n] = {n} \cup t.above[up]
  BY <1>3, <1>5, <1>6
<1>8. up # 0 /\ n \in 1..t.count
  BY <1>7, <1>4
<1>9. Clear(s, up)
  <2>1. NodePlain(s, s.nodes[n])
    BY NodesAre
  <2> QED BY <1>8, <2>1 DEF NodePlain, up
<1>10. t.above[n] = Ancestors(s, n) /\ t.above[up] = Ancestors(s, up) /\ IsDir(s, up)
  BY <1>2, <1>7, <1>8
<1> QED
  BY <1>2, <1>6, <1>7, <1>8, <1>9, <1>10 DEF up

\* Nothing is above the root, every node is above itself, and there are
\* finitely many.
LEMMA TopIs ==
    ASSUME NEW s, Sound(s)
    PROVE  /\ Ancestors(s, RootNode) = {RootNode} /\ ~s.nodes[RootNode].dead
           /\ \A n \in DOMAIN s.nodes : /\ n \in Ancestors(s, n)
                                        /\ Ancestors(s, n) \subseteq DOMAIN s.nodes
                                        /\ IsFiniteSet(Ancestors(s, n))
<1> DEFINE t == TreeOf(s)
<1>1. OneTree(t) /\ ModelShape(s)
  BY DEF Sound
<1>2. /\ t.count = Len(s.nodes) /\ t.count \in Nat \ {0} /\ DOMAIN s.nodes = 1..t.count
      /\ \A x \in 1..t.count : t.above[x] = Ancestors(s, x)
      /\ t.dead = {x \in 1..t.count : s.nodes[x].dead}
  <2>1. t.count = Len(s.nodes)
    BY <1>1, TreeIs
  <2>2. Len(s.nodes) \in Nat /\ DOMAIN s.nodes = 1..Len(s.nodes)
    BY <1>1, TreeIs
  <2>3. \A x \in 1..Len(s.nodes) : t.above[x] = Ancestors(s, x)
    BY <1>1, TreeIs
  <2>4. t.dead = {x \in 1..Len(s.nodes) : s.nodes[x].dead}
    BY <1>1, TreeIs
  <2>5. t.count \in Nat \ {0}
    BY <1>1 DEF OneTree, TreeTypeOK
  <2> HIDE DEF t
  <2> QED BY <2>1, <2>2, <2>3, <2>4, <2>5
<1>3. t.above[1] = {1} /\ 1 \notin t.dead
  BY <1>1 DEF OneTree, Rooted, RootedBy, RemovedAreEmpty, Top
<1>4. \A n \in 1..t.count : t.above[n] \subseteq 1..t.count
  <2>1. t.above \in [1..t.count -> SUBSET (1..t.count)]
    BY <1>1 DEF OneTree, TreeTypeOK
  <2> QED BY <2>1
<1>5. \A n \in 1..t.count : n \in t.above[n]
  BY <1>1, NoCycle DEF OneTree
<1>6. \A n \in 1..t.count : IsFiniteSet(t.above[n])
  <2>1. t.count \in Int
    BY <1>2
  <2>2. IsFiniteSet(1..t.count)
    BY <2>1, FS_Interval
  <2> HIDE DEF t
  <2> QED BY <1>4, <2>2, FS_Subset
<1> HIDE DEF t
<1> QED
  BY <1>2, <1>3, <1>4, <1>5, <1>6 DEF RootNode

\* A directory that was not removed has its name in its parent.
Titled(s, n) == n = RootNode \/ NamesIn(s, n) # {}
NameOf(s, n) == CHOOSE c \in NamesIn(s, n) : TRUE
LEMMA TitlesAre ==
    ASSUME NEW s, Sound(s), NEW n \in DOMAIN s.nodes
    PROVE  /\ n = RootNode => NamesIn(s, n) = {}
           /\ \A e \in TreeOf(s).entries : e.node = n => n # RootNode /\ NamesIn(s, n) # {}
           /\ IsDir(s, n) /\ ~s.nodes[n].dead => Titled(s, n)
           /\ NamesIn(s, n) # {} =>
                /\ n # RootNode /\ NameOf(s, n) \in GoodNames
                /\ Has(s, s.nodes[n].up, NameOf(s, n))
                /\ Kids(s, s.nodes[n].up)[NameOf(s, n)] = n
<1>1. OneTree(TreeOf(s)) /\ ModelShape(s)
  BY DEF Sound
<1>2. TreeOf(s).up[n] = s.nodes[n].up /\ n \in 1..TreeOf(s).count /\ (IsDir(s, n) => n \in TreeOf(s).dirs)
      /\ (n \in TreeOf(s).dead => s.nodes[n].dead)
  <2>1. TreeOf(s).count = Len(s.nodes) /\ DOMAIN s.nodes = 1..Len(s.nodes)
    BY <1>1, TreeIs
  <2>2. TreeOf(s).up = [x \in 1..Len(s.nodes) |-> s.nodes[x].up]
    BY <1>1, TreeIs
  <2>3. TreeOf(s).dead = {x \in 1..Len(s.nodes) : s.nodes[x].dead}
    BY <1>1, TreeIs
  <2>4. \A x \in 1..Len(s.nodes) : x \in TreeOf(s).dirs <=> IsDir(s, x)
    BY <1>1, TreeIs
  <2> QED BY <2>1, <2>2, <2>3, <2>4
<1>3. n = RootNode => NamesIn(s, n) = {}
  <2>1. TreeOf(s).up[1] = 0
    BY <1>1 DEF OneTree, Rooted, RootedBy, Top
  <2> QED BY <2>1, <1>2 DEF NamesIn, RootNode
<1>4. ASSUME NEW e \in TreeOf(s).entries, e.node = n PROVE n # RootNode /\ NamesIn(s, n) # {}
  <2>1. n # 1 /\ TreeOf(s).up[n] = e.dir
    BY <1>1, <1>4 DEF OneTree, Named, Top
  <2>2. e.dir \in DOMAIN s.nodes /\ e.name \in DOMAIN s.nodes[e.dir].kids
        /\ n = s.nodes[e.dir].kids[e.name]
    BY <1>4, EntryIn
  <2>3. s.nodes[n].up = e.dir /\ e.dir # 0
    BY <1>2, <2>1, <2>2, NodesAre
  <2> QED BY <2>1, <2>2, <2>3 DEF NamesIn, Kids, RootNode
<1>5. IsDir(s, n) /\ ~s.nodes[n].dead => Titled(s, n)
  <2> SUFFICES ASSUME IsDir(s, n), ~s.nodes[n].dead, n # RootNode PROVE NamesIn(s, n) # {}
    BY DEF Titled
  <2>1. n \in TreeOf(s).dirs \ {Top} /\ n \notin TreeOf(s).dead
    BY <1>2 DEF Top, RootNode
  <2>2. \E e \in TreeOf(s).entries : e.node = n
    BY <1>1, <2>1 DEF OneTree, RemovedAreEmpty
  <2> QED BY <2>2, <1>4
<1>6. ASSUME NamesIn(s, n) # {}
      PROVE  /\ n # RootNode /\ NameOf(s, n) \in GoodNames
             /\ Has(s, s.nodes[n].up, NameOf(s, n))
             /\ Kids(s, s.nodes[n].up)[NameOf(s, n)] = n
  <2>1. n # RootNode
    BY <1>3, <1>6
  <2>2. NameOf(s, n) \in NamesIn(s, n)
    BY <1>6 DEF NameOf
  <2>3. /\ NameOf(s, n) \in DOMAIN Kids(s, s.nodes[n].up)
        /\ Kids(s, s.nodes[n].up)[NameOf(s, n)] = n
    BY <1>6, <2>2 DEF NamesIn
  <2>4. DOMAIN Kids(s, s.nodes[n].up) \subseteq GoodNames
    <3>1. s.nodes[n].up \in DOMAIN s.nodes
      BY <2>1, ParentIs
    <3> QED BY <3>1, NodesAre DEF NodePlain, Kids
  <2> QED BY <2>1, <2>3, <2>4 DEF Has
<1>7. \A e \in TreeOf(s).entries : e.node = n => n # RootNode /\ NamesIn(s, n) # {}
  BY <1>4
<1>8. NamesIn(s, n) # {} =>
        /\ n # RootNode /\ NameOf(s, n) \in GoodNames
        /\ Has(s, s.nodes[n].up, NameOf(s, n))
        /\ Kids(s, s.nodes[n].up)[NameOf(s, n)] = n
  BY <1>6
<1> QED
  BY <1>3, <1>5, <1>7, <1>8

\* The directories above what is mounted are the host's: they have their names,
\* and nothing above them was removed or is mounted.
Opens(s, n) ==
    /\ n \in DOMAIN s.nodes /\ s.nodes[n].vup = 0 /\ Titled(s, n) /\ ~IsDetached(s, n)
    /\ \A x \in Ancestors(s, n) : s.nodes[x].vup = 0
LEMMA OuterOpens ==
    ASSUME FsBounds, FsNames, Sound(m), Hosted(m), NEW n \in Outer(m)
    PROVE  Opens(m, n)
<1> DEFINE f == First(m)
           k == Len(f.nodes)
           Alive(x) == ~m.nodes[x].dead /\ m.nodes[x].vup = 0
           Up1(x) == \A y \in Ancestors(m, x) : Alive(y)
           T == {i \in 0..k : \A x \in Outer(m) : x <= i => Up1(x) /\ Titled(m, x)}
<1>1. m.mac \in BOOLEAN /\ ModelShape(m) /\ OneTree(TreeOf(m))
  BY DEF Sound, ModelOK
<1>2. Sound(f) /\ HostTable(f) /\ Sandboxes(f) = Sandboxes(m) /\ Outer(f) = Outer(m)
  BY <1>1, FsBounds, FsNames, FirstTable
<1>3. k \in Nat /\ DOMAIN f.nodes = 1..k /\ DOMAIN m.nodes = 1..Len(m.nodes)
      /\ Len(m.nodes) \in Nat /\ Len(m.nodes) >= k
  BY <1>2, NodesAre DEF Hosted, SameNodes
<1>4. /\ \A x \in Outer(m) : x \in 1..k /\ f.nodes[x].vup = 0
      /\ \A x \in Outer(m) : x # RootNode => f.nodes[x].up \in Outer(m)
  BY <1>2, <1>3 DEF HostTable, AboveMounts
<1>5. \A x \in 1..k : m.nodes[x].vup = f.nodes[x].vup
  BY DEF Hosted, SameNodes, SameNode
<1>6. \A x \in Outer(m) : x \notin Sandboxes(m)
  BY <1>1 DEF Outer, Sandboxes
<1>7. ASSUME NEW x \in Outer(m), x # RootNode
      PROVE  /\ m.nodes[x].up \in Outer(m) /\ m.nodes[x].up < x
             /\ Ancestors(m, x) = {x} \cup Ancestors(m, m.nodes[x].up)
             /\ ~m.nodes[x].dead /\ NamesIn(m, x) # {}
  <2>1. x \in 2..k /\ x \notin Sandboxes(m)
    BY <1>4, <1>6, <1>7, <1>3 DEF RootNode
  <2>2. /\ x \in DOMAIN m.nodes /\ m.nodes[x].up = f.nodes[x].up
        /\ m.nodes[x].up \in 1..(x - 1)
        /\ \A c \in DOMAIN f.nodes[m.nodes[x].up].kids :
             f.nodes[m.nodes[x].up].kids[c] = x =>
               Has(m, m.nodes[x].up, c) /\ Kids(m, m.nodes[x].up)[c] = x
    BY <2>1, FsBounds, FsNames, HostStands
  <2>3. m.nodes[x].up \in Outer(m)
    BY <2>2, <1>4, <1>7
  <2>4. PICK c \in DOMAIN f.nodes[f.nodes[x].up].kids : f.nodes[f.nodes[x].up].kids[c] = x
    BY <2>1, <1>2 DEF HostTable, MadeInTurn
  <2> DEFINE d == m.nodes[x].up
             e == Entry(d, c, x)
  <2>5. e.dir = d /\ e.name = c /\ e.node = x
    BY EntryParts
  <2>6. e = Entry(e.dir, e.name, e.node)
    BY <2>5
  <2>7. Has(m, d, c) /\ Kids(m, d)[c] = x
    BY <2>2, <2>4
  <2>8. d \in DOMAIN m.nodes
    BY <1>3, <1>4, <2>3
  <2> HIDE DEF e, d
  <2>9. e \in TreeOf(m).entries
    BY <2>5, <2>6, <2>7, <2>8, EntryIn DEF Has, Kids
  <2>10. NamesIn(m, x) # {}
    BY <2>2, <2>5, <2>9, TitlesAre
  <2>11. ~m.nodes[x].dead
    <3>1. TreeOf(m).dead = {y \in 1..Len(m.nodes) : m.nodes[y].dead}
      BY <1>1, TreeIs
    <3>2. x # Top
      BY <1>7 DEF Top, RootNode
    <3>3. TreeOf(m).dead \subseteq TreeOf(m).dirs
      BY <1>1 DEF OneTree, TreeTypeOK
    <3>4. x \notin TreeOf(m).dead
      BY <1>1, <2>5, <2>9, <3>2, <3>3 DEF OneTree, RemovedAreEmpty
    <3> QED BY <3>1, <3>4, <2>2, <1>3
  <2>12. Ancestors(m, x) = {x} \cup Ancestors(m, m.nodes[x].up)
    BY <2>2, <1>7, ParentIs
  <2>13. m.nodes[x].up < x
    BY <2>1, <2>2
  <2> QED BY <2>3, <2>10, <2>11, <2>12, <2>13
<1>8. Alive(RootNode) \/ RootNode \notin Outer(m)
  BY <1>3, <1>4, <1>5, TopIs
<1> HIDE DEF f, k, Alive
<1>9. Climbs(k, T)
  <2>1. 0 \in T
    BY <1>3, <1>4
  <2>2. ASSUME NEW i \in 1..k, i - 1 \in T PROVE i \in T
    <3> SUFFICES ASSUME NEW x \in Outer(m), x <= i PROVE Up1(x) /\ Titled(m, x)
      BY <1>3
    <3>0. x \in 1..k /\ (Alive(x) \/ x # RootNode)
      BY <1>4, <1>8
    <3>1. CASE x = RootNode
      BY <3>1, <3>0, TopIs DEF Titled
    <3>2. CASE x # RootNode
      <4>1. m.nodes[x].up \in Outer(m) /\ m.nodes[x].up <= i - 1
        <5>1. m.nodes[x].up \in Outer(m) /\ m.nodes[x].up < x
          BY <3>2, <1>7
        <5>2. m.nodes[x].up \in Nat /\ x \in Nat /\ i \in Nat
          BY <5>1, <1>3, <1>4
        <5> QED BY <5>1, <5>2
      <4>2. Up1(m.nodes[x].up)
        BY <4>1, <2>2
      <4>3. Alive(x)
        BY <3>2, <1>7, <1>4, <1>5 DEF Alive
      <4>4. Ancestors(m, x) = {x} \cup Ancestors(m, m.nodes[x].up) /\ NamesIn(m, x) # {}
        BY <3>2, <1>7
      <4> QED BY <4>2, <4>3, <4>4 DEF Titled
    <3> QED BY <3>1, <3>2
  <2> QED BY <2>1, <2>2, <1>3 DEF Climbs
<1>10. k \in T
  <2>1. k \in 0..k
    BY <1>3
  <2> HIDE DEF T
  <2> QED BY <1>9, <2>1, UpToInduction
<1>11. Up1(n) /\ Titled(m, n) /\ n \in 1..k
  BY <1>10, <1>4, <1>3
<1>12. n \in DOMAIN m.nodes /\ m.nodes[n].vup = 0
  BY <1>3, <1>4, <1>5, <1>11
<1> QED
  BY <1>11, <1>12 DEF Opens, IsDetached, Alive

\* What is mounted is where it was first: on a directory "tmp" of the host.
LEMMA MountStands ==
    ASSUME FsBounds, FsNames, Sound(m), Hosted(m), NEW n \in DOMAIN m.nodes, m.nodes[n].vup # 0
    PROVE  LET d == m.nodes[n].vup IN
           /\ d \in Outer(m) /\ d \in DOMAIN m.nodes /\ IsDir(m, d) /\ Clear(m, d)
           /\ Has(m, d, "tmp") /\ m.nodes[Kids(m, d)["tmp"]].over = n
           /\ Kids(m, d)["tmp"] \in DOMAIN m.nodes
<1> DEFINE f == First(m)
           k == Len(f.nodes)
           d == m.nodes[n].vup
           h == f.nodes[d].kids["tmp"]
<1>1. m.mac \in BOOLEAN
  BY DEF Sound, ModelOK
<1>2. Sound(f) /\ HostTable(f) /\ Sandboxes(f) = Sandboxes(m) /\ Outer(f) = Outer(m)
  BY <1>1, FsBounds, FsNames, FirstTable
<1>3. k \in Nat /\ DOMAIN f.nodes = 1..k /\ DOMAIN m.nodes = 1..Len(m.nodes)
      /\ Len(m.nodes) \in Nat /\ Len(m.nodes) >= k
  BY <1>2, NodesAre DEF Hosted, SameNodes
<1>4. SameNodes(f, m)
  BY DEF Hosted
<1>5. n \in 1..k
  BY <1>3, <1>4 DEF SameNodes
<1>6. f.nodes[n].vup = d
  BY <1>4, <1>5 DEF SameNodes, SameNode
<1>7. "tmp" \in DOMAIN f.nodes[d].kids /\ f.nodes[h].over = n /\ d \in Outer(m)
  BY <1>2, <1>3, <1>5, <1>6 DEF HostTable, MountedAtTmp
<1>8. d \in 1..k /\ h \in 1..k
  <2>1. d \in 1..k
    BY <1>2, <1>3, <1>7 DEF HostTable, AboveMounts
  <2> QED BY <2>1, <1>2, <1>3, <1>7, NodesAre
<1>9. h \notin Sandboxes(m) /\ n # 0
  <2>1. n # 0
    BY <1>5
  <2> QED BY <2>1, <1>2, <1>7 DEF HostTable
<1> HIDE DEF f, k, h, d
<1>10. h # RootNode /\ f.nodes[h].up = d
  <2> DEFINE e == Entry(d, "tmp", h)
  <2>1. e.dir = d /\ e.name = "tmp" /\ e.node = h
    BY EntryParts
  <2>2. e = Entry(e.dir, e.name, e.node)
    BY <2>1
  <2>0. h = f.nodes[d].kids["tmp"]
    BY DEF h
  <2> HIDE DEF e
  <2>3. e \in TreeOf(f).entries
    BY <1>3, <1>7, <1>8, <2>0, <2>1, <2>2, EntryIn
  <2>4. OneTree(TreeOf(f)) /\ ModelShape(f)
    BY <1>2 DEF Sound
  <2>5. h # Top /\ TreeOf(f).up[h] = d
    BY <2>1, <2>3, <2>4 DEF OneTree, Named
  <2>6. TreeOf(f).up = [x \in 1..k |-> f.nodes[x].up]
    BY <2>4, TreeIs DEF k
  <2> QED BY <2>5, <2>6, <1>8 DEF Top, RootNode
<1>11. h \in 2..k
  BY <1>3, <1>8, <1>10 DEF RootNode
<1>12. /\ h \in DOMAIN m.nodes /\ m.nodes[h].up = d
       /\ Has(m, d, "tmp") /\ Kids(m, d)["tmp"] = h
  <2>1. h \in 2..Len(First(m).nodes)
    BY <1>11 DEF k, f
  <2>2. /\ h \in DOMAIN m.nodes /\ m.nodes[h].up = First(m).nodes[h].up
        /\ \A c \in DOMAIN First(m).nodes[m.nodes[h].up].kids :
             First(m).nodes[m.nodes[h].up].kids[c] = h =>
               Has(m, m.nodes[h].up, c) /\ Kids(m, m.nodes[h].up)[c] = h
    BY <2>1, <1>9, FsBounds, FsNames, HostStands
  <2>3. h = f.nodes[d].kids["tmp"]
    BY DEF h
  <2> QED BY <2>2, <2>3, <1>7, <1>10 DEF f
<1>13. m.nodes[h].over = n
  BY <1>4, <1>7, <1>8 DEF SameNodes, SameNode, k
<1>14. d # 0 /\ d \in DOMAIN m.nodes
  BY <1>3, <1>8
<1>15. IsDir(m, d) /\ Clear(m, d)
  <2>1. NodePlain(m, m.nodes[n])
    BY NodesAre
  <2> QED BY <1>14, <2>1 DEF NodePlain, Seat, d
<1> QED
  BY <1>7, <1>12, <1>13, <1>14, <1>15 DEF d

-----------------------------------------------------------------------------
(* FsModel: the name of a node                                             *)

\* One step of FullPath, and its recursion.
PathStep(s, view, n, path) ==
    IF view = "virtual" /\ s.nodes[n].vup # 0 THEN Append(path[Up(s, view, n)], "tmp")
    ELSE IF NamesIn(s, n) = {} THEN <<>>
    ELSE Append(path[s.nodes[n].up], CHOOSE c \in NamesIn(s, n) : TRUE)
Namer(s, view) == CHOOSE f : f = [n \in DOMAIN s.nodes |-> PathStep(s, view, n, f)]

\* Where the process's view has the name of a node, and which name it has there.
HolderOf(s, n) == IF s.nodes[n].vup # 0 THEN s.nodes[n].vup ELSE s.nodes[n].up
TitleOf(s, n) == IF s.nodes[n].vup # 0 THEN "tmp" ELSE NameOf(s, n)
Apart(s, n) == s.nodes[n].vup = 0 /\ NamesIn(s, n) = {}
PathOn(s, n, path) ==
    IF Apart(s, n) THEN <<>> ELSE Append(path[HolderOf(s, n)], TitleOf(s, n))

\* The order of names: outside of what is mounted first, then upwards.
Within1(s, n) == \E x \in Ancestors(s, n) : s.nodes[x].vup # 0
UnderOf(s) == [n \in DOMAIN s.nodes |-> IF Within1(s, n) THEN 1 ELSE 0]
HeightOf(s) == [n \in DOMAIN s.nodes |-> Cardinality(Ancestors(s, n))]

LEMMA RanksAre ==
    ASSUME NEW s, Sound(s)
    PROVE  UnderOf(s) \in [DOMAIN s.nodes -> Nat] /\ HeightOf(s) \in [DOMAIN s.nodes -> Nat]
<1>1. \A n \in DOMAIN s.nodes : Cardinality(Ancestors(s, n)) \in Nat
  BY TopIs, FS_CardinalityType
<1> QED
  BY <1>1 DEF UnderOf, HeightOf

LEMMA HoldersAre ==
    ASSUME FsBounds, FsNames, Sound(m), Hosted(m), NEW n \in DOMAIN m.nodes, ~Apart(m, n)
    PROVE  /\ HolderOf(m, n) \in DOMAIN m.nodes /\ TitleOf(m, n) \in GoodNames
           /\ IsDir(m, HolderOf(m, n)) /\ Clear(m, HolderOf(m, n))
           /\ Lower(UnderOf(m), HeightOf(m), HolderOf(m, n), n)
<1> DEFINE q == HolderOf(m, n)
           c == TitleOf(m, n)
           a == UnderOf(m)
           b == HeightOf(m)
<1>1. CASE m.nodes[n].vup # 0
  <2>1. q = m.nodes[n].vup /\ c = "tmp"
    BY <1>1 DEF HolderOf, TitleOf
  <2>2. q \in Outer(m) /\ q \in DOMAIN m.nodes /\ IsDir(m, q) /\ Clear(m, q)
    BY <1>1, <2>1, FsBounds, FsNames, MountStands
  <2>3. c \in GoodNames
    BY <2>1, FsNames DEF FsNames, GoodNames
  <2> HIDE DEF q, c
  <2>4. a[q] = 0
    <3>1. ~Within1(m, q)
      BY <2>2, FsBounds, FsNames, OuterOpens DEF Opens, Within1
    <3> QED BY <3>1, <2>2 DEF UnderOf
  <2>5. a[n] = 1
    <3>1. Within1(m, n)
      BY <1>1, TopIs DEF Within1
    <3> QED BY <3>1 DEF UnderOf
  <2> HIDE DEF a, b
  <2>6. Lower(a, b, q, n)
    BY <2>4, <2>5 DEF Lower
  <2> QED BY <2>2, <2>3, <2>6 DEF q, c, a, b
<1>2. CASE m.nodes[n].vup = 0
  <2>1. q = m.nodes[n].up /\ c = NameOf(m, n) /\ NamesIn(m, n) # {}
    BY <1>2 DEF HolderOf, TitleOf, Apart
  <2>2. n # RootNode /\ c \in GoodNames
    BY <2>1, TitlesAre
  <2>3. /\ q \in DOMAIN m.nodes /\ IsDir(m, q) /\ Clear(m, q)
        /\ Ancestors(m, n) = {n} \cup Ancestors(m, q) /\ n \notin Ancestors(m, q)
    BY <2>1, <2>2, ParentIs
  <2> HIDE DEF q, c
  <2>4. a[q] < a[n] \/ a[q] = a[n]
    <3>1. Within1(m, q) => Within1(m, n)
      BY <2>3 DEF Within1
    <3> QED BY <3>1, <2>3 DEF UnderOf
  <2>5. b[q] < b[n]
    <3>1. IsFiniteSet(Ancestors(m, q))
      BY <2>3, TopIs
    <3> DEFINE S == Ancestors(m, q)
    <3>2. Ancestors(m, n) = S \cup {n} /\ n \notin S /\ IsFiniteSet(S)
      BY <3>1, <2>3
    <3>3. b[q] = Cardinality(S) /\ b[n] = Cardinality(Ancestors(m, n))
      BY <2>3 DEF HeightOf
    <3> HIDE DEF S, b
    <3>4. Cardinality(S \cup {n}) = Cardinality(S) + 1 /\ Cardinality(S) \in Nat
      BY <3>2, FS_AddElement, FS_CardinalityType
    <3> QED BY <3>2, <3>3, <3>4
  <2> HIDE DEF a, b
  <2>6. Lower(a, b, q, n)
    BY <2>4, <2>5 DEF Lower
  <2> QED BY <2>2, <2>3, <2>6 DEF q, c, a, b
<1> QED
  BY <1>1, <1>2

\* So the recursion of FullPath is defined: a name goes from the root, or a
\* removed node, downwards.
LEMMA NamerIs ==
    ASSUME FsBounds, FsNames, Sound(m), Hosted(m)
    PROVE  /\ Namer(m, "virtual") \in [DOMAIN m.nodes -> Seq(GoodNames)]
           /\ \A n \in DOMAIN m.nodes :
                Namer(m, "virtual")[n] = PathOn(m, n, Namer(m, "virtual"))
           /\ \A end : FullPath(m, "virtual", end) = Namer(m, "virtual")[end]
<1> DEFINE D == DOMAIN m.nodes
           V == Seq(GoodNames)
           W == [x \in D |-> V]
           F == {f \in [D -> V] : \A x \in D : f[x] \in W[x]}
           G == [x \in D |-> [f \in F |-> PathOn(m, x, f)]]
           a == UnderOf(m)
           b == HeightOf(m)
           P(f) == f = [x \in D |-> PathStep(m, "virtual", x, f)]
           R == Namer(m, "virtual")
<1>1. \A x \in D : \A f : PathStep(m, "virtual", x, f) = PathOn(m, x, f)
  BY DEF PathStep, PathOn, Apart, HolderOf, TitleOf, NameOf, Up
<1>2. a \in [D -> Nat] /\ b \in [D -> Nat]
  BY RanksAre
<1>3. \A x \in D, f \in F : PathOn(m, x, f) \in V
  <2> TAKE x \in D, f \in F
  <2>1. CASE Apart(m, x)
    BY <2>1 DEF PathOn
  <2>2. CASE ~Apart(m, x)
    <3>1. HolderOf(m, x) \in D /\ TitleOf(m, x) \in GoodNames
      BY <2>2, FsBounds, FsNames, HoldersAre
    <3>2. f[HolderOf(m, x)] \in V
      <4> HIDE DEF D, V
      <4> QED BY <3>1
    <3>3. \A cs \in V, c \in GoodNames : Append(cs, c) \in V
      OBVIOUS
    <3> HIDE DEF V, D, F
    <3> QED BY <2>2, <3>1, <3>2, <3>3 DEF PathOn
  <2> QED BY <2>1, <2>2
<1>4. \A x \in D, f, g \in F :
        (\A y \in D : Lower(a, b, y, x) => f[y] = g[y]) => G[x][f] = G[x][g]
  <2> TAKE x \in D, f \in F, g \in F
  <2> HAVE \A y \in D : Lower(a, b, y, x) => f[y] = g[y]
  <2>1. ~Apart(m, x) => HolderOf(m, x) \in D /\ Lower(a, b, HolderOf(m, x), x)
    BY FsBounds, FsNames, HoldersAre
  <2>2. G[x][f] = PathOn(m, x, f) /\ G[x][g] = PathOn(m, x, g)
    OBVIOUS
  <2> HIDE DEF F, a, b, D, G
  <2> QED BY <2>1, <2>2 DEF PathOn
<1>5. Recurses(D, a, b, V, W, F, G)
  <2>0. V # {}
    <3>1. <<>> \in V
      OBVIOUS
    <3> QED BY <3>1
  <2>1. W \in [D -> SUBSET V] /\ \A x \in D : W[x] # {}
    <3> HIDE DEF V, D
    <3> QED BY <2>0
  <2>3. G \in [D -> [F -> V]] /\ \A x \in D, f \in F : G[x][f] \in W[x]
    <3> HIDE DEF F, D, V
    <3> QED BY <1>3
  <2> HIDE DEF D, V, W, G, a, b
  <2> QED BY <1>2, <1>4, <2>1, <2>3 DEF Recurses
<1>6. PICK f \in F : \A x \in D : f[x] = G[x][f]
  <2> HIDE DEF D, V, W, F, G, a, b
  <2> QED BY <1>5, RecursionExists
<1>7. f \in [D -> V] /\ \A x \in D : f[x] = PathOn(m, x, f)
  <2>1. f \in [D -> V]
    OBVIOUS
  <2>2. \A x \in D : G[x][f] = PathOn(m, x, f)
    OBVIOUS
  <2> HIDE DEF D, V, F, G
  <2> QED BY <1>6, <2>1, <2>2
<1>8. P(f)
  <2>1. \A x \in D : f[x] = PathStep(m, "virtual", x, f)
    BY <1>1, <1>7
  <2> HIDE DEF D, V
  <2> QED BY <1>7, <2>1
<1>9. P(R)
  <2>1. R = CHOOSE g : P(g)
    BY DEF Namer
  <2> HIDE DEF P, R
  <2> QED BY <1>8, <2>1, Zenon
<1>10. \A end : FullPath(m, "virtual", end) = R[end]
  BY DEF FullPath, Namer, PathStep
<1> HIDE DEF R, F, G, W
<1>11. \A x \in D : R[x] = PathOn(m, x, R)
  <2>1. \A x \in D : R[x] = PathStep(m, "virtual", x, R)
    BY <1>9
  <2> QED BY <2>1, <1>1
<1>12. DOMAIN R = D /\ R = [x \in D |-> R[x]]
  <2>1. \A g : g = [x \in D |-> PathStep(m, "virtual", x, R)] => DOMAIN g = D /\ g = [x \in D |-> g[x]]
    OBVIOUS
  <2> HIDE DEF D
  <2> QED BY <1>9, <2>1
<1>13. R \in [D -> V]
  <2> DEFINE T == {x \in D : R[x] \in V}
  <2>1. ASSUME NEW x \in D, \A y \in D : Lower(a, b, y, x) => y \in T PROVE x \in T
    <3>1. CASE Apart(m, x)
      <4>1. R[x] = <<>>
        BY <3>1, <1>11 DEF PathOn
      <4>2. <<>> \in V
        OBVIOUS
      <4> HIDE DEF V, D
      <4> QED BY <4>1, <4>2
    <3>2. CASE ~Apart(m, x)
      <4>1. HolderOf(m, x) \in D /\ TitleOf(m, x) \in GoodNames /\ Lower(a, b, HolderOf(m, x), x)
        BY <3>2, FsBounds, FsNames, HoldersAre
      <4>2. HolderOf(m, x) \in T
        <5> HIDE DEF T, a, b, D
        <5> QED BY <4>1, <2>1
      <4>3. \A cs \in V, c \in GoodNames : Append(cs, c) \in V
        OBVIOUS
      <4>4. R[x] = Append(R[HolderOf(m, x)], TitleOf(m, x))
        BY <3>2, <1>11 DEF PathOn
      <4> HIDE DEF V, D
      <4> QED BY <4>1, <4>2, <4>3, <4>4
    <3> QED BY <3>1, <3>2
  <2>2. D \subseteq T
    <3> HIDE DEF T, a, b, D
    <3>1. Hereditary(D, a, b, T)
      BY <2>1, <1>2 DEF Hereditary
    <3> QED BY <3>1, RankInduction
  <2> HIDE DEF V, D
  <2> QED BY <2>2, <1>12
<1> QED
  BY <1>10, <1>11, <1>13 DEF R

-----------------------------------------------------------------------------
(* FsDriver: names lead back                                               *)

\* A node that calls can come to: a directory, or one that has a name.
Held(n) == IsDir(m, n) \/ \E e \in TreeOf(m).entries : e.node = n

\* What walks find is held.
LEMMA WalkIsHeld ==
    ASSUME FsNames, Sound(m), NEW x \in Walks(m), Held(x.cur), Walker(m, "virtual")[x].err = "ok"
    PROVE  Held(Walker(m, "virtual")[x].node)
<1> DEFINE on == Walker(m, "virtual")
           T == {y \in Walks(m) : Held(y.cur) /\ on[y].err = "ok" => Held(on[y].node)}
<1>0. \A n \in DOMAIN m.nodes : Held(n) => Held(Enter(m, "virtual", n))
  <2> TAKE n \in DOMAIN m.nodes
  <2>1. CASE m.nodes[n].over = 0
    BY <2>1 DEF Enter
  <2>2. CASE m.nodes[n].over # 0
    <3>1. NodePlain(m, m.nodes[n])
      BY NodesAre
    <3>2. Seat(m, m.nodes[n].over) /\ Enter(m, "virtual", n) = m.nodes[n].over
      BY <2>2, <3>1 DEF NodePlain, Enter
    <3> QED BY <3>2 DEF Seat, Held
  <2> QED BY <2>1, <2>2
<1>1. ASSUME NEW y \in Walks(m), \A z \in Walks(m) : Sooner(z, y) => z \in T,
             Held(y.cur), on[y].err = "ok"
      PROVE  Held(on[y].node)
  <2>0. y.cur \in DOMAIN m.nodes /\ y.links \in Nat /\ y.links >= y.links
    BY WalkParts
  <2>1. CASE y.cs = <<>>
    <3>1. on[y] = Found(y.cur, y.links)
      BY <2>1, WalkerSteps
    <3> QED BY <3>1, <1>1, FoundIs
  <2>2. ASSUME y.cs # <<>>, NEW n \in DOMAIN m.nodes, NEW links \in Nat, links >= y.links,
               Held(n), on[y] = on[Onward(m, "virtual", y, n, links)]
        PROVE  Held(on[y].node)
    <3> DEFINE z == Onward(m, "virtual", y, n, links)
    <3>1. z \in Walks(m) /\ Sooner(z, y) /\ z.cur = Enter(m, "virtual", n)
      BY <2>2, OnwardIs
    <3>2. Held(z.cur)
      BY <1>0, <2>2, <3>1
    <3> HIDE DEF z, on
    <3> QED BY <3>1, <3>2, <1>1, <2>2 DEF z
  <2>3. CASE y.cs # <<>> /\ Head(y.cs) = ".."
    <3>1. on[y] = on[Onward(m, "virtual", y, Up(m, "virtual", y.cur), y.links)]
      BY <2>3, WalkerSteps
    <3>2. Up(m, "virtual", y.cur) \in DOMAIN m.nodes /\ IsDir(m, Up(m, "virtual", y.cur))
      BY <2>0, TurnsAre, TurnsToDirs
    <3>3. Held(Up(m, "virtual", y.cur))
      BY <3>2 DEF Held
    <3> HIDE DEF on
    <3> QED BY <2>0, <3>1, <3>2, <3>3, <2>2, <2>3
  <2>4. CASE Named1(m, y)
    <3> DEFINE r == NextNode(m, "virtual", y, on)
               n == FirstKid(m, y)
               link == m.nodes[n].link
               z == Through(m, "virtual", y, link)
    <3>1. /\ r \in Within(m, y) /\ (r.err # "ok" => on[y] = r)
          /\ r.err = "ok" /\ ~Suits(m, y, r.node) => on[y] = Lost("ENOTDIR", r.links)
          /\ r.err = "ok" /\ Suits(m, y, r.node) =>
               on[y] = on[Onward(m, "virtual", y, r.node, r.links)]
      BY <2>4, WalkerSteps
    <3>4. /\ n \in DOMAIN m.nodes
          /\ ~Follows(m, y, n) => r = Found(n, y.links)
          /\ Follows(m, y, n) /\ (y.links + 1 > MaxLinks \/ IsEmptyPath(link)) =>
               r = Lost(IF y.links + 1 > MaxLinks THEN "ELOOP" ELSE "ENOENT", y.links + 1)
          /\ Follows(m, y, n) /\ ~(y.links + 1 > MaxLinks \/ IsEmptyPath(link)) =>
               /\ r = on[z] /\ z \in Walks(m) /\ Sooner(z, y)
      BY <2>4, NextSteps
    <3>5. Held(n)
      <4> DEFINE e == Entry(y.cur, Head(y.cs), n)
      <4>1. e.dir = y.cur /\ e.name = Head(y.cs) /\ e.node = n
        BY EntryParts
      <4>2. e = Entry(e.dir, e.name, e.node)
        BY <4>1
      <4> HIDE DEF e
      <4>3. Has(m, y.cur, Head(y.cs)) /\ n = Kids(m, y.cur)[Head(y.cs)]
        BY <2>4 DEF Named1, FirstKid
      <4>4. e \in TreeOf(m).entries
        BY <2>0, <4>1, <4>2, <4>3, EntryIn DEF Has, Kids
      <4> QED BY <4>1, <4>4 DEF Held
    <3>6. Held(z.cur)
      <4>1. z.cur = Origin(m, "virtual", y.cur, link)
        BY DEF Through, WalkOf
      <4>2. IsDir(m, y.cur)
        BY <2>4 DEF Named1
      <4>3. IsDir(m, Origin(m, "virtual", y.cur, link))
        BY <2>0, <4>2, TurnsToDirs
      <4> HIDE DEF z
      <4> QED BY <4>1, <4>3 DEF Held
    <3> HIDE DEF on, r, n, z, link
    <3>2. r.err = "ok" /\ on[y] = on[Onward(m, "virtual", y, r.node, r.links)]
      BY <3>1, <1>1, FoundIs
    <3>3. r.node \in DOMAIN m.nodes /\ r.links \in Nat /\ r.links >= y.links
      BY <3>1, <3>2 DEF Within, Outcomes
    <3>7. Held(r.node)
      <4>1. CASE ~Follows(m, y, n)
        BY <4>1, <3>4, <3>5, FoundIs
      <4>2. CASE Follows(m, y, n) /\ (y.links + 1 > MaxLinks \/ IsEmptyPath(link))
        <5>1. r.err # "ok"
          BY <4>2, <3>4, FoundIs
        <5> QED BY <5>1, <3>2
      <4>3. CASE Follows(m, y, n) /\ ~(y.links + 1 > MaxLinks \/ IsEmptyPath(link))
        <5>1. r = on[z] /\ z \in T
          BY <4>3, <3>4, <1>1
        <5> QED BY <5>1, <3>2, <3>6
      <4> QED BY <4>1, <4>2, <4>3
    <3> QED BY <3>2, <3>3, <3>7, <2>2, <2>4 DEF Named1
  <2>5. CASE y.cs # <<>> /\ Head(y.cs) # ".." /\ ~Named1(m, y)
    <3>1. \E e \in Errnos \ {"ok"} : on[y] = Lost(e, y.links)
      BY <2>5, WalkerSteps
    <3> QED BY <3>1, <1>1, FoundIs
  <2> QED BY <2>1, <2>3, <2>4, <2>5 DEF Named1
<1> HIDE DEF on
<1>2. Inherits(m, T)
  BY <1>1 DEF Inherits
<1>3. Walks(m) \subseteq T
  <2> HIDE DEF T
  <2> QED BY <1>2, WalkInduction
<1> QED
  BY <1>3 DEF on

\* A path of names leads to a node, and to a directory with all its links and a
\* slash at its end.
NamePath(cs, last, slash) == WalkOf(RootNode, cs, last, slash, 0)
LeadsTo(cs, n) ==
    /\ Walker(m, "virtual")[NamePath(cs, FALSE, FALSE)] = Found(n, 0)
    /\ IsDir(m, n) => Walker(m, "virtual")[NamePath(cs, TRUE, TRUE)] = Found(n, 0)

\* The name c of directory d is that of node n, or n is mounted there.
NamedThere(d, c, n) ==
    /\ d \in DOMAIN m.nodes /\ IsDir(m, d) /\ c \in GoodNames /\ Has(m, d, c)
    /\ Enter(m, "virtual", Kids(m, d)[c]) = n
    /\ n = Kids(m, d)[c] \/ IsDir(m, Kids(m, d)[c])
\* One name of a directory.
LEMMA LastLeads ==
    ASSUME FsNames, Sound(m), NEW d, NEW c, NEW n, NamedThere(d, c, n),
           NEW last \in BOOLEAN, NEW slash \in BOOLEAN, (last \/ slash) => IsDir(m, n)
    PROVE  Walker(m, "virtual")[WalkOf(d, <<c>>, last, slash, 0)] = Found(n, 0)
<1> DEFINE x == WalkOf(d, <<c>>, last, slash, 0)
           on == Walker(m, "virtual")
           h == Kids(m, d)[c]
           none == 0
<1>1. d \in DOMAIN m.nodes /\ IsDir(m, d) /\ c \in Component \ {".."} /\ c \notin LongNames
      /\ Has(m, d, c)
  BY DEF NamedThere, GoodNames
<1>2. /\ x.cur = d /\ x.cs = <<c>> /\ x.last = last /\ x.slash = slash /\ x.links = none
  BY WalkOfIs
<1>3. /\ <<c>> # <<>> /\ Head(<<c>>) = c /\ Tail(<<c>>) = <<>> /\ <<c>> \in Seq(Component)
  BY <1>1
<1>4. none \in Nat
  OBVIOUS
<1>5. x \in Walks(m)
  BY <1>1, <1>3 DEF WalkOf, Walks
<1> HIDE DEF x, none
<1>6. Named1(m, x) /\ FirstKid(m, x) = h /\ x.cs # <<>>
  BY <1>1, <1>2, <1>3 DEF Named1, FirstKid
<1>7. h \in DOMAIN m.nodes
  BY <1>1, NodesAre DEF Has, Kids
<1>8. ~Follows(m, x, h) /\ Suits(m, x, h)
  <2>1. ~(last \/ slash) \/ IsDir(m, h)
    BY <1>7, TurnsToDirs DEF NamedThere
  <2>2. IsDir(m, h) => m.nodes[h].kind # "link"
    BY <1>7 DEF IsDir, IsDirKind, Kind
  <2> QED BY <1>2, <1>3, <2>1, <2>2 DEF Follows, Suits
<1>9. NextNode(m, "virtual", x, on) = Found(h, none)
  BY <1>2, <1>5, <1>6, <1>8, NextSteps
<1>10. on[x] = on[Onward(m, "virtual", x, h, none)]
  <2> DEFINE r == NextNode(m, "virtual", x, on)
  <2>1. r.err = "ok" /\ r.node = h /\ r.links = none
    BY <1>9, FoundIs
  <2>2. r.err = "ok" /\ Suits(m, x, r.node) => on[x] = on[Onward(m, "virtual", x, r.node, r.links)]
    BY <1>5, <1>6, WalkerSteps
  <2> HIDE DEF r, on
  <2> QED BY <2>1, <2>2, <1>8
<1> DEFINE z == Onward(m, "virtual", x, h, none)
<1>11. z \in Walks(m) /\ z.cur = n /\ z.cs = <<>> /\ z.links = none
  <2>1. none >= x.links
    BY <1>2, <1>4
  <2>2. /\ z \in Walks(m) /\ z.links = none
        /\ z.cur = Enter(m, "virtual", h) /\ z.cs = Tail(x.cs)
    BY <2>1, <1>4, <1>5, <1>6, <1>7, OnwardIs
  <2> HIDE DEF z
  <2> QED BY <2>2, <1>2, <1>3 DEF NamedThere
<1> HIDE DEF z
<1>12. on[z] = Found(n, none)
  BY <1>11, WalkerSteps
<1> QED
  BY <1>10, <1>12 DEF z, x, none

\* One name more.
LEMMA OneMoreLeads ==
    ASSUME FsNames, Sound(m), NEW cs \in Seq(GoodNames), NEW d, NEW c, NEW n,
           LeadsTo(cs, d), NamedThere(d, c, n)
    PROVE  LeadsTo(Append(cs, c), n)
<1> DEFINE x == NamePath(cs, TRUE, TRUE)
           on == Walker(m, "virtual")
<1>1. cs \in Seq(Component) /\ c \in Component
  BY DEF GoodNames, NamedThere
<1>2. RootNode \in DOMAIN m.nodes
  BY NodesAre
<1>3. x \in Walks(m) /\ x.last /\ x.slash /\ x.cur = RootNode /\ x.cs = cs /\ x.links = 0
  BY <1>1, <1>2 DEF NamePath, WalkOf, Walks
<1>4. on[x] = Found(d, 0)
  BY DEF LeadsTo, NamedThere
<1> HIDE DEF x, on
<1>5. ASSUME NEW last \in BOOLEAN, NEW slash \in BOOLEAN, (last \/ slash) => IsDir(m, n)
      PROVE  on[NamePath(Append(cs, c), last, slash)] = Found(n, 0)
  <2>1. Further(x, c, last, slash) = NamePath(Append(cs, c), last, slash)
    BY <1>3 DEF Further, NamePath
  <2>2. on[Further(x, c, last, slash)] = Goes(m, on, on[x], c, last, slash)
    BY <1>1, <1>3, FurtherIs DEF on
  <2>3. Goes(m, on, on[x], c, last, slash) = on[WalkOf(d, <<c>>, last, slash, 0)]
    BY <1>4, FoundIs DEF Goes
  <2>4. on[WalkOf(d, <<c>>, last, slash, 0)] = Found(n, 0)
    BY <1>5, LastLeads DEF on
  <2> QED BY <2>1, <2>2, <2>3, <2>4
<1>6. on[NamePath(Append(cs, c), FALSE, FALSE)] = Found(n, 0)
  BY <1>5
<1>7. IsDir(m, n) => on[NamePath(Append(cs, c), TRUE, TRUE)] = Found(n, 0)
  BY <1>5
<1> QED
  BY <1>6, <1>7 DEF LeadsTo, on

\* A node that has its place: it was not removed, and neither was anything
\* above it.
Placed(n) == Clear(m, n) /\ ~IsDetached(m, n) /\ Titled(m, n)
\* So has what its name is in, and it is named there.
LEMMA HolderIsPlaced ==
    ASSUME FsBounds, FsNames, Sound(m), Hosted(m), NEW n, Placed(n), ~Apart(m, n)
    PROVE  Placed(HolderOf(m, n)) /\ NamedThere(HolderOf(m, n), TitleOf(m, n), n)
<1> DEFINE q == HolderOf(m, n)
           c == TitleOf(m, n)
<1>1. n \in DOMAIN m.nodes /\ m.nodes[n].over = 0
  BY DEF Placed, Clear
<1>2. q \in DOMAIN m.nodes /\ c \in GoodNames /\ IsDir(m, q) /\ Clear(m, q)
  BY <1>1, FsBounds, FsNames, HoldersAre
<1>3. CASE m.nodes[n].vup # 0
  <2>1. q = m.nodes[n].vup /\ c = "tmp"
    BY <1>3 DEF HolderOf, TitleOf
  <2>2. /\ q \in Outer(m) /\ Has(m, q, "tmp") /\ m.nodes[Kids(m, q)["tmp"]].over = n
        /\ Kids(m, q)["tmp"] \in DOMAIN m.nodes
    BY <1>1, <1>3, <2>1, FsBounds, FsNames, MountStands
  <2> HIDE DEF q, c
  <2>3. Placed(q)
    BY <1>2, <2>2, FsBounds, FsNames, OuterOpens DEF Opens, Placed
  <2> DEFINE h == Kids(m, q)[c]
  <2>4. h \in DOMAIN m.nodes /\ m.nodes[h].over = n /\ n # 0 /\ Has(m, q, c)
    <3>1. n # 0
      BY <1>1, NodesAre
    <3> QED BY <2>1, <2>2, <3>1
  <2> HIDE DEF h
  <2>5. Enter(m, "virtual", h) = n
    BY <2>4 DEF Enter
  <2>6. IsDir(m, h)
    <3>1. NodePlain(m, m.nodes[h])
      BY <2>4, NodesAre
    <3> QED BY <2>4, <3>1 DEF NodePlain, IsDir, Kind
  <2>7. NamedThere(q, c, n)
    BY <1>2, <2>4, <2>5, <2>6 DEF NamedThere, h
  <2> QED BY <2>3, <2>7 DEF q, c
<1>4. CASE m.nodes[n].vup = 0
  <2>1. q = m.nodes[n].up /\ c = NameOf(m, n) /\ NamesIn(m, n) # {}
    BY <1>4 DEF HolderOf, TitleOf, Apart
  <2>2. n # RootNode /\ Has(m, q, c) /\ Kids(m, q)[c] = n
    BY <1>1, <2>1, TitlesAre
  <2>3. Ancestors(m, n) = {n} \cup Ancestors(m, q)
    BY <1>1, <2>1, <2>2, ParentIs
  <2> HIDE DEF q, c
  <2>4. ~IsDetached(m, q)
    BY <2>3 DEF Placed, IsDetached
  <2>5. Titled(m, q)
    <3>1. q \in Ancestors(m, q)
      BY <1>2, TopIs
    <3>2. ~m.nodes[q].dead
      BY <2>4, <3>1 DEF IsDetached
    <3> QED BY <1>2, <3>2, TitlesAre
  <2>6. Enter(m, "virtual", n) = n
    BY <1>1 DEF Enter
  <2>7. NamedThere(q, c, n)
    BY <1>2, <2>2, <2>6 DEF NamedThere
  <2> QED BY <1>2, <2>4, <2>5, <2>7 DEF Placed, q, c
<1> QED
  BY <1>3, <1>4

\* The name of a node that has its place leads to it, whatever was renamed and
\* mounted above it.
LEMMA NameLeads ==
    ASSUME FsBounds, FsNames, Sound(m), Hosted(m), NEW n, Placed(n)
    PROVE  /\ FullPath(m, "virtual", n) \in Seq(GoodNames)
           /\ LeadsTo(FullPath(m, "virtual", n), n)
<1> DEFINE D == DOMAIN m.nodes
           R == Namer(m, "virtual")
           a == UnderOf(m)
           b == HeightOf(m)
           T == {x \in D : Placed(x) => LeadsTo(R[x], x)}
<1>1. /\ R \in [D -> Seq(GoodNames)] /\ \A x \in D : R[x] = PathOn(m, x, R)
      /\ FullPath(m, "virtual", n) = R[n]
  BY FsBounds, FsNames, NamerIs
<1> HIDE DEF R
<1>2. ASSUME NEW x \in D, \A y \in D : Lower(a, b, y, x) => y \in T, Placed(x)
      PROVE  LeadsTo(R[x], x)
  <2>1. CASE Apart(m, x)
    <3>1. x = RootNode
      BY <2>1, <1>2 DEF Placed, Titled, Apart
    <3>2. R[x] = <<>>
      BY <2>1, <1>1 DEF PathOn
    <3>3. ASSUME NEW last \in BOOLEAN, NEW slash \in BOOLEAN
          PROVE  Walker(m, "virtual")[NamePath(<<>>, last, slash)] = Found(RootNode, 0)
      <4> DEFINE w == NamePath(<<>>, last, slash)
      <4>1. w \in Walks(m) /\ w.cs = <<>> /\ w.cur = RootNode /\ w.links = 0
        BY NodesAre DEF NamePath, WalkOf, Walks
      <4> HIDE DEF w
      <4>2. Walker(m, "virtual")[w] = Found(w.cur, w.links)
        BY <4>1, WalkerSteps
      <4> QED BY <4>1, <4>2 DEF w
    <3> QED BY <3>1, <3>2, <3>3 DEF LeadsTo
  <2>2. CASE ~Apart(m, x)
    <3> DEFINE q == HolderOf(m, x)
               c == TitleOf(m, x)
    <3>1. q \in D /\ Lower(a, b, q, x)
      BY <2>2, FsBounds, FsNames, HoldersAre
    <3>2. Placed(q) /\ NamedThere(q, c, x)
      BY <2>2, <1>2, FsBounds, FsNames, HolderIsPlaced
    <3>3. R[x] = Append(R[q], c)
      BY <2>2, <1>1 DEF PathOn
    <3> HIDE DEF q, c, a, b, D
    <3>4. LeadsTo(R[q], q)
      BY <3>1, <3>2, <1>2
    <3>5. R[q] \in Seq(GoodNames)
      BY <1>1, <3>1
    <3>6. LeadsTo(Append(R[q], c), x)
      BY <3>2, <3>4, <3>5, FsNames, OneMoreLeads
    <3> QED BY <3>3, <3>6
  <2> QED BY <2>1, <2>2
<1>3. D \subseteq T
  <2>1. a \in [D -> Nat] /\ b \in [D -> Nat]
    BY RanksAre
  <2>2. \A x \in D : (\A y \in D : Lower(a, b, y, x) => y \in T) => x \in T
    BY <1>2
  <2> HIDE DEF T, a, b, D
  <2>3. Hereditary(D, a, b, T)
    BY <2>1, <2>2 DEF Hereditary
  <2> QED BY <2>3, RankInduction
<1>4. n \in D
  BY DEF Placed, Clear
<1>5. LeadsTo(R[n], n)
  BY <1>3, <1>4
<1> HIDE DEF D
<1> QED
  BY <1>1, <1>4, <1>5

\* realpath names the node that it was asked about: its name leads there, from
\* the root and through no link, whatever links and slashes the path had, and
\* what was renamed above the node (resolve, full_path).
THEOREM RealpathNamesTheNode == FsSpec => []RealpathStable
<1>1. FsInit => Sound(m) /\ Hosted(m)
  BY FirstIsSound, HostedFirst
<1>2. Sound(m) /\ Hosted(m) /\ [FsNext]_fsVars => (Sound(m) /\ Hosted(m))'
  BY SoundIsKept, HostedNext
<1>3. Sound(m) /\ Hosted(m) => RealpathStable
  <2> SUFFICES ASSUME Sound(m), Hosted(m), NEW p \in Probes,
                      FromCwd(m, p, TRUE).err = "ok", ~IsDetached(m, FromCwd(m, p, TRUE).node)
               PROVE  LET name == FullPath(m, "virtual", FromCwd(m, p, TRUE).node) IN
                      /\ Resolve(m, "virtual", RootNode, Abs(name), FALSE).node =
                           FromCwd(m, p, TRUE).node
                      /\ \A real \in {Realpath(m, p)} : real.err = "ok" => real.is = name
    BY DEF RealpathStable
  <2> DEFINE n == FromCwd(m, p, TRUE).node
             name == FullPath(m, "virtual", n)
             x == LookupOf(m, "virtual", m.cwd, p, TRUE, 0)
             q == Abs(name)
  <2>1. p \in Path /\ m.cwd \in DOMAIN m.nodes /\ IsDir(m, m.cwd)
    BY FsNames DEF FsNames, Sound, Plain, Clear, ModelOK
  <2>2. FromCwd(m, p, TRUE) = Lookup(m, "virtual", m.cwd, p, TRUE, 0)
    BY DEF FromCwd, Resolve
  <2>3. Clear(m, n) /\ n \in DOMAIN m.nodes
    BY <2>1, <2>2, FsNames, LookupFinds
  <2>4. ~IsEmptyPath(p)
    <3>1. IsEmptyPath(p) => Lookup(m, "virtual", m.cwd, p, TRUE, 0) = Lost("ENOENT", 0)
      BY DEF Lookup
    <3>2. Lost("ENOENT", 0).err # "ok"
      BY DEF Lost
    <3> HIDE DEF n, name, x, q
    <3> QED BY <3>1, <3>2, <2>2
  <2>5. Held(n)
    <3> DEFINE yes == TRUE
               none == 0
               view == "virtual"
               y == LookupOf(m, view, m.cwd, p, yes, none)
    <3>0. Looks(m, m.cwd, p, yes, none)
      BY <2>1, <2>4 DEF Looks
    <3> HIDE DEF n, name, x, q, yes, none, view
    <3>1. /\ Lookup(m, view, m.cwd, p, yes, none) = Walker(m, view)[y]
          /\ y.cur = Origin(m, view, m.cwd, p)
      BY <2>4, FsNames, LookupWalks
    <3>2. y \in Walks(m)
      BY <3>0, FsNames, LookupIs
    <3>3. FromCwd(m, p, TRUE) = Walker(m, "virtual")[y]
      BY <3>1, <2>2 DEF yes, none, view
    <3>4. Held(y.cur)
      BY <3>1, <2>1, TurnsToDirs DEF Held, view
    <3> HIDE DEF y
    <3>5. Walker(m, "virtual")[y].err = "ok"
      BY <3>3
    <3>6. Held(Walker(m, "virtual")[y].node)
      BY <3>2, <3>4, <3>5, FsNames, WalkIsHeld
    <3> QED BY <3>3, <3>6 DEF n
  <2>6. Placed(n)
    <3>1. ~m.nodes[n].dead
      BY <2>3, TopIs DEF IsDetached
    <3>2. Titled(m, n)
      BY <2>3, <2>5, <3>1, TitlesAre DEF Held, Titled
    <3> HIDE DEF n
    <3> QED BY <2>3, <3>2 DEF Placed, n
  <2>7. name \in Seq(GoodNames) /\ LeadsTo(name, n)
    <3> HIDE DEF n
    <3> QED BY <2>6, FsBounds, FsNames, NameLeads
  <2> HIDE DEF n, name
  <2>8. q.comps = name /\ q.abs = TRUE /\ q.slash = FALSE /\ Real(q) = name
    <3>1. q.comps = name /\ q.abs = TRUE /\ q.slash = FALSE
      BY DEF Abs
    <3>2. name \in Seq(Component) /\ \A i \in 1..Len(name) : name[i] # "."
      BY <2>7 DEF GoodNames
    <3> HIDE DEF q
    <3> QED BY <3>1, <3>2, RealWhole
  <2> HIDE DEF q
  <2>9. Origin(m, "virtual", RootNode, q) = RootNode /\ ~AsksDir(q) /\ ~IsEmptyPath(q)
    <3>1. m.nodes[RootNode].over = 0
      BY NodesAre
    <3> QED BY <3>1, <2>8 DEF Origin, Enter, AsksDir, IsEmptyPath
  <2>10. Resolve(m, "virtual", RootNode, q, FALSE) = Walker(m, "virtual")[NamePath(name, FALSE, FALSE)]
    <3> DEFINE no == FALSE
               none == 0
               view == "virtual"
    <3>0. AsksDir(q) = no
      BY <2>8 DEF AsksDir
    <3> HIDE DEF no, none, view
    <3>1. Lookup(m, view, RootNode, q, no, none) = Walk(m, view, Origin(m, view, RootNode, q), Real(q), no, AsksDir(q), none)
      BY <2>9 DEF Lookup
    <3>2. Origin(m, view, RootNode, q) = RootNode
      BY <2>9 DEF view
    <3>3. Lookup(m, view, RootNode, q, no, none) = Walk(m, view, RootNode, name, no, no, none)
      BY <3>0, <3>1, <3>2, <2>8
    <3>4. Lookup(m, view, RootNode, q, no, none) = Walker(m, view)[WalkOf(RootNode, name, no, no, none)]
      BY <3>3, FsNames, WalkerIs
    <3>5. Resolve(m, "virtual", RootNode, q, FALSE) = Lookup(m, view, RootNode, q, no, none)
      BY DEF Resolve, view, no, none
    <3> QED BY <3>4, <3>5 DEF NamePath, view, no, none
  <2>11. Resolve(m, "virtual", RootNode, q, FALSE).node = n
    <3>1. Resolve(m, "virtual", RootNode, q, FALSE) = Found(n, 0)
      BY <2>7, <2>10 DEF LeadsTo
    <3>2. Found(n, 0).node = n
      BY DEF Found
    <3> QED BY <3>1, <3>2
  <2>12. Realpath(m, p).err = "ok" => Realpath(m, p).is = name
    BY DEF Realpath, Answer, name, n
  <2> QED BY <2>11, <2>12 DEF q, n, name
<1> QED
  BY <1>1, <1>2, <1>3, PTL DEF FsSpec

\* What names lead to: realpath's names to their nodes, none to the host's own
\* temp directories, and those given to open(O_CREAT) to what it opened.
THEOREM NamesLeadWhereTheySay == FsSpec => []NamesLead
<1>1. FsSpec => []RealpathStable
  BY RealpathNamesTheNode
<1>2. FsSpec => []NoHostTemp
  BY HostTempIsOutOfReach
<1>3. FsSpec => []CreatedIsFound
  BY CreatedFilesAreFound
<1>4. RealpathStable /\ NoHostTemp /\ CreatedIsFound => NamesLead
  BY DEF NamesLead
<1> QED
  BY <1>1, <1>2, <1>3, <1>4, PTL

-----------------------------------------------------------------------------
(* FsModel: what is below a node                                           *)

Items == [path : Seq(GoodNames), kind : Kinds, link : Path, len : 0..MaxLen]
Belower(s, view) == CHOOSE f : f = [n \in DOMAIN s.nodes |-> BelowDir(s, view, n, f)]

\* The order of what is below: outside of what is mounted first, then downwards.
OverOf(s) == [n \in DOMAIN s.nodes |-> 1 - UnderOf(s)[n]]
DepthOf(s) == [n \in DOMAIN s.nodes |-> Len(s.nodes) - HeightOf(s)[n]]

LEMMA DepthsAre ==
    ASSUME NEW s, Sound(s)
    PROVE  OverOf(s) \in [DOMAIN s.nodes -> Nat] /\ DepthOf(s) \in [DOMAIN s.nodes -> Nat]
<1> DEFINE D == DOMAIN s.nodes
<1>1. Len(s.nodes) \in Nat /\ D = 1..Len(s.nodes)
  BY NodesAre
<1>2. \A n \in D : UnderOf(s)[n] \in {0, 1}
  BY DEF UnderOf
<1>3. ASSUME NEW n \in D PROVE HeightOf(s)[n] \in Nat /\ HeightOf(s)[n] <= Len(s.nodes)
  <2>1. Ancestors(s, n) \subseteq 1..Len(s.nodes)
    BY <1>1, TopIs
  <2>2. IsFiniteSet(1..Len(s.nodes)) /\ Cardinality(1..Len(s.nodes)) = Len(s.nodes)
    <3> DEFINE k == Len(s.nodes)
    <3>1. 1 \in Int /\ k \in Int /\ k >= 0
      BY <1>1
    <3> HIDE DEF k
    <3>2. IsFiniteSet(1..k) /\ Cardinality(1..k) = IF 1 > k THEN 0 ELSE k - 1 + 1
      BY <3>1, FS_Interval
    <3>3. (IF 1 > k THEN 0 ELSE k - 1 + 1) = k
      BY <3>1
    <3> QED BY <3>2, <3>3 DEF k
  <2>3. Cardinality(Ancestors(s, n)) <= Cardinality(1..Len(s.nodes))
    BY <2>1, <2>2, FS_Subset
  <2>4. HeightOf(s)[n] = Cardinality(Ancestors(s, n))
    BY DEF HeightOf
  <2> QED BY <2>2, <2>3, <2>4, TopIs, FS_CardinalityType
<1>4. \A n \in D : 1 - UnderOf(s)[n] \in Nat
  BY <1>2
<1>5. \A n \in D : Len(s.nodes) - HeightOf(s)[n] \in Nat
  BY <1>1, <1>3
<1> QED
  BY <1>4, <1>5 DEF OverOf, DepthOf

\* What has a name is a node, with its parent above it.
LEMMA KidsAre ==
    ASSUME NEW s, Sound(s), NEW n \in DOMAIN s.nodes, NEW c \in DOMAIN Kids(s, n)
    PROVE  LET h == Kids(s, n)[c] IN
           /\ h \in DOMAIN s.nodes /\ h # RootNode /\ s.nodes[h].up = n /\ c \in GoodNames
           /\ Ancestors(s, h) = {h} \cup Ancestors(s, n) /\ h \notin Ancestors(s, n)
<1> DEFINE h == Kids(s, n)[c]
           e == Entry(n, c, h)
<1>1. ModelShape(s) /\ OneTree(TreeOf(s))
  BY DEF Sound
<1>2. h \in DOMAIN s.nodes /\ c \in GoodNames
  BY NodesAre DEF NodePlain, Kids
<1>3. e.dir = n /\ e.name = c /\ e.node = h
  BY EntryParts
<1>4. e = Entry(e.dir, e.name, e.node)
  BY <1>3
<1>4a. h = s.nodes[n].kids[c] /\ c \in DOMAIN s.nodes[n].kids
  BY DEF Kids
<1> HIDE DEF e, h
<1>5. e \in TreeOf(s).entries
  BY <1>3, <1>4, <1>4a, EntryIn
<1>6. TreeOf(s).up[h] = n /\ h # RootNode
  BY <1>1, <1>3, <1>5 DEF OneTree, Named, Top, RootNode
<1>7. s.nodes[h].up = n
  <2>1. TreeOf(s).up = [x \in 1..Len(s.nodes) |-> s.nodes[x].up]
    BY <1>1, TreeIs
  <2>2. h \in 1..Len(s.nodes)
    BY <1>2, NodesAre
  <2> QED BY <2>1, <2>2, <1>6
<1>8. Ancestors(s, h) = {h} \cup Ancestors(s, n) /\ h \notin Ancestors(s, n)
  BY <1>2, <1>6, <1>7, ParentIs
<1> QED
  BY <1>2, <1>6, <1>7, <1>8 DEF h

\* What is mounted on is outside of all that is mounted.
LEMMA MountedOutside ==
    ASSUME FsBounds, FsNames, Sound(m), Hosted(m), NEW n \in DOMAIN m.nodes, m.nodes[n].over # 0
    PROVE  m.nodes[n].up \in Outer(m)
<1> DEFINE f == First(m)
           k == Len(f.nodes)
<1>1. m.mac \in BOOLEAN
  BY DEF Sound, ModelOK
<1>2. Sound(f) /\ HostTable(f) /\ Sandboxes(f) = Sandboxes(m) /\ Outer(f) = Outer(m)
  BY <1>1, FsBounds, FsNames, FirstTable
<1>3. k \in Nat /\ DOMAIN f.nodes = 1..k /\ DOMAIN m.nodes = 1..Len(m.nodes)
      /\ Len(m.nodes) \in Nat /\ Len(m.nodes) >= k
  BY <1>2, NodesAre DEF Hosted, SameNodes
<1>4. SameNodes(f, m)
  BY DEF Hosted
<1>5. n \in 1..k
  BY <1>3, <1>4 DEF SameNodes
<1>6. f.nodes[n].over # 0
  BY <1>4, <1>5 DEF SameNodes, SameNode
<1>7. n \notin Sandboxes(m) /\ n # RootNode
  <2>1. f.nodes[RootNode].over = 0
    BY <1>2, NodesAre
  <2> QED BY <2>1, <1>2, <1>6 DEF HostTable
<1>8. n \in 2..Len(First(m).nodes)
  BY <1>3, <1>5, <1>7 DEF RootNode
<1>9. m.nodes[n].up = f.nodes[n].up
  BY <1>7, <1>8, FsBounds, FsNames, HostStands
<1>10. f.nodes[n].up \in Outer(f)
  <2>1. f = New(TRUE) \/ f = New(FALSE)
    BY <1>1 DEF First
  <2>2. CASE f = New(TRUE)
    <3> DEFINE t == MacNodes
    <3>0. f.nodes = MacNodes /\ f.mac = TRUE
      BY <2>2 DEF New
    <3>1. f.nodes = t /\ Outer(f) = {1, 2, 3} /\ n \in 1..13
      <4>1. Len(MacNodes) = 13
        BY FsBounds, MacNodesAre
      <4>2. n \in 1..Len(MacNodes)
        BY <1>5, <3>0
      <4> QED BY <3>0, <4>1, <4>2 DEF Outer
    <3>2. t[4].up = 2 /\ t[5].up = 3
      BY FsBounds, MacNodesAre DEF IsNode
    <3>3. /\ t[2].over = 0 /\ t[3].over = 0 /\ t[6].over = 0 /\ t[7].over = 0
          /\ t[8].over = 0 /\ t[9].over = 0 /\ t[10].over = 0 /\ t[11].over = 0 /\ t[12].over = 0
          /\ t[13].over = 0 /\ t[1].over = 0
      BY DEF MacNodes, DirNode, Mounted, Node
    <3>4. n = 1 \/ n = 2 \/ n = 3 \/ n = 4 \/ n = 5 \/ n = 6 \/ n = 7 \/ n = 8 \/ n = 9 \/ n = 10
          \/ n = 11 \/ n = 12 \/ n = 13
      BY <3>1
    <3> HIDE DEF t
    <3>5. n = 4 \/ n = 5
      BY <3>1, <3>3, <3>4, <1>6
    <3> QED BY <3>1, <3>2, <3>5
  <2>3. CASE f = New(FALSE)
    <3> DEFINE t == LinuxNodes
    <3>0. f.nodes = LinuxNodes /\ f.mac = FALSE
      BY <2>3 DEF New
    <3>1. f.nodes = t /\ Outer(f) = {1, 3} /\ n \in 1..10
      <4>1. Len(LinuxNodes) = 10
        BY FsBounds, LinuxNodesAre
      <4>2. n \in 1..Len(LinuxNodes)
        BY <1>5, <3>0
      <4> QED BY <3>0, <4>1, <4>2 DEF Outer
    <3>2. t[2].up = 1 /\ t[4].up = 3
      BY FsBounds, LinuxNodesAre DEF IsNode
    <3>3. /\ t[1].over = 0 /\ t[3].over = 0 /\ t[5].over = 0 /\ t[6].over = 0 /\ t[7].over = 0
          /\ t[8].over = 0 /\ t[9].over = 0 /\ t[10].over = 0
      BY DEF LinuxNodes, DirNode, Mounted, Node
    <3>4. n = 1 \/ n = 2 \/ n = 3 \/ n = 4 \/ n = 5 \/ n = 6 \/ n = 7 \/ n = 8 \/ n = 9 \/ n = 10
      BY <3>1
    <3> HIDE DEF t
    <3>5. n = 2 \/ n = 4
      BY <3>1, <3>3, <3>4, <1>6
    <3> QED BY <3>1, <3>2, <3>5
  <2> QED BY <2>1, <2>2, <2>3
<1> QED
  BY <1>2, <1>9, <1>10

\* What a name in a directory stands for comes after the directory.
LEMMA BelowFalls ==
    ASSUME FsBounds, FsNames, Sound(m), Hosted(m), NEW n \in DOMAIN m.nodes,
           NEW c \in DOMAIN Kids(m, n), NEW view
    PROVE  LET h == Enter(m, view, Kids(m, n)[c]) IN
           h \in DOMAIN m.nodes /\ Lower(OverOf(m), DepthOf(m), h, n)
<1> DEFINE k == Kids(m, n)[c]
           h == Enter(m, view, k)
           a == OverOf(m)
           b == DepthOf(m)
<1>1. /\ k \in DOMAIN m.nodes /\ m.nodes[k].up = n
      /\ Ancestors(m, k) = {k} \cup Ancestors(m, n) /\ k \notin Ancestors(m, n)
  BY KidsAre
<1> HIDE DEF k
<1>2. h \in DOMAIN m.nodes
  BY <1>1, TurnsAre
<1>3. CASE h # k
  <2>1. m.nodes[k].over # 0 /\ h = m.nodes[k].over
    BY <1>3 DEF Enter
  <2>2. m.nodes[h].vup # 0
    BY <2>1, <1>1, FsBounds, FsNames, HostMounts DEF Mounts
  <2>3. n \in Outer(m)
    BY <2>1, <1>1, FsBounds, FsNames, MountedOutside
  <2> HIDE DEF h
  <2>4. a[h] = 0
    <3>1. Within1(m, h)
      BY <2>2, <1>2, TopIs DEF Within1
    <3>2. UnderOf(m)[h] = 1
      BY <3>1, <1>2 DEF UnderOf
    <3> QED BY <3>2, <1>2 DEF OverOf
  <2>5. a[n] = 1
    <3>1. ~Within1(m, n)
      BY <2>3, FsBounds, FsNames, OuterOpens DEF Opens, Within1
    <3>2. UnderOf(m)[n] = 0
      BY <3>1 DEF UnderOf
    <3> QED BY <3>2 DEF OverOf
  <2> HIDE DEF a, b
  <2>6. Lower(a, b, h, n)
    BY <2>4, <2>5 DEF Lower
  <2> QED BY <1>2, <2>6 DEF a, b, h, k
<1>4. CASE h = k
  <2>1. a[k] = 0 \/ a[k] = a[n]
    <3>1. Within1(m, n) => Within1(m, k)
      BY <1>1 DEF Within1
    <3>2. a[k] = 1 - UnderOf(m)[k] /\ a[n] = 1 - UnderOf(m)[n]
      BY <1>1 DEF OverOf
    <3>3. UnderOf(m)[k] = 1 \/ (UnderOf(m)[k] = 0 /\ UnderOf(m)[n] = 0)
      BY <3>1, <1>1 DEF UnderOf
    <3> QED BY <3>2, <3>3
  <2>2. a[n] \in Nat /\ b[n] \in Nat /\ b[k] \in Nat /\ a[k] \in Nat
    BY <1>1, DepthsAre
  <2>3. b[k] < b[n]
    <3> DEFINE S == Ancestors(m, n)
               len == Len(m.nodes)
    <3>1. Ancestors(m, k) = S \cup {k} /\ k \notin S /\ IsFiniteSet(S)
      BY <1>1, TopIs
    <3>2. /\ b[k] = len - HeightOf(m)[k] /\ HeightOf(m)[k] = Cardinality(Ancestors(m, k))
          /\ b[n] = len - HeightOf(m)[n] /\ HeightOf(m)[n] = Cardinality(S)
      BY <1>1 DEF DepthOf, HeightOf
    <3>3. len \in Nat
      BY NodesAre
    <3> HIDE DEF S, b, len
    <3>4. Cardinality(S \cup {k}) = Cardinality(S) + 1 /\ Cardinality(S) \in Nat
      BY <3>1, FS_AddElement, FS_CardinalityType
    <3> QED BY <3>1, <3>2, <3>3, <3>4
  <2> HIDE DEF a, b, h
  <2>4. Lower(a, b, k, n)
    BY <2>1, <2>2, <2>3 DEF Lower
  <2> QED BY <1>2, <1>4, <2>4 DEF a, b, h, k
<1> QED
  BY <1>3, <1>4

\* What one name adds is a set of items, and depends on what is below it.
LEMMA BelowNameIs ==
    ASSUME FsBounds, FsNames, Sound(m), Hosted(m), NEW n \in DOMAIN m.nodes,
           NEW c \in DOMAIN Kids(m, n), NEW view, NEW f \in [DOMAIN m.nodes -> SUBSET Items]
    PROVE  BelowName(m, view, n, c, f) \subseteq Items
<1> DEFINE h == Enter(m, view, Kids(m, n)[c])
           node == m.nodes[h]
           S == IF IsDirKind(node.kind) THEN f[h] ELSE {}
<1>1. h \in DOMAIN m.nodes /\ c \in GoodNames
  BY KidsAre, FsBounds, FsNames, BelowFalls
<1>2. node.kind \in Kinds /\ node.len \in 0..MaxLen /\ node.link \in Path
  <2>1. NodePlain(m, node)
    BY <1>1, NodesAre
  <2> HIDE DEF h
  <2> QED BY <1>1, <2>1 DEF Sound, ModelOK, NodePlain
<1>3. S \subseteq Items
  <2> HIDE DEF Items, h
  <2> QED BY <1>1
<1>4. BelowName(m, view, n, c, f) = {Listed(c, node)} \cup {[e EXCEPT !.path = <<c>> \o @] : e \in S}
  BY DEF BelowName
<1> HIDE DEF h, node, S
<1>5. <<c>> \in Seq(GoodNames)
  BY <1>1
<1>6. Listed(c, node) \in Items
  BY <1>2, <1>5 DEF Listed, Items, Kinds
<1>7. ASSUME NEW e \in S PROVE [e EXCEPT !.path = <<c>> \o @] \in Items
  <2>1. e \in Items
    BY <1>3
  <2>2. <<c>> \o e.path \in Seq(GoodNames)
    BY <2>1, <1>5 DEF Items
  <2> QED BY <2>1, <2>2 DEF Items
<1> QED
  BY <1>4, <1>6, <1>7

\* So the recursion of Below is defined.
LEMMA BelowerIs ==
    ASSUME FsBounds, FsNames, Sound(m), Hosted(m), NEW view
    PROVE  /\ \A n \in DOMAIN m.nodes : Belower(m, view)[n] = BelowDir(m, view, n, Belower(m, view))
           /\ \A end : Below(m, view, end) = Belower(m, view)[end]
<1> DEFINE D == DOMAIN m.nodes
           V == SUBSET Items
           W == [x \in D |-> V]
           F == {f \in [D -> V] : \A x \in D : f[x] \in W[x]}
           G == [x \in D |-> [f \in F |-> BelowDir(m, view, x, f)]]
           a == OverOf(m)
           b == DepthOf(m)
           P(f) == f = [x \in D |-> BelowDir(m, view, x, f)]
           R == Belower(m, view)
<1>2. a \in [D -> Nat] /\ b \in [D -> Nat]
  BY DepthsAre
<1>3. \A x \in D, f \in F : BelowDir(m, view, x, f) \in V
  <2> TAKE x \in D, f \in F
  <2>1. f \in [D -> SUBSET Items]
    OBVIOUS
  <2>2. \A c \in DOMAIN Kids(m, x) : BelowName(m, view, x, c, f) \subseteq Items
    BY <2>1, FsBounds, FsNames, BelowNameIs
  <2> QED BY <2>2 DEF BelowDir
<1>4. \A x \in D, f, g \in F :
        (\A y \in D : Lower(a, b, y, x) => f[y] = g[y]) => G[x][f] = G[x][g]
  <2> TAKE x \in D, f \in F, g \in F
  <2> HAVE \A y \in D : Lower(a, b, y, x) => f[y] = g[y]
  <2>1. \A c \in DOMAIN Kids(m, x) :
          LET h == Enter(m, view, Kids(m, x)[c]) IN h \in D /\ Lower(a, b, h, x)
    BY FsBounds, FsNames, BelowFalls
  <2>2. G[x][f] = BelowDir(m, view, x, f) /\ G[x][g] = BelowDir(m, view, x, g)
    OBVIOUS
  <2> HIDE DEF F, a, b, D, G
  <2>3. \A c \in DOMAIN Kids(m, x) : BelowName(m, view, x, c, f) = BelowName(m, view, x, c, g)
    <3> TAKE c \in DOMAIN Kids(m, x)
    <3>1. f[Enter(m, view, Kids(m, x)[c])] = g[Enter(m, view, Kids(m, x)[c])]
      BY <2>1
    <3> QED BY <3>1 DEF BelowName
  <2>4. BelowDir(m, view, x, f) = BelowDir(m, view, x, g)
    BY <2>3 DEF BelowDir
  <2> QED BY <2>2, <2>4
<1>5. Recurses(D, a, b, V, W, F, G)
  <2>0. V # {}
    BY {} \in V
  <2>1. W \in [D -> SUBSET V] /\ \A x \in D : W[x] # {}
    <3> HIDE DEF V, D
    <3> QED BY <2>0
  <2>3. G \in [D -> [F -> V]] /\ \A x \in D, f \in F : G[x][f] \in W[x]
    <3> HIDE DEF F, D, V
    <3> QED BY <1>3
  <2> HIDE DEF D, V, W, G, a, b
  <2> QED BY <1>2, <1>4, <2>1, <2>3 DEF Recurses
<1>6. PICK f \in F : \A x \in D : f[x] = G[x][f]
  <2> HIDE DEF D, V, W, F, G, a, b
  <2> QED BY <1>5, RecursionExists
<1>7. f \in [D -> V] /\ \A x \in D : f[x] = BelowDir(m, view, x, f)
  <2>1. f \in [D -> V]
    OBVIOUS
  <2>2. \A x \in D : G[x][f] = BelowDir(m, view, x, f)
    OBVIOUS
  <2> HIDE DEF D, V, F, G
  <2> QED BY <1>6, <2>1, <2>2
<1>8. P(f)
  <2> HIDE DEF D, V
  <2> QED BY <1>7
<1>9. P(R)
  <2>1. R = CHOOSE g : P(g)
    BY DEF Belower
  <2> HIDE DEF P, R
  <2> QED BY <1>8, <2>1, Zenon
<1>10. \A end : Below(m, view, end) = R[end]
  BY DEF Below, Belower
<1> HIDE DEF R, F, G, W
<1>11. \A x \in D : R[x] = BelowDir(m, view, x, R)
  BY <1>9
<1> QED
  BY <1>10, <1>11 DEF R, D

\* Nothing is mounted inside of what is mounted: both views see the same there.
LEMMA BelowAlike ==
    ASSUME FsBounds, FsNames, Sound(m), Hosted(m), NEW n \in DOMAIN m.nodes, m.nodes[n].vup # 0
    PROVE  Below(m, "virtual", n) = Below(m, "physical", n)
<1> DEFINE D == DOMAIN m.nodes
           a == OverOf(m)
           b == DepthOf(m)
           V == Belower(m, "virtual")
           P == Belower(m, "physical")
           T == {x \in D : Within1(m, x) => V[x] = P[x]}
<1>1. /\ \A x \in D : V[x] = BelowDir(m, "virtual", x, V) /\ P[x] = BelowDir(m, "physical", x, P)
      /\ Below(m, "virtual", n) = V[n] /\ Below(m, "physical", n) = P[n]
  BY FsBounds, FsNames, BelowerIs
<1> HIDE DEF V, P
<1>2. ASSUME NEW x \in D, \A y \in D : Lower(a, b, y, x) => y \in T, Within1(m, x)
      PROVE  V[x] = P[x]
  <2>1. ASSUME NEW c \in DOMAIN Kids(m, x)
        PROVE  BelowName(m, "virtual", x, c, V) = BelowName(m, "physical", x, c, P)
    <3> DEFINE k == Kids(m, x)[c]
    <3>1. /\ k \in D /\ m.nodes[k].up = x /\ Ancestors(m, k) = {k} \cup Ancestors(m, x)
      BY KidsAre
    <3>2. m.nodes[k].over = 0
      <4>1. x \in Outer(m) => ~Within1(m, x)
        BY FsBounds, FsNames, OuterOpens DEF Opens, Within1
      <4> HIDE DEF k
      <4> QED BY <3>1, <4>1, <1>2, FsBounds, FsNames, MountedOutside
    <3>3. Enter(m, "virtual", k) = k /\ Enter(m, "physical", k) = k
      BY <3>2 DEF Enter
    <3>4. Lower(a, b, k, x)
      BY <3>3, FsBounds, FsNames, BelowFalls
    <3>5. Within1(m, k)
      BY <3>1, <1>2 DEF Within1
    <3> HIDE DEF a, b
    <3>6. V[k] = P[k]
      BY <3>1, <3>4, <3>5, <1>2
    <3> QED BY <3>3, <3>6 DEF BelowName
  <2>2. BelowDir(m, "virtual", x, V) = BelowDir(m, "physical", x, P)
    BY <2>1 DEF BelowDir
  <2> QED BY <2>2, <1>1
<1>3. D \subseteq T
  <2>1. a \in [D -> Nat] /\ b \in [D -> Nat]
    BY DepthsAre
  <2>2. \A x \in D : (\A y \in D : Lower(a, b, y, x) => y \in T) => x \in T
    BY <1>2
  <2> HIDE DEF T, a, b, D
  <2>3. Hereditary(D, a, b, T)
    BY <2>1, <2>2 DEF Hereditary
  <2> QED BY <2>3, RankInduction
<1>4. Within1(m, n)
  BY TopIs DEF Within1
<1> QED
  BY <1>1, <1>3, <1>4

-----------------------------------------------------------------------------
(* FsDriver: the private directories in both views                         *)

\* A walk through every link, and a name of a directory.
To(d, cs, k) == WalkOf(d, cs, TRUE, FALSE, k)
Way(d, c, h) ==
    /\ d \in DOMAIN m.nodes /\ h \in DOMAIN m.nodes /\ IsDir(m, d)
    /\ c \in GoodNames /\ Has(m, d, c) /\ Kids(m, d)[c] = h

LEMMA ToIs ==
    ASSUME Sound(m), NEW d \in DOMAIN m.nodes, NEW cs \in Seq(Component), NEW k \in Nat
    PROVE  LET x == To(d, cs, k) IN
           x \in Walks(m) /\ x.cur = d /\ x.cs = cs /\ x.last = TRUE /\ x.slash = FALSE /\ x.links = k
BY DEF To, WalkOf, Walks

\* A walk goes on from a directory that is named.
LEMMA WayOn ==
    ASSUME FsNames, Sound(m), NEW d, NEW c, NEW h, Way(d, c, h), IsDir(m, h), NEW view,
           NEW cs \in Seq(Component), cs # <<>>, Head(cs) = c, NEW k \in Nat
    PROVE  Walker(m, view)[To(d, cs, k)] = Walker(m, view)[To(Enter(m, view, h), Tail(cs), k)]
<1> DEFINE x == To(d, cs, k)
           on == Walker(m, view)
           r == NextNode(m, view, x, on)
<1>1. x \in Walks(m) /\ x.cur = d /\ x.cs = cs /\ x.last = TRUE /\ x.slash = FALSE /\ x.links = k
  <2>1. d \in DOMAIN m.nodes
    BY DEF Way
  <2> QED BY <2>1 DEF To, WalkOf, Walks
<1>2. Onward(m, view, x, h, k) = To(Enter(m, view, h), Tail(cs), k)
  BY <1>1 DEF Onward, To
<1> HIDE DEF x
<1>3. Named1(m, x)
  BY <1>1 DEF Way, Named1, GoodNames
<1>4. FirstKid(m, x) = h /\ ~Follows(m, x, h)
  <2>1. m.nodes[h].kind # "link"
    BY DEF IsDir, IsDirKind, Kind, Way
  <2> QED BY <1>1, <2>1 DEF FirstKid, Follows, Way, Kids
<1>5. r = Found(h, k)
  BY <1>1, <1>3, <1>4, FsNames, NextSteps
<1>6. r.err = "ok" /\ r.node = h /\ r.links = k
  BY <1>5, FoundIs
<1>7. Suits(m, x, h)
  BY DEF Suits
<1>8. on[x] = on[Onward(m, view, x, r.node, r.links)]
  <2> HIDE DEF r
  <2>1. r.err = "ok" /\ Suits(m, x, r.node)
    BY <1>6, <1>7
  <2> HIDE DEF on
  <2> QED BY <1>1, <1>3, <2>1, FsNames, WalkerSteps DEF on, r
<1> HIDE DEF r, on
<1>9. on[x] = on[To(Enter(m, view, h), Tail(cs), k)]
  BY <1>2, <1>6, <1>8
<1> QED
  BY <1>9 DEF on, x

\* A walk goes on from the directory that a link leads to.
LEMMA LinkOn ==
    ASSUME FsNames, Sound(m), NEW d, NEW c, NEW h, Way(d, c, h), m.nodes[h].kind = "link", NEW view,
           NEW to \in Seq(GoodNames), to # <<>>, m.nodes[h].link = Rel(to), m.nodes[d].over = 0,
           NEW cs \in Seq(Component), cs # <<>>, Head(cs) = c, NEW k \in Nat, k + 1 <= MaxLinks,
           NEW n, IsDir(m, n), Walker(m, view)[To(d, to, k + 1)] = Found(n, k + 1)
    PROVE  Walker(m, view)[To(d, cs, k)] = Walker(m, view)[To(Enter(m, view, n), Tail(cs), k + 1)]
<1> DEFINE x == To(d, cs, k)
           on == Walker(m, view)
           r == NextNode(m, view, x, on)
           link == Rel(to)
           y == Through(m, view, x, link)
<1>1. x \in Walks(m) /\ x.cur = d /\ x.cs = cs /\ x.last = TRUE /\ x.slash = FALSE /\ x.links = k
  <2>1. d \in DOMAIN m.nodes
    BY DEF Way
  <2> QED BY <2>1 DEF To, WalkOf, Walks
<1>2. Onward(m, view, x, n, k + 1) = To(Enter(m, view, n), Tail(cs), k + 1)
  BY <1>1 DEF Onward, To
<1>3. link.comps = to /\ link.abs = FALSE /\ link.slash = FALSE
  BY DEF Rel
<1>4. Real(link) = to /\ ~IsEmptyPath(link)
  <2>1. to \in Seq(Component) /\ \A i \in 1..Len(to) : to[i] # "."
    BY DEF GoodNames
  <2> HIDE DEF link
  <2>2. Real(link) = to
    BY <1>3, <2>1, RealWhole
  <2> QED BY <1>3, <2>2 DEF IsEmptyPath
<1>5. y = To(d, to, k + 1)
  <2>1. Origin(m, view, d, link) = d
    BY <1>3 DEF Origin, Enter
  <2>2. AsksDir(link) = FALSE
    BY <1>3 DEF AsksDir
  <2> HIDE DEF x, link
  <2> QED BY <1>1, <1>4, <2>1, <2>2 DEF Through, To, y
<1> HIDE DEF x, link
<1>6. Named1(m, x)
  BY <1>1 DEF Way, Named1, GoodNames
<1>7. FirstKid(m, x) = h /\ Follows(m, x, h)
  BY <1>1 DEF FirstKid, Follows, Way, Kids
<1>8. r = on[y]
  <2>1. ~(x.links + 1 > MaxLinks \/ IsEmptyPath(m.nodes[h].link))
    BY <1>1, <1>4, FsNames DEF FsNames, link
  <2>2. y = Through(m, view, x, m.nodes[h].link)
    BY DEF link
  <2> HIDE DEF y, r, on
  <2> QED BY <1>1, <1>6, <1>7, <2>1, <2>2, FsNames, NextSteps DEF r, on
<1>9. r.err = "ok" /\ r.node = n /\ r.links = k + 1
  <2> HIDE DEF r, y
  <2> QED BY <1>5, <1>8, FoundIs
<1>10. Suits(m, x, n)
  BY DEF Suits
<1>11. on[x] = on[Onward(m, view, x, r.node, r.links)]
  <2> HIDE DEF r
  <2>1. r.err = "ok" /\ Suits(m, x, r.node)
    BY <1>9, <1>10
  <2> HIDE DEF on
  <2> QED BY <1>1, <1>6, <2>1, FsNames, WalkerSteps DEF on, r
<1> HIDE DEF r, on, y
<1>12. on[x] = on[To(Enter(m, view, n), Tail(cs), k + 1)]
  BY <1>2, <1>9, <1>11
<1> QED
  BY <1>12 DEF on, x

\* A walk to a directory, in no name, in one and in two.
LEMMA NothingTo ==
    ASSUME FsNames, Sound(m), NEW n \in DOMAIN m.nodes, NEW view, NEW k \in Nat
    PROVE  Walker(m, view)[To(n, <<>>, k)] = Found(n, k)
<1> DEFINE x == To(n, <<>>, k)
<1>1. x \in Walks(m) /\ x.cs = <<>> /\ x.cur = n /\ x.links = k
  <2>1. <<>> \in Seq(Component)
    OBVIOUS
  <2> QED BY <2>1 DEF To, WalkOf, Walks
<1> HIDE DEF x
<1>2. Walker(m, view)[x] = Found(x.cur, x.links)
  BY <1>1, FsNames, WalkerSteps
<1> QED
  BY <1>1, <1>2 DEF x
LEMMA WayTo ==
    ASSUME FsNames, Sound(m), NEW d, NEW c, NEW h, Way(d, c, h), IsDir(m, h), NEW view, NEW k \in Nat
    PROVE  Walker(m, view)[To(d, <<c>>, k)] = Found(Enter(m, view, h), k)
<1> DEFINE x == To(Enter(m, view, h), <<>>, k)
           cs == <<c>>
<1>1. cs \in Seq(Component) /\ cs # <<>> /\ Head(cs) = c /\ Tail(cs) = <<>>
  BY DEF Way, GoodNames
<1>2. Walker(m, view)[To(d, cs, k)] = Walker(m, view)[x]
  <2>1. Walker(m, view)[To(d, cs, k)] = Walker(m, view)[To(Enter(m, view, h), Tail(cs), k)]
    <3> HIDE DEF cs
    <3> QED BY <1>1, FsNames, WayOn
  <2> QED BY <2>1, <1>1
<1>3. Enter(m, view, h) \in DOMAIN m.nodes
  BY TurnsAre DEF Way
<1> QED
  BY <1>2, <1>3, FsNames, NothingTo
LEMMA TwoWaysTo ==
    ASSUME FsNames, Sound(m), NEW d, NEW c, NEW g, Way(d, c, g), IsDir(m, g), m.nodes[g].over = 0,
           NEW name, NEW h, Way(g, name, h), IsDir(m, h), NEW view, NEW k \in Nat
    PROVE  Walker(m, view)[To(d, <<c, name>>, k)] = Found(Enter(m, view, h), k)
<1> DEFINE cs == <<c, name>>
<1>1. cs \in Seq(Component) /\ cs # <<>> /\ Head(cs) = c /\ Tail(cs) = <<name>>
  BY DEF Way, GoodNames
<1>2. Enter(m, view, g) = g
  BY DEF Enter
<1>3. Walker(m, view)[To(d, cs, k)] = Walker(m, view)[To(g, <<name>>, k)]
  <2>1. Walker(m, view)[To(d, cs, k)] = Walker(m, view)[To(Enter(m, view, g), Tail(cs), k)]
    <3> HIDE DEF cs
    <3> QED BY <1>1, FsNames, WayOn
  <2> QED BY <2>1, <1>1, <1>2
<1>4. Walker(m, view)[To(g, <<name>>, k)] = Found(Enter(m, view, h), k)
  BY FsNames, WayTo
<1> QED
  BY <1>3, <1>4

\* An absolute path of names is a walk from the root.
LEMMA FromRoot ==
    ASSUME FsNames, Sound(m), NEW cs \in Seq(GoodNames), NEW view
    PROVE  Resolve(m, view, RootNode, Abs(cs), TRUE) = Walker(m, view)[To(RootNode, cs, 0)]
<1> DEFINE q == Abs(cs)
           yes == TRUE
           no == FALSE
           none == 0
<1>1. q.comps = cs /\ q.abs = TRUE /\ q.slash = FALSE
  BY DEF Abs
<1>2. cs \in Seq(Component) /\ \A i \in 1..Len(cs) : cs[i] # "."
  BY DEF GoodNames
<1> HIDE DEF q
<1>3. Real(q) = cs
  BY <1>1, <1>2, RealWhole
<1>4. Origin(m, view, RootNode, q) = RootNode
  <2>1. m.nodes[RootNode].over = 0
    BY NodesAre
  <2> QED BY <1>1, <2>1 DEF Origin, Enter
<1>5. AsksDir(q) = no /\ ~IsEmptyPath(q)
  BY <1>1 DEF AsksDir, IsEmptyPath
<1> HIDE DEF yes, no, none
<1>6. Lookup(m, view, RootNode, q, yes, none) =
        Walk(m, view, Origin(m, view, RootNode, q), Real(q), yes, AsksDir(q), none)
  BY <1>5 DEF Lookup
<1>7. Lookup(m, view, RootNode, q, yes, none) = Walk(m, view, RootNode, cs, yes, no, none)
  BY <1>3, <1>4, <1>5, <1>6
<1>8. Lookup(m, view, RootNode, q, yes, none) = Walker(m, view)[WalkOf(RootNode, cs, yes, no, none)]
  BY <1>7, FsNames, WalkerIs
<1> QED
  BY <1>8 DEF Resolve, To, q, yes, no, none

\* The host's directories, where they were first.
LEMMA HostWay ==
    ASSUME FsBounds, FsNames, Sound(m), Hosted(m), NEW d \in DOMAIN First(m).nodes,
           NEW c \in DOMAIN First(m).nodes[d].kids, First(m).nodes[d].kids[c] \notin Sandboxes(m)
    PROVE  LET h == First(m).nodes[d].kids[c] IN
           /\ Way(d, c, h) /\ SameNode(First(m).nodes[h], m.nodes[h])
           /\ SameNode(First(m).nodes[d], m.nodes[d])
<1> DEFINE f == First(m)
           h == f.nodes[d].kids[c]
           e == Entry(d, c, h)
<1>1. m.mac \in BOOLEAN /\ ModelShape(m) /\ OneTree(TreeOf(m))
  BY DEF Sound, ModelOK
<1>2. Sound(f)
  BY <1>1, FsBounds, FsNames, FirstTable
<1>3. /\ Len(f.nodes) \in Nat /\ DOMAIN f.nodes = 1..Len(f.nodes) /\ h \in DOMAIN f.nodes
      /\ DOMAIN m.nodes = 1..Len(m.nodes) /\ Len(m.nodes) \in Nat /\ Len(m.nodes) >= Len(f.nodes)
  BY <1>2, NodesAre DEF Hosted, SameNodes
<1>4. e.dir = d /\ e.name = c /\ e.node = h
  BY EntryParts
<1>5. e = Entry(e.dir, e.name, e.node)
  BY <1>4
<1>6. h = f.nodes[d].kids[c] /\ c \in DOMAIN f.nodes[d].kids /\ h \notin Sandboxes(m)
  OBVIOUS
<1>7. c \in GoodNames
  BY <1>2, NodesAre DEF NodePlain
<1>8. SameNodes(f, m)
  BY DEF Hosted
<1>9. d \in 1..Len(f.nodes) /\ h \in 1..Len(f.nodes)
  BY <1>3
<1> HIDE DEF e, h, f
<1>10. e \in TreeOf(f).entries
  BY <1>3, <1>4, <1>5, <1>6, <1>9, EntryIn
<1>11. e \in TreeOf(m).entries
  BY <1>4, <1>6, <1>10 DEF Hosted, HostEntries, f
<1>12. Has(m, d, c) /\ Kids(m, d)[c] = h
  BY <1>4, <1>11, EntryIn DEF Has, Kids
<1>13. SameNode(f.nodes[h], m.nodes[h]) /\ SameNode(f.nodes[d], m.nodes[d])
  BY <1>8, <1>9 DEF SameNodes
<1>14. d \in DOMAIN m.nodes /\ h \in DOMAIN m.nodes
  BY <1>3, <1>9
<1>15. IsDir(m, d)
  <2>1. d = m.nodes[h].up
    <3>1. c \in DOMAIN Kids(m, d)
      BY <1>12 DEF Has
    <3> QED BY <1>12, <1>14, <3>1, KidsAre
  <2>2. h # RootNode
    BY <1>12, <1>14, KidsAre DEF Has
  <2> QED BY <1>14, <2>1, <2>2, ParentIs
<1> QED
  BY <1>7, <1>12, <1>13, <1>14, <1>15 DEF Way, f, h

\* The host on macOS: /tmp and /var are links to /private.
LEMMA MacWays ==
    ASSUME FsBounds, FsNames, Sound(m), Hosted(m), m.mac = TRUE
    PROVE  /\ Way(1, "private", 2) /\ Way(1, "tmp", 6) /\ Way(1, "var", 7) /\ Way(1, Root[1], 8)
           /\ Way(2, "var", 3) /\ Way(2, "tmp", 4) /\ Way(3, "tmp", 5)
           /\ Way(8, "tmp", 9) /\ Way(8, "var", 10) /\ Way(10, "tmp", 11)
           /\ m.nodes[6].kind = "link" /\ m.nodes[6].link = Rel(<<"private", "tmp">>)
           /\ m.nodes[7].kind = "link" /\ m.nodes[7].link = Rel(<<"private", "var">>)
           /\ \A d \in {1, 2, 3, 4, 5, 8, 9, 10, 11} : IsDir(m, d)
           /\ \A d \in {1, 2, 3, 8, 9, 10, 11} : m.nodes[d].over = 0
           /\ m.nodes[4].over = 9 /\ m.nodes[5].over = 11
           /\ m.nodes[9].vup # 0 /\ m.nodes[11].vup # 0
<1> DEFINE t == MacNodes
<1>1. First(m).nodes = t /\ Sandboxes(m) = {12, 13}
  BY DEF First, New, Sandboxes
<1>2. DOMAIN t = 1..13
  BY FsBounds, MacNodesAre
<1>3. \A d \in 1..13 : \A c \in DOMAIN t[d].kids : t[d].kids[c] \notin {12, 13} =>
        /\ Way(d, c, t[d].kids[c]) /\ SameNode(t[t[d].kids[c]], m.nodes[t[d].kids[c]])
        /\ SameNode(t[d], m.nodes[d])
  <2> HIDE DEF t
  <2> SUFFICES ASSUME NEW d \in 1..13, NEW c \in DOMAIN t[d].kids, t[d].kids[c] \notin {12, 13}
               PROVE  /\ Way(d, c, t[d].kids[c])
                      /\ SameNode(t[t[d].kids[c]], m.nodes[t[d].kids[c]])
                      /\ SameNode(t[d], m.nodes[d])
    OBVIOUS
  <2>1. /\ d \in DOMAIN First(m).nodes /\ c \in DOMAIN First(m).nodes[d].kids
        /\ First(m).nodes[d].kids[c] \notin Sandboxes(m)
    BY <1>1, <1>2
  <2>2. LET h == First(m).nodes[d].kids[c] IN
        /\ Way(d, c, h) /\ SameNode(First(m).nodes[h], m.nodes[h])
        /\ SameNode(First(m).nodes[d], m.nodes[d])
    BY <2>1, FsBounds, FsNames, HostWay
  <2> QED BY <2>2, <1>1
<1>4. /\ IsNode(t[2], "dir", 1, Pair("var", 3, "tmp", 4))
      /\ IsNode(t[3], "dir", 2, Kid("tmp", 5)) /\ IsNode(t[4], "opaque", 2, NoKids)
      /\ IsNode(t[5], "opaque", 3, NoKids) /\ IsNode(t[6], "link", 1, NoKids)
      /\ IsNode(t[7], "link", 1, NoKids) /\ IsNode(t[8], "dir", 1, Pair("tmp", 9, "var", 10))
      /\ IsNode(t[9], "dir", 8, Kid("s", 12)) /\ IsNode(t[10], "dir", 8, Kid("tmp", 11))
      /\ IsNode(t[11], "dir", 10, Kid("s", 13)) /\ IsNode(t[1], "dir", 0, t[1].kids)
  BY FsBounds, MacNodesAre
<1>5. /\ DOMAIN t[1].kids = {"private", "tmp", "var", Root[1]}
      /\ t[1].kids["private"] = 2 /\ t[1].kids["tmp"] = 6 /\ t[1].kids["var"] = 7
      /\ t[1].kids[Root[1]] = 8
  BY FsBounds, MacNodesAre
<1>6. /\ t[1].over = 0 /\ t[2].over = 0 /\ t[3].over = 0 /\ t[4].over = 9 /\ t[5].over = 11
      /\ t[8].over = 0 /\ t[9].over = 0 /\ t[10].over = 0 /\ t[11].over = 0
      /\ t[9].vup = 2 /\ t[11].vup = 3
      /\ t[6].link = Rel(<<"private", "tmp">>) /\ t[7].link = Rel(<<"private", "var">>)
  BY DEF MacNodes, DirNode, Mounted, Node, HostDir
<1> HIDE DEF t
<1>7. /\ t[2].kids = Pair("var", 3, "tmp", 4) /\ t[3].kids = Kid("tmp", 5)
      /\ t[8].kids = Pair("tmp", 9, "var", 10) /\ t[10].kids = Kid("tmp", 11)
      /\ t[1].kind = "dir" /\ t[2].kind = "dir" /\ t[3].kind = "dir" /\ t[4].kind = "opaque"
      /\ t[5].kind = "opaque" /\ t[6].kind = "link" /\ t[7].kind = "link" /\ t[8].kind = "dir"
      /\ t[9].kind = "dir" /\ t[10].kind = "dir" /\ t[11].kind = "dir"
  BY <1>4 DEF IsNode
<1>8. /\ "var" \in DOMAIN t[2].kids /\ t[2].kids["var"] = 3
      /\ "tmp" \in DOMAIN t[2].kids /\ t[2].kids["tmp"] = 4
      /\ "tmp" \in DOMAIN t[3].kids /\ t[3].kids["tmp"] = 5
      /\ "tmp" \in DOMAIN t[8].kids /\ t[8].kids["tmp"] = 9
      /\ "var" \in DOMAIN t[8].kids /\ t[8].kids["var"] = 10
      /\ "tmp" \in DOMAIN t[10].kids /\ t[10].kids["tmp"] = 11
  BY <1>7 DEF Kid, Pair
<1>9. /\ Way(1, "private", 2) /\ SameNode(t[2], m.nodes[2]) /\ SameNode(t[1], m.nodes[1])
      /\ Way(1, "tmp", 6) /\ SameNode(t[6], m.nodes[6])
      /\ Way(1, "var", 7) /\ SameNode(t[7], m.nodes[7])
      /\ Way(1, Root[1], 8) /\ SameNode(t[8], m.nodes[8])
  <2>1. 2 \notin {12, 13} /\ 6 \notin {12, 13} /\ 7 \notin {12, 13} /\ 8 \notin {12, 13} /\ 1 \in 1..13
    OBVIOUS
  <2> QED BY <2>1, <1>3, <1>5
<1>10. /\ Way(2, "var", 3) /\ SameNode(t[3], m.nodes[3])
       /\ Way(2, "tmp", 4) /\ SameNode(t[4], m.nodes[4])
       /\ Way(3, "tmp", 5) /\ SameNode(t[5], m.nodes[5])
       /\ Way(8, "tmp", 9) /\ SameNode(t[9], m.nodes[9])
       /\ Way(8, "var", 10) /\ SameNode(t[10], m.nodes[10])
       /\ Way(10, "tmp", 11) /\ SameNode(t[11], m.nodes[11])
  <2>1. Way(2, "var", 3) /\ SameNode(t[3], m.nodes[3])
    <3>1. 2 \in 1..13 /\ 3 \notin {12, 13}
      OBVIOUS
    <3> QED BY <3>1, <1>3, <1>8
  <2>2. Way(2, "tmp", 4) /\ SameNode(t[4], m.nodes[4])
    <3>1. 2 \in 1..13 /\ 4 \notin {12, 13}
      OBVIOUS
    <3> QED BY <3>1, <1>3, <1>8
  <2>3. Way(3, "tmp", 5) /\ SameNode(t[5], m.nodes[5])
    <3>1. 3 \in 1..13 /\ 5 \notin {12, 13}
      OBVIOUS
    <3> QED BY <3>1, <1>3, <1>8
  <2>4. Way(8, "tmp", 9) /\ SameNode(t[9], m.nodes[9])
    <3>1. 8 \in 1..13 /\ 9 \notin {12, 13}
      OBVIOUS
    <3> QED BY <3>1, <1>3, <1>8
  <2>5. Way(8, "var", 10) /\ SameNode(t[10], m.nodes[10])
    <3>1. 8 \in 1..13 /\ 10 \notin {12, 13}
      OBVIOUS
    <3> QED BY <3>1, <1>3, <1>8
  <2>6. Way(10, "tmp", 11) /\ SameNode(t[11], m.nodes[11])
    <3>1. 10 \in 1..13 /\ 11 \notin {12, 13}
      OBVIOUS
    <3> QED BY <3>1, <1>3, <1>8
  <2> QED BY <2>1, <2>2, <2>3, <2>4, <2>5, <2>6
<1>11. \A d \in {1, 2, 3, 4, 5, 8, 9, 10, 11} : IsDir(m, d)
  <2>1. \A d \in {1, 2, 3, 4, 5, 8, 9, 10, 11} : d \in DOMAIN m.nodes
    BY <1>9, <1>10 DEF Way
  <2>2. \A d \in {1, 2, 3, 4, 5, 8, 9, 10, 11} : m.nodes[d].kind \in {"dir", "opaque"}
    BY <1>7, <1>9, <1>10 DEF SameNode
  <2> QED BY <2>1, <2>2 DEF IsDir, IsDirKind, Kind
<1>12. /\ m.nodes[6].kind = "link" /\ m.nodes[6].link = Rel(<<"private", "tmp">>)
       /\ m.nodes[7].kind = "link" /\ m.nodes[7].link = Rel(<<"private", "var">>)
       /\ m.nodes[1].over = 0 /\ m.nodes[2].over = 0 /\ m.nodes[3].over = 0
       /\ m.nodes[8].over = 0 /\ m.nodes[9].over = 0 /\ m.nodes[10].over = 0
       /\ m.nodes[11].over = 0 /\ m.nodes[4].over = 9 /\ m.nodes[5].over = 11
       /\ m.nodes[9].vup = 2 /\ m.nodes[11].vup = 3
  BY <1>6, <1>7, <1>9, <1>10 DEF SameNode
<1> QED
  BY <1>9, <1>10, <1>11, <1>12

\* The host on Linux.
LEMMA LinuxWays ==
    ASSUME FsBounds, FsNames, Sound(m), Hosted(m), m.mac = FALSE
    PROVE  /\ Way(1, "tmp", 2) /\ Way(1, "var", 3) /\ Way(1, Root[1], 5) /\ Way(3, "tmp", 4)
           /\ Way(5, "tmp", 6) /\ Way(5, "var", 7) /\ Way(7, "tmp", 8)
           /\ \A d \in {1, 2, 3, 4, 5, 6, 7, 8} : IsDir(m, d)
           /\ \A d \in {1, 3, 5, 6, 7, 8} : m.nodes[d].over = 0
           /\ m.nodes[2].over = 6 /\ m.nodes[4].over = 8
           /\ m.nodes[6].vup # 0 /\ m.nodes[8].vup # 0
<1> DEFINE t == LinuxNodes
<1>1. First(m).nodes = t /\ Sandboxes(m) = {9, 10}
  BY DEF First, New, Sandboxes
<1>2. DOMAIN t = 1..10
  BY FsBounds, LinuxNodesAre
<1>3. \A d \in 1..10 : \A c \in DOMAIN t[d].kids : t[d].kids[c] \notin {9, 10} =>
        /\ Way(d, c, t[d].kids[c]) /\ SameNode(t[t[d].kids[c]], m.nodes[t[d].kids[c]])
        /\ SameNode(t[d], m.nodes[d])
  <2> HIDE DEF t
  <2> SUFFICES ASSUME NEW d \in 1..10, NEW c \in DOMAIN t[d].kids, t[d].kids[c] \notin {9, 10}
               PROVE  /\ Way(d, c, t[d].kids[c])
                      /\ SameNode(t[t[d].kids[c]], m.nodes[t[d].kids[c]])
                      /\ SameNode(t[d], m.nodes[d])
    OBVIOUS
  <2>1. /\ d \in DOMAIN First(m).nodes /\ c \in DOMAIN First(m).nodes[d].kids
        /\ First(m).nodes[d].kids[c] \notin Sandboxes(m)
    BY <1>1, <1>2
  <2>2. LET h == First(m).nodes[d].kids[c] IN
        /\ Way(d, c, h) /\ SameNode(First(m).nodes[h], m.nodes[h])
        /\ SameNode(First(m).nodes[d], m.nodes[d])
    BY <2>1, FsBounds, FsNames, HostWay
  <2> QED BY <2>2, <1>1
<1>4. /\ IsNode(t[1], "dir", 0, t[1].kids) /\ IsNode(t[2], "opaque", 1, NoKids)
      /\ IsNode(t[3], "dir", 1, Kid("tmp", 4)) /\ IsNode(t[4], "opaque", 3, NoKids)
      /\ IsNode(t[5], "dir", 1, Pair("tmp", 6, "var", 7)) /\ IsNode(t[6], "dir", 5, Kid("s", 9))
      /\ IsNode(t[7], "dir", 5, Kid("tmp", 8)) /\ IsNode(t[8], "dir", 7, Kid("s", 10))
  BY FsBounds, LinuxNodesAre
<1>5. /\ DOMAIN t[1].kids = {"tmp", "var", Root[1]}
      /\ t[1].kids["tmp"] = 2 /\ t[1].kids["var"] = 3 /\ t[1].kids[Root[1]] = 5
  BY FsBounds, LinuxNodesAre
<1>6. /\ t[1].over = 0 /\ t[2].over = 6 /\ t[3].over = 0 /\ t[4].over = 8 /\ t[5].over = 0
      /\ t[6].over = 0 /\ t[7].over = 0 /\ t[8].over = 0 /\ t[6].vup = 1 /\ t[8].vup = 3
  BY DEF LinuxNodes, DirNode, Mounted, Node, HostDir
<1> HIDE DEF t
<1>7. /\ t[3].kids = Kid("tmp", 4) /\ t[5].kids = Pair("tmp", 6, "var", 7)
      /\ t[7].kids = Kid("tmp", 8)
      /\ t[1].kind = "dir" /\ t[2].kind = "opaque" /\ t[3].kind = "dir" /\ t[4].kind = "opaque"
      /\ t[5].kind = "dir" /\ t[6].kind = "dir" /\ t[7].kind = "dir" /\ t[8].kind = "dir"
  BY <1>4 DEF IsNode
<1>8. /\ "tmp" \in DOMAIN t[3].kids /\ t[3].kids["tmp"] = 4
      /\ "tmp" \in DOMAIN t[5].kids /\ t[5].kids["tmp"] = 6
      /\ "var" \in DOMAIN t[5].kids /\ t[5].kids["var"] = 7
      /\ "tmp" \in DOMAIN t[7].kids /\ t[7].kids["tmp"] = 8
  BY <1>7 DEF Kid, Pair
<1>9. /\ Way(1, "tmp", 2) /\ SameNode(t[2], m.nodes[2]) /\ SameNode(t[1], m.nodes[1])
      /\ Way(1, "var", 3) /\ SameNode(t[3], m.nodes[3])
      /\ Way(1, Root[1], 5) /\ SameNode(t[5], m.nodes[5])
  <2>1. 2 \notin {9, 10} /\ 3 \notin {9, 10} /\ 5 \notin {9, 10} /\ 1 \in 1..10
    OBVIOUS
  <2> QED BY <2>1, <1>3, <1>5
<1>10. /\ Way(3, "tmp", 4) /\ SameNode(t[4], m.nodes[4])
       /\ Way(5, "tmp", 6) /\ SameNode(t[6], m.nodes[6])
       /\ Way(5, "var", 7) /\ SameNode(t[7], m.nodes[7])
       /\ Way(7, "tmp", 8) /\ SameNode(t[8], m.nodes[8])
  BY <1>3, <1>8
<1>11. \A d \in {1, 2, 3, 4, 5, 6, 7, 8} : IsDir(m, d)
  <2>1. \A d \in {1, 2, 3, 4, 5, 6, 7, 8} : d \in DOMAIN m.nodes
    BY <1>9, <1>10 DEF Way
  <2>2. \A d \in {1, 2, 3, 4, 5, 6, 7, 8} : m.nodes[d].kind \in {"dir", "opaque"}
    BY <1>7, <1>9, <1>10 DEF SameNode
  <2> QED BY <2>1, <2>2 DEF IsDir, IsDirKind, Kind
<1>12. /\ m.nodes[1].over = 0 /\ m.nodes[3].over = 0 /\ m.nodes[5].over = 0
       /\ m.nodes[6].over = 0 /\ m.nodes[7].over = 0 /\ m.nodes[8].over = 0
       /\ m.nodes[2].over = 6 /\ m.nodes[4].over = 8
       /\ m.nodes[6].vup = 1 /\ m.nodes[8].vup = 3
  BY <1>6, <1>9, <1>10 DEF SameNode
<1> QED
  BY <1>9, <1>10, <1>11, <1>12

\* A private directory is where both views have it.
Private(d, n) ==
    /\ Resolve(m, "virtual", RootNode, Abs(d), TRUE).node = n
    /\ Resolve(m, "virtual", RootNode, Abs(d), TRUE).err = "ok"
    /\ Resolve(m, "physical", RootNode, Abs(Root \o d), TRUE).node = n
    /\ Resolve(m, "physical", RootNode, Abs(Root \o d), TRUE).err = "ok"
    /\ n \in DOMAIN m.nodes /\ m.nodes[n].vup # 0

LEMMA PrivateIs ==
    ASSUME FsBounds, FsNames, Sound(m), NEW d \in Seq(GoodNames), Root \o d \in Seq(GoodNames),
           NEW n \in DOMAIN m.nodes, m.nodes[n].vup # 0, NEW k, NEW l,
           Walker(m, "virtual")[To(RootNode, d, 0)] = Found(n, k),
           Walker(m, "physical")[To(RootNode, Root \o d, 0)] = Found(n, l)
    PROVE  Private(d, n)
<1> DEFINE q == Root \o d
<1>1. Resolve(m, "virtual", RootNode, Abs(d), TRUE) = Walker(m, "virtual")[To(RootNode, d, 0)]
  BY FsNames, FromRoot
<1> HIDE DEF q
<1>2. Resolve(m, "physical", RootNode, Abs(q), TRUE) = Walker(m, "physical")[To(RootNode, q, 0)]
  BY FsNames, FromRoot DEF q
<1>3. Resolve(m, "virtual", RootNode, Abs(d), TRUE) = Found(n, k)
  BY <1>1
<1>4. Resolve(m, "physical", RootNode, Abs(q), TRUE) = Found(n, l)
  BY <1>2 DEF q
<1>5. Found(n, k).node = n /\ Found(n, k).err = "ok" /\ Found(n, l).node = n /\ Found(n, l).err = "ok"
  BY FoundIs
<1>6. /\ Resolve(m, "virtual", RootNode, Abs(d), TRUE).node = n
      /\ Resolve(m, "virtual", RootNode, Abs(d), TRUE).err = "ok"
  BY <1>3, <1>5
<1>7. /\ Resolve(m, "physical", RootNode, Abs(q), TRUE).node = n
      /\ Resolve(m, "physical", RootNode, Abs(q), TRUE).err = "ok"
  BY <1>4, <1>5
<1> QED
  BY <1>6, <1>7 DEF Private, q

\* Paths of one, two and three names.
LEMMA OneName ==
    ASSUME NEW a \in GoodNames
    PROVE  <<a>> \in Seq(GoodNames) /\ <<a>> \in Seq(Component) /\ <<a>> # <<>>
           /\ Head(<<a>>) = a /\ Tail(<<a>>) = <<>>
BY DEF GoodNames
LEMMA TwoNames ==
    ASSUME NEW a \in GoodNames, NEW b \in GoodNames
    PROVE  <<a, b>> \in Seq(GoodNames) /\ <<a, b>> \in Seq(Component) /\ <<a, b>> # <<>>
           /\ Head(<<a, b>>) = a /\ Tail(<<a, b>>) = <<b>>
BY DEF GoodNames
LEMMA ThreeNames ==
    ASSUME NEW a \in GoodNames, NEW b \in GoodNames, NEW c \in GoodNames
    PROVE  <<a, b, c>> \in Seq(GoodNames) /\ <<a, b, c>> \in Seq(Component) /\ <<a, b, c>> # <<>>
           /\ Head(<<a, b, c>>) = a /\ Tail(<<a, b, c>>) = <<b, c>>
BY DEF GoodNames
LEMMA OneThen ==
    ASSUME NEW r, NEW b
    PROVE  <<r>> \o <<b>> = <<r, b>>
<1> DEFINE s == <<r>>
           t == <<b>>
           u == <<r, b>>
           both == {r, b}
<1>1. s \in Seq(both) /\ t \in Seq(both) /\ u \in Seq(both)
  OBVIOUS
<1>2. Len(s) = 1 /\ Len(t) = 1 /\ s[1] = r /\ t[1] = b /\ Len(u) = 2 /\ u[1] = r /\ u[2] = b
  OBVIOUS
<1> HIDE DEF s, t, u, both
<1>3. s \o t \in Seq(both) /\ Len(s \o t) = 2
  BY <1>1, <1>2, ConcatProperties
<1>4. (s \o t)[1] = r /\ (s \o t)[2] = b
  <2>1. \A i \in 1..2 : (s \o t)[i] = IF i <= 1 THEN s[i] ELSE t[i - 1]
    BY <1>1, <1>2, ConcatProperties
  <2> QED BY <1>2, <2>1
<1>5. \A i \in 1..2 : (s \o t)[i] = u[i]
  BY <1>2, <1>4
<1>6. s \o t = u
  BY <1>1, <1>2, <1>3, <1>5, SeqEqual
<1> QED
  BY <1>6 DEF s, t, u
LEMMA OneThenTwo ==
    ASSUME NEW r, NEW b, NEW c
    PROVE  <<r>> \o <<b, c>> = <<r, b, c>>
<1> DEFINE s == <<r>>
           t == <<b, c>>
           u == <<r, b, c>>
           all == {r, b, c}
<1>1. s \in Seq(all) /\ t \in Seq(all) /\ u \in Seq(all)
  OBVIOUS
<1>2. /\ Len(s) = 1 /\ Len(t) = 2 /\ s[1] = r /\ t[1] = b /\ t[2] = c
      /\ Len(u) = 3 /\ u[1] = r /\ u[2] = b /\ u[3] = c
  OBVIOUS
<1> HIDE DEF s, t, u, all
<1> DEFINE l == s \o t
<1>0. /\ l \in Seq(all) /\ Len(l) = Len(s) + Len(t)
      /\ \A i \in 1..Len(s) + Len(t) : l[i] = IF i <= Len(s) THEN s[i] ELSE t[i - Len(s)]
  BY <1>1, ConcatProperties
<1> HIDE DEF l
<1>3. l \in Seq(all) /\ Len(l) = 3
  BY <1>0, <1>2
<1>4. l[1] = r /\ l[2] = b /\ l[3] = c
  <2>1. \A i \in 1..3 : l[i] = IF i <= 1 THEN s[i] ELSE t[i - 1]
    BY <1>0, <1>2
  <2> QED BY <1>2, <2>1
<1>5. \A i \in 1..3 : l[i] = u[i]
  <2>1. \A i \in 1..3 : i = 1 \/ i = 2 \/ i = 3
    OBVIOUS
  <2> QED BY <1>2, <1>4, <2>1
<1>6. l = u
  BY <1>1, <1>2, <1>3, <1>5, SeqEqual
<1> QED
  BY <1>6 DEF l, s, t, u
LEMMA RootMakes ==
    ASSUME FsBounds, FsNames, NEW b, NEW c
    PROVE  Root \o <<b>> = <<Root[1], b>> /\ Root \o <<b, c>> = <<Root[1], b, c>>
<1>1. Root \in Seq(Component) /\ Len(Root) = 1
  BY FsBounds, FsNames
<1> DEFINE r == Root[1]
<1>2. Root = <<r>>
  BY <1>1
<1>3. <<r>> \o <<b>> = <<r, b>> /\ <<r>> \o <<b, c>> = <<r, b, c>>
  <2> HIDE DEF r
  <2> QED BY OneThen, OneThenTwo
<1>4. Root \o <<b>> = <<r, b>> /\ Root \o <<b, c>> = <<r, b, c>>
  <2> HIDE DEF r
  <2> QED BY <1>2, <1>3
<1> QED
  BY <1>4
\* On macOS the process goes through the links /tmp and /var.
LEMMA MacPrivate ==
    ASSUME FsBounds, FsNames, Sound(m), Hosted(m), m.mac = TRUE
    PROVE  Private(<<"tmp">>, 9) /\ Private(<<"var", "tmp">>, 11)
<1>1. /\ Way(1, "private", 2) /\ Way(1, "tmp", 6) /\ Way(1, "var", 7) /\ Way(1, Root[1], 8)
      /\ Way(2, "var", 3) /\ Way(2, "tmp", 4) /\ Way(3, "tmp", 5)
      /\ Way(8, "tmp", 9) /\ Way(8, "var", 10) /\ Way(10, "tmp", 11)
      /\ m.nodes[6].kind = "link" /\ m.nodes[6].link = Rel(<<"private", "tmp">>)
      /\ m.nodes[7].kind = "link" /\ m.nodes[7].link = Rel(<<"private", "var">>)
  BY FsBounds, FsNames, MacWays
<1>2. /\ IsDir(m, 1) /\ IsDir(m, 2) /\ IsDir(m, 3) /\ IsDir(m, 4) /\ IsDir(m, 5) /\ IsDir(m, 8)
      /\ IsDir(m, 9) /\ IsDir(m, 10) /\ IsDir(m, 11)
  BY FsBounds, FsNames, MacWays
<1>3. /\ m.nodes[1].over = 0 /\ m.nodes[2].over = 0 /\ m.nodes[3].over = 0 /\ m.nodes[8].over = 0
      /\ m.nodes[9].over = 0 /\ m.nodes[10].over = 0 /\ m.nodes[11].over = 0
      /\ m.nodes[4].over = 9 /\ m.nodes[5].over = 11 /\ m.nodes[9].vup # 0 /\ m.nodes[11].vup # 0
  BY FsBounds, FsNames, MacWays
<1>4. /\ Enter(m, "virtual", 3) = 3 /\ Enter(m, "virtual", 4) = 9 /\ Enter(m, "virtual", 5) = 11
      /\ Enter(m, "virtual", 9) = 9 /\ Enter(m, "virtual", 11) = 11 /\ Enter(m, "physical", 9) = 9
      /\ Enter(m, "physical", 10) = 10 /\ Enter(m, "physical", 11) = 11
  BY <1>3 DEF Enter
<1>5. "private" \in GoodNames /\ "tmp" \in GoodNames /\ "var" \in GoodNames /\ Root[1] \in GoodNames
  BY <1>1 DEF Way
<1>6. 0 + 1 = 1 /\ 1 <= MaxLinks
  BY FsNames DEF FsNames
<1>7. Private(<<"tmp">>, 9)
  <2> DEFINE d == <<"tmp">>
             to == <<"private", "tmp">>
             q == Root \o d
  <2>1. /\ d \in Seq(GoodNames) /\ d \in Seq(Component) /\ d # <<>> /\ Head(d) = "tmp" /\ Tail(d) = <<>>
        /\ to \in Seq(GoodNames) /\ to # <<>> /\ q = <<Root[1], "tmp">> /\ q \in Seq(GoodNames)
    <3>1. /\ d \in Seq(GoodNames) /\ d \in Seq(Component) /\ d # <<>> /\ Head(d) = "tmp"
          /\ Tail(d) = <<>>
      BY <1>5, OneName
    <3>2. to \in Seq(GoodNames) /\ to # <<>>
      BY <1>5, TwoNames
    <3>3. q = <<Root[1], "tmp">>
      BY FsBounds, FsNames, RootMakes
    <3>4. <<Root[1], "tmp">> \in Seq(GoodNames)
      BY <1>5, TwoNames
    <3> HIDE DEF d, to, q
    <3> QED BY <3>1, <3>2, <3>3, <3>4
  <2>2. Walker(m, "virtual")[To(1, to, 1)] = Found(9, 1)
    BY <1>1, <1>2, <1>3, <1>4, FsNames, TwoWaysTo
  <2>3. Walker(m, "virtual")[To(1, d, 0)] = Walker(m, "virtual")[To(9, <<>>, 1)]
    <3>1. m.nodes[6].link = Rel(to)
      BY <1>1
    <3> HIDE DEF d, to
    <3>2. Walker(m, "virtual")[To(1, d, 0)] = Walker(m, "virtual")[To(Enter(m, "virtual", 9), Tail(d), 0 + 1)]
      BY <1>1, <1>2, <1>3, <1>6, <2>1, <2>2, <3>1, FsNames, LinkOn
    <3> QED BY <3>2, <1>4, <1>6, <2>1
  <2>4. Walker(m, "virtual")[To(9, <<>>, 1)] = Found(9, 1)
    BY <1>1, FsNames, NothingTo DEF Way
  <2>5. Walker(m, "physical")[To(1, q, 0)] = Found(9, 0)
    <3>1. Walker(m, "physical")[To(1, <<Root[1], "tmp">>, 0)] = Found(Enter(m, "physical", 9), 0)
      BY <1>1, <1>2, <1>3, FsNames, TwoWaysTo
    <3> QED BY <3>1, <1>4, <2>1
  <2>6. 9 \in DOMAIN m.nodes
    BY <1>1 DEF Way
  <2>7. /\ Walker(m, "virtual")[To(RootNode, d, 0)] = Found(9, 1)
        /\ Walker(m, "physical")[To(RootNode, Root \o d, 0)] = Found(9, 0)
        /\ Root \o d \in Seq(GoodNames) /\ m.nodes[9].vup # 0
    BY <1>3, <2>1, <2>3, <2>4, <2>5, <2>6 DEF RootNode
  <2> HIDE DEF d
  <2>8. Private(d, 9)
    BY <2>1, <2>6, <2>7, FsBounds, FsNames, PrivateIs
  <2> QED BY <2>8 DEF d
<1>8. Private(<<"var", "tmp">>, 11)
  <2> DEFINE d == <<"var", "tmp">>
             to == <<"private", "var">>
             q == Root \o d
  <2>1. /\ d \in Seq(GoodNames) /\ d \in Seq(Component) /\ d # <<>> /\ Head(d) = "var"
        /\ Tail(d) = <<"tmp">> /\ to \in Seq(GoodNames) /\ to # <<>> /\ q = <<Root[1], "var", "tmp">>
        /\ q \in Seq(GoodNames) /\ q \in Seq(Component) /\ q # <<>> /\ Head(q) = Root[1]
        /\ Tail(q) = <<"var", "tmp">>
    <3>1. /\ d \in Seq(GoodNames) /\ d \in Seq(Component) /\ d # <<>> /\ Head(d) = "var"
          /\ Tail(d) = <<"tmp">>
      BY <1>5, TwoNames
    <3>2. to \in Seq(GoodNames) /\ to # <<>>
      BY <1>5, TwoNames
    <3>3. q = <<Root[1], "var", "tmp">>
      BY FsBounds, FsNames, RootMakes
    <3> DEFINE ns == <<Root[1], "var", "tmp">>
    <3>4. /\ ns \in Seq(GoodNames) /\ ns \in Seq(Component) /\ ns # <<>> /\ Head(ns) = Root[1]
          /\ Tail(ns) = <<"var", "tmp">>
      BY <1>5, ThreeNames
    <3> HIDE DEF d, to, q
    <3> QED BY <3>1, <3>2, <3>3, <3>4
  <2>2. Walker(m, "virtual")[To(1, to, 1)] = Found(3, 1)
    BY <1>1, <1>2, <1>3, <1>4, FsNames, TwoWaysTo
  <2>3. Walker(m, "virtual")[To(1, d, 0)] = Walker(m, "virtual")[To(3, <<"tmp">>, 1)]
    <3>1. m.nodes[7].link = Rel(to)
      BY <1>1
    <3> HIDE DEF d, to
    <3>2. Walker(m, "virtual")[To(1, d, 0)] = Walker(m, "virtual")[To(Enter(m, "virtual", 3), Tail(d), 0 + 1)]
      BY <1>1, <1>2, <1>3, <1>6, <2>1, <2>2, <3>1, FsNames, LinkOn
    <3> QED BY <3>2, <1>4, <1>6, <2>1
  <2>4. Walker(m, "virtual")[To(3, <<"tmp">>, 1)] = Found(11, 1)
    <3> DEFINE name == "tmp"
               view == "virtual"
               one == 1
               from == 3
               dir == 5
    <3>1. Way(from, name, dir) /\ IsDir(m, dir) /\ one \in Nat
      BY <1>1, <1>2
    <3>2. Walker(m, view)[To(from, <<name>>, one)] = Found(Enter(m, view, dir), one)
      <4> HIDE DEF name, view, one, from, dir
      <4> QED BY <3>1, FsNames, WayTo
    <3> QED BY <3>2, <1>4
  <2>5. Walker(m, "physical")[To(1, q, 0)] = Found(11, 0)
    <3>1. Enter(m, "physical", 8) = 8
      BY DEF Enter
    <3>2. Walker(m, "physical")[To(1, q, 0)] = Walker(m, "physical")[To(8, <<"var", "tmp">>, 0)]
      <4> DEFINE r == Root[1]
                 view == "physical"
                 none == 0
      <4>1. /\ Way(1, r, 8) /\ IsDir(m, 8) /\ q \in Seq(Component) /\ q # <<>> /\ Head(q) = r
            /\ none \in Nat
        BY <1>1, <1>2, <2>1
      <4>2. Walker(m, view)[To(1, q, none)] = Walker(m, view)[To(Enter(m, view, 8), Tail(q), none)]
        <5> HIDE DEF q, r, view, none
        <5> QED BY <4>1, FsNames, WayOn
      <4>3. Tail(q) = <<"var", "tmp">> /\ Enter(m, "physical", 8) = 8
        BY <3>1, <2>1
      <4> HIDE DEF q
      <4> QED BY <4>2, <4>3
    <3>3. Walker(m, "physical")[To(8, <<"var", "tmp">>, 0)] = Found(Enter(m, "physical", 11), 0)
      BY <1>1, <1>2, <1>3, FsNames, TwoWaysTo
    <3> QED BY <3>2, <3>3, <1>4
  <2>6. 11 \in DOMAIN m.nodes
    BY <1>1 DEF Way
  <2>7. /\ Walker(m, "virtual")[To(RootNode, d, 0)] = Found(11, 1)
        /\ Walker(m, "physical")[To(RootNode, Root \o d, 0)] = Found(11, 0)
        /\ Root \o d \in Seq(GoodNames) /\ m.nodes[11].vup # 0
    BY <1>3, <2>1, <2>3, <2>4, <2>5, <2>6 DEF RootNode
  <2> HIDE DEF d
  <2>8. Private(d, 11)
    BY <2>1, <2>6, <2>7, FsBounds, FsNames, PrivateIs
  <2> QED BY <2>8 DEF d
<1> QED
  BY <1>7, <1>8

LEMMA LinuxPrivate ==
    ASSUME FsBounds, FsNames, Sound(m), Hosted(m), m.mac = FALSE
    PROVE  Private(<<"tmp">>, 6) /\ Private(<<"var", "tmp">>, 8)
<1>1. /\ Way(1, "tmp", 2) /\ Way(1, "var", 3) /\ Way(1, Root[1], 5) /\ Way(3, "tmp", 4)
      /\ Way(5, "tmp", 6) /\ Way(5, "var", 7) /\ Way(7, "tmp", 8)
  BY FsBounds, FsNames, LinuxWays
<1>2. /\ IsDir(m, 1) /\ IsDir(m, 2) /\ IsDir(m, 3) /\ IsDir(m, 4) /\ IsDir(m, 5) /\ IsDir(m, 6)
      /\ IsDir(m, 7) /\ IsDir(m, 8)
  BY FsBounds, FsNames, LinuxWays
<1>3. /\ m.nodes[1].over = 0 /\ m.nodes[3].over = 0 /\ m.nodes[5].over = 0
      /\ m.nodes[6].over = 0 /\ m.nodes[7].over = 0 /\ m.nodes[8].over = 0
      /\ m.nodes[2].over = 6 /\ m.nodes[4].over = 8 /\ m.nodes[6].vup # 0 /\ m.nodes[8].vup # 0
  BY FsBounds, FsNames, LinuxWays
<1>4. /\ Enter(m, "virtual", 2) = 6 /\ Enter(m, "virtual", 4) = 8 /\ Enter(m, "physical", 5) = 5
      /\ Enter(m, "physical", 6) = 6 /\ Enter(m, "physical", 8) = 8
  BY <1>3 DEF Enter
<1>5. "tmp" \in GoodNames /\ "var" \in GoodNames /\ Root[1] \in GoodNames
  BY <1>1 DEF Way
<1>6. Private(<<"tmp">>, 6)
  <2> DEFINE d == <<"tmp">>
             q == Root \o d
  <2>1. d \in Seq(GoodNames) /\ q = <<Root[1], "tmp">> /\ q \in Seq(GoodNames)
    <3>1. d \in Seq(GoodNames)
      BY <1>5, OneName
    <3>2. q = <<Root[1], "tmp">>
      BY FsBounds, FsNames, RootMakes
    <3>3. <<Root[1], "tmp">> \in Seq(GoodNames)
      BY <1>5, TwoNames
    <3> HIDE DEF d, q
    <3> QED BY <3>1, <3>2, <3>3
  <2>2. Walker(m, "virtual")[To(1, d, 0)] = Found(6, 0)
    <3> DEFINE name == "tmp"
               view == "virtual"
               none == 0
    <3>1. Way(1, name, 2) /\ IsDir(m, 2) /\ none \in Nat
      BY <1>1, <1>2
    <3>2. Walker(m, view)[To(1, <<name>>, none)] = Found(Enter(m, view, 2), none)
      <4> HIDE DEF name, view, none
      <4> QED BY <3>1, FsNames, WayTo
    <3> QED BY <3>2, <1>4
  <2>3. Walker(m, "physical")[To(1, q, 0)] = Found(6, 0)
    <3>1. Walker(m, "physical")[To(1, <<Root[1], "tmp">>, 0)] = Found(Enter(m, "physical", 6), 0)
      BY <1>1, <1>2, <1>3, FsNames, TwoWaysTo
    <3> QED BY <3>1, <1>4, <2>1
  <2>4. 6 \in DOMAIN m.nodes
    BY <1>1 DEF Way
  <2>5. /\ Walker(m, "virtual")[To(RootNode, d, 0)] = Found(6, 0)
        /\ Walker(m, "physical")[To(RootNode, Root \o d, 0)] = Found(6, 0)
        /\ Root \o d \in Seq(GoodNames) /\ m.nodes[6].vup # 0
    BY <1>3, <2>1, <2>2, <2>3, <2>4 DEF RootNode
  <2> HIDE DEF d
  <2>6. Private(d, 6)
    BY <2>1, <2>4, <2>5, FsBounds, FsNames, PrivateIs
  <2> QED BY <2>6 DEF d
<1>7. Private(<<"var", "tmp">>, 8)
  <2> DEFINE d == <<"var", "tmp">>
             q == Root \o d
  <2>1. /\ d \in Seq(GoodNames) /\ q = <<Root[1], "var", "tmp">>
        /\ q \in Seq(GoodNames) /\ q \in Seq(Component) /\ q # <<>> /\ Head(q) = Root[1]
        /\ Tail(q) = <<"var", "tmp">>
    <3>1. d \in Seq(GoodNames)
      BY <1>5, TwoNames
    <3>2. q = <<Root[1], "var", "tmp">>
      BY FsBounds, FsNames, RootMakes
    <3> DEFINE ns == <<Root[1], "var", "tmp">>
    <3>3. /\ ns \in Seq(GoodNames) /\ ns \in Seq(Component) /\ ns # <<>> /\ Head(ns) = Root[1]
          /\ Tail(ns) = <<"var", "tmp">>
      BY <1>5, ThreeNames
    <3> HIDE DEF d, q
    <3> QED BY <3>1, <3>2, <3>3
  <2>2. Walker(m, "virtual")[To(1, d, 0)] = Found(8, 0)
    <3>1. Walker(m, "virtual")[To(1, <<"var", "tmp">>, 0)] = Found(Enter(m, "virtual", 4), 0)
      BY <1>1, <1>2, <1>3, FsNames, TwoWaysTo
    <3> QED BY <3>1, <1>4
  <2>3. Walker(m, "physical")[To(1, q, 0)] = Found(8, 0)
    <3>2. Walker(m, "physical")[To(1, q, 0)] = Walker(m, "physical")[To(5, <<"var", "tmp">>, 0)]
      <4> DEFINE r == Root[1]
                 view == "physical"
                 none == 0
      <4>1. /\ Way(1, r, 5) /\ IsDir(m, 5) /\ q \in Seq(Component) /\ q # <<>> /\ Head(q) = r
            /\ none \in Nat
        BY <1>1, <1>2, <2>1
      <4>2. Walker(m, view)[To(1, q, none)] = Walker(m, view)[To(Enter(m, view, 5), Tail(q), none)]
        <5> HIDE DEF q, r, view, none
        <5> QED BY <4>1, FsNames, WayOn
      <4>3. Tail(q) = <<"var", "tmp">> /\ Enter(m, "physical", 5) = 5
        BY <1>4, <2>1
      <4> HIDE DEF q
      <4> QED BY <4>2, <4>3
    <3>3. Walker(m, "physical")[To(5, <<"var", "tmp">>, 0)] = Found(Enter(m, "physical", 8), 0)
      BY <1>1, <1>2, <1>3, FsNames, TwoWaysTo
    <3> QED BY <3>2, <3>3, <1>4
  <2>4. 8 \in DOMAIN m.nodes
    BY <1>1 DEF Way
  <2>5. /\ Walker(m, "virtual")[To(RootNode, d, 0)] = Found(8, 0)
        /\ Walker(m, "physical")[To(RootNode, Root \o d, 0)] = Found(8, 0)
        /\ Root \o d \in Seq(GoodNames) /\ m.nodes[8].vup # 0
    BY <1>3, <2>1, <2>2, <2>3, <2>4 DEF RootNode
  <2> HIDE DEF d
  <2>6. Private(d, 8)
    BY <2>1, <2>4, <2>5, FsBounds, FsNames, PrivateIs
  <2> QED BY <2>6 DEF d
<1> QED
  BY <1>6, <1>7

\* The comparison of the trees of a run reads the same files through the
\* process's view and below the workspace's root.
THEOREM ViewsShowOneTree == FsSpec => []TreesAgree
<1>1. FsInit => Sound(m) /\ Hosted(m)
  BY FirstIsSound, HostedFirst
<1>2. Sound(m) /\ Hosted(m) /\ [FsNext]_fsVars => (Sound(m) /\ Hosted(m))'
  BY SoundIsKept, HostedNext
<1>3. Sound(m) /\ Hosted(m) => TreesAgree
  <2> SUFFICES ASSUME Sound(m), Hosted(m), NEW d \in {<<"tmp">>, <<"var", "tmp">>}
               PROVE  Tree(m, "virtual", Abs(d)) = Tree(m, "physical", Abs(Root \o d))
    BY DEF TreesAgree
  <2>1. \E n : Private(d, n)
    <3>1. m.mac = TRUE \/ m.mac = FALSE
      BY DEF Sound, ModelOK
    <3>2. CASE m.mac = TRUE
      BY <3>2, FsBounds, FsNames, MacPrivate
    <3>3. CASE m.mac = FALSE
      BY <3>3, FsBounds, FsNames, LinuxPrivate
    <3> QED BY <3>1, <3>2, <3>3
  <2>2. PICK n : Private(d, n)
    BY <2>1
  <2>3. Tree(m, "virtual", Abs(d)) = Below(m, "virtual", n)
    BY <2>2 DEF Tree, Private
  <2>4. Tree(m, "physical", Abs(Root \o d)) = Below(m, "physical", n)
    BY <2>2 DEF Tree, Private
  <2>5. Below(m, "virtual", n) = Below(m, "physical", n)
    BY <2>2, FsBounds, FsNames, BelowAlike DEF Private
  <2> QED BY <2>3, <2>4, <2>5
<1> QED
  BY <1>1, <1>2, <1>3, PTL DEF FsSpec

\* So every call, and the comparison of the trees, gives one account of a state.
THEOREM CallsAgreeAlways == FsSpec => []CallsAgree
BY CallsGiveOneAccount, ViewsShowOneTree, PTL DEF CallsAgree

=============================================================================
