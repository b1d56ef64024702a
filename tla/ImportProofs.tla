---------------------------- MODULE ImportProofs ----------------------------
(***************************************************************************)
(* TLAPS proofs about Import, for any number of imports and of changes to  *)
(* the source.  Inv is inductive: a stream ends with its finish, what was  *)
(* received is what the stream says up to there, and a tree that is in     *)
(* place gives way to another only if it is empty.  Snap is inductive with *)
(* it: what the reader has of an inode that shows no change is true.       *)
(***************************************************************************)
EXTENDS Import, SequenceTheorems, TLAPS

\* Sequences of anything.
IsSeq(s) == \E S : s \in Seq(S)

-----------------------------------------------------------------------------
(* The invariant                                                           *)

WalkFields == {"pc", "stack", "ino", "path", "time", "len", "got", "out", "count"}
GuestFields == {"pc", "at", "staging", "staged", "path", "data", "left", "open", "count",
                "finished", "cut"}

\* The directories of a source lead to its nodes.
Tree(s) ==
    \A j \in DOMAIN s :
        /\ DOMAIN s[j] = {"kind", "data", "time", "ents"}
        /\ IsSeq(s[j].data)
        /\ \A n \in DOMAIN s[j].ents : s[j].ents[n] \in DOMAIN s

Types == {"directory", "file", "symlink", "data", "end_file", "finish"}
Kinds == {"directory", "file", "symlink"}

\* A stream ends with its finish, if it has one.
Stream(s) ==
    /\ IsSeq(s)
    /\ \A k \in 1..Len(s) :
        /\ s[k].type \in Types
        /\ s[k].type = "file" => s[k].data \in Nat
        /\ s[k].type = "finish" => k = Len(s)
Unfinished(s) == \A k \in 1..Len(s) : s[k].type # "finish"

Walking == {"list", "next", "link", "open", "read"}
WalkOK ==
    /\ Top \in DOMAIN nodes /\ DOMAIN walk = WalkFields
    /\ IsSeq(walk.stack)
    /\ \A k \in 1..Len(walk.stack) :
        /\ DOMAIN walk.stack[k] = {"dir", "time", "left", "seen"}
        /\ walk.stack[k].dir \in DOMAIN nodes
    /\ walk.pc \in Walking => Len(walk.stack) >= 1
    /\ Stream(walk.out)
    /\ walk.pc # "done" => Unfinished(walk.out)

Shape ==
    /\ guest = [i \in Imports |-> guest[i]]
    /\ client = [i \in Imports |-> client[i]]
    /\ sent = [i \in Imports |-> sent[i]]
    /\ \A i \in Imports : DOMAIN guest[i] = GuestFields
    /\ DOMAIN ws = {"mine", "by", "tree", "synced"}
    /\ ws.by \in Imports \cup {0}

\* What the records 1..n of a stream say of the tree.
Item(s, k) ==
    [path |-> s[k].path, kind |-> s[k].type,
     data |-> IF s[k].type # "file" THEN <<s[k].data>>
              ELSE [j \in 1..s[k].data |-> s[k + j].data]]
Upto(s, n) == {Item(s, k) : k \in {k \in 1..n : s[k].type \in Kinds}}

\* An open file is the record before its data.
Opening(g, s) ==
    LET f == g.at - Len(g.data) IN
    /\ IsSeq(g.data) /\ g.left \in Nat
    /\ f \in 1..g.at /\ s[f].type = "file" /\ s[f].path = g.path
    /\ g.left + Len(g.data) = s[f].data
    /\ \A j \in 1..Len(g.data) : g.data[j] = s[f + j].data /\ s[f + j].type \notin Kinds
    /\ g.staging = Upto(s, f - 1)

Received(g, s) ==
    /\ g.at \in 0..Len(s)
    /\ g.open \in BOOLEAN /\ g.finished \in BOOLEAN
    /\ g.open => Opening(g, s)
    /\ ~g.open => g.staging = Upto(s, g.at)
    /\ g.finished => ~g.open /\ g.at >= 1 /\ s[g.at].type = "finish"

\* The process in the VM has what the stream says, and has not published it.
Unpublished == {"none", "check", "receive", "recheck", "publish", "truncated"}
Receiving(i) ==
    /\ guest[i].pc = "none" => guest[i] = NoGuest
    /\ guest[i].pc = "check" => guest[i] = [NoGuest EXCEPT !.pc = "check"]
    /\ guest[i].pc = "receive" => Received(guest[i], sent[i])
    /\ guest[i].pc \in {"recheck", "publish"} => guest[i].staging = Contents(sent[i])
    /\ guest[i].pc \in Unpublished => ws.by # i
    /\ guest[i].staged => guest[i].pc \in {"receive", "recheck", "publish"}

\* A tree that was put in place is there, or was empty.
InPlace(i) == Contents(sent[i]) \in {{}, ws.tree}
Published(i) ==
    /\ guest[i].pc = "sync" => InPlace(i)
    /\ guest[i].pc = "imported" \/ client[i].answer = "imported" =>
          InPlace(i) /\ (Contents(sent[i]) = {} \/ ws.synced)

\* What the client was told.
Told(i) ==
    /\ client[i].pc \in {"idle", "walk"} => guest[i].pc = "none"
    /\ client[i].answer = "cancelled" => guest[i].pc = "none"
    /\ client[i].answer = "truncated" => guest[i].pc \in {"truncated", "lost"} /\ ws.by # i

ImportOK(i) == Stream(sent[i]) /\ Receiving(i) /\ Published(i) /\ Told(i)
Guests == \A i \in Imports : ImportOK(i)

Inv == Tree(nodes) /\ WalkOK /\ Shape /\ AllOrNothing /\ Guests

-----------------------------------------------------------------------------
(* Sequences                                                               *)

LEMMA Appended ==
  ASSUME NEW s, IsSeq(s), NEW r
  PROVE  /\ IsSeq(Append(s, r)) /\ Len(s) \in Nat /\ Len(Append(s, r)) = Len(s) + 1
         /\ Append(s, r)[Len(s) + 1] = r
         /\ \A k \in 1..Len(s) : Append(s, r)[k] = s[k]
<1>1. PICK S : s \in Seq(S)
  BY DEF IsSeq
<1>2. s \in Seq(S \cup {r})
  BY <1>1
<1>3. Append(s, r) \in Seq(S \cup {r})
  BY <1>2
<1>4. Len(s) \in Nat /\ Len(Append(s, r)) = Len(s) + 1 /\ Append(s, r)[Len(s) + 1] = r
  BY <1>2, <1>3
<1>5. \A k \in 1..Len(s) : Append(s, r)[k] = s[k]
  BY <1>2, <1>3
<1> QED
  BY <1>3, <1>4, <1>5 DEF IsSeq

LEMMA Fronted ==
  ASSUME NEW s, IsSeq(s), Len(s) >= 1
  PROVE  /\ IsSeq(Front(s)) /\ Len(Front(s)) = Len(s) - 1
         /\ \A k \in 1..(Len(s) - 1) : Front(s)[k] = s[k]
<1>1. PICK S : s \in Seq(S)
  BY DEF IsSeq
<1>2. Front(s) = SubSeq(s, 1, Len(s) - 1)
  BY DEF Front
<1> DEFINE n == Len(s) - 1
<1>5. n \in Nat /\ \A k \in 1..n : s[k] \in S
  BY <1>1
<1> HIDE DEF n
<1>6. SubSeq(s, 1, n) \in Seq(S) /\ Len(SubSeq(s, 1, n)) = n
  BY <1>5, SubSeqProperties
<1>3. Front(s) \in Seq(S) /\ Len(Front(s)) = Len(s) - 1
  BY <1>2, <1>6 DEF n
<1>4. \A k \in 1..(Len(s) - 1) : Front(s)[k] = s[k]
  BY <1>1, <1>2
<1> QED
  BY <1>3, <1>4 DEF IsSeq

LEMMA Replaced ==
  ASSUME NEW s, IsSeq(s), NEW r, DOMAIN r = DOMAIN s, r = [j \in DOMAIN r |-> r[j]]
  PROVE  IsSeq(r) /\ Len(r) = Len(s)
<1>1. PICK S : s \in Seq(S)
  BY DEF IsSeq
<1> DEFINE T == {r[j] : j \in DOMAIN r}
<1>2. Len(s) \in Nat /\ DOMAIN r = 1..Len(s)
  BY <1>1
<1>3. r \in [1..Len(s) -> T]
  BY <1>2
<1> HIDE DEF T
<1>4. r \in Seq(T) /\ Len(r) = Len(s)
  BY <1>2, <1>3
<1> QED
  BY <1>4 DEF IsSeq

LEMMA SeqFacts ==
  /\ IsSeq(<<>>) /\ Len(<<>>) = 0
  /\ \A x : IsSeq(<<x>>)
  /\ \A s : IsSeq(s) => Len(s) \in Nat /\ DOMAIN s = 1..Len(s) /\ s = [k \in 1..Len(s) |-> s[k]]
<1>1. <<>> \in Seq({}) /\ Len(<<>>) = 0
  OBVIOUS
<1>2. \A x : <<x>> \in Seq({x})
  OBVIOUS
<1>3. ASSUME NEW s, IsSeq(s)
      PROVE  Len(s) \in Nat /\ DOMAIN s = 1..Len(s) /\ s = [k \in 1..Len(s) |-> s[k]]
  BY <1>3 DEF IsSeq
<1> QED
  BY <1>1, <1>2, <1>3 DEF IsSeq

-----------------------------------------------------------------------------
(* The source and its reader                                               *)

LEMMA Edits ==
  ASSUME Tree(nodes), Sources
  PROVE  Tree(nodes') /\ DOMAIN nodes \subseteq DOMAIN nodes'
<1>1. ASSUME NEW s, NEW is, Tree(s), DOMAIN nodes \subseteq DOMAIN s, Edit(s, is)
      PROVE  Tree(nodes') /\ DOMAIN nodes \subseteq DOMAIN nodes'
  <2>1. DOMAIN nodes' = DOMAIN s
    BY <1>1 DEF Edit
  <2>2. \A j \in DOMAIN s : /\ DOMAIN nodes'[j] = DOMAIN s[j]
                            /\ nodes'[j].data = s[j].data /\ nodes'[j].ents = s[j].ents
    BY <1>1 DEF Edit, Tree
  <2> QED
    BY <1>1, <2>1, <2>2 DEF Tree
<1>2. ASSUME NEW i \in DOMAIN nodes, WriteChunk(i)
      PROVE  Tree(nodes') /\ DOMAIN nodes \subseteq DOMAIN nodes'
  <2>1. PICK k \in DOMAIN nodes[i].data : Edit([nodes EXCEPT ![i].data[k] = 1 - @], {i})
    BY <1>2 DEF WriteChunk
  <2> DEFINE s == [nodes EXCEPT ![i].data[k] = 1 - @]
             v == 1 - nodes[i].data[k]
  <2>2. s[i].data = [nodes[i].data EXCEPT ![k] = v] /\ s[i].ents = nodes[i].ents
        /\ DOMAIN s[i] = DOMAIN nodes[i] /\ DOMAIN s = DOMAIN nodes
        /\ \A j \in DOMAIN nodes : j # i => s[j] = nodes[j]
    BY DEF Tree
  <2>3. IsSeq(nodes[i].data) /\ k \in 1..Len(nodes[i].data)
    BY <2>1, SeqFacts DEF Tree
  <2>4. IsSeq(s[i].data)
    <3> DEFINE t == [nodes[i].data EXCEPT ![k] = v]
    <3>1. DOMAIN t = DOMAIN nodes[i].data /\ t = [j \in DOMAIN t |-> t[j]]
      OBVIOUS
    <3> HIDE DEF t
    <3>2. IsSeq(t)
      BY <2>3, <3>1, Replaced
    <3> QED
      BY <2>2, <3>2 DEF t
  <2>5. Tree(s)
    BY <2>2, <2>4 DEF Tree
  <2> HIDE DEF s
  <2> QED
    BY <1>1, <2>1, <2>2, <2>5 DEF s
<1>3. ASSUME NEW i \in DOMAIN nodes, Truncate(i)
      PROVE  Tree(nodes') /\ DOMAIN nodes \subseteq DOMAIN nodes'
  <2> DEFINE s == [nodes EXCEPT ![i].data = Front(@)]
  <2>1. Edit(s, {i}) /\ nodes[i].data # <<>>
    BY <1>3 DEF Truncate
  <2>2. s[i].data = Front(nodes[i].data) /\ s[i].ents = nodes[i].ents
        /\ DOMAIN s[i] = DOMAIN nodes[i] /\ DOMAIN s = DOMAIN nodes
        /\ \A j \in DOMAIN nodes : j # i => s[j] = nodes[j]
    BY DEF Tree
  <2>3. IsSeq(nodes[i].data) /\ Len(nodes[i].data) >= 1
    <3>1. PICK S : nodes[i].data \in Seq(S)
      BY DEF Tree, IsSeq
    <3> QED
      BY <2>1, <3>1 DEF IsSeq
  <2>4. Tree(s)
    BY <2>2, <2>3, Fronted DEF Tree
  <2> HIDE DEF s
  <2> QED
    BY <1>1, <2>1, <2>2, <2>4
<1>4. ASSUME NEW d \in DOMAIN nodes, NEW n \in DOMAIN Ents(d), Unlink(d, n)
      PROVE  Tree(nodes') /\ DOMAIN nodes \subseteq DOMAIN nodes'
  <2> DEFINE s == [nodes EXCEPT ![d].ents = Without(@, n)]
  <2>1. s[d].data = nodes[d].data /\ s[d].ents = Without(nodes[d].ents, n)
        /\ DOMAIN s[d] = DOMAIN nodes[d] /\ DOMAIN s = DOMAIN nodes
        /\ \A j \in DOMAIN nodes : j # d => s[j] = nodes[j]
    BY DEF Tree
  <2>2. Tree(s)
    BY <2>1 DEF Tree, Without
  <2>3. Edit(s, {d, Ents(d)[n]})
    BY <1>4 DEF Unlink
  <2> HIDE DEF s
  <2> QED
    BY <1>1, <2>1, <2>2, <2>3
<1>5. ASSUME NEW d \in DOMAIN nodes, NEW j \in Spare \ DOMAIN nodes, Create(d, "a", j)
      PROVE  Tree(nodes') /\ DOMAIN nodes \subseteq DOMAIN nodes'
  <2>1. PICK new \in {File(<<1>>), Other("link"), Other("special")} :
          Edit([With(nodes, j, new) EXCEPT ![d].ents = With(@, "a", j)],
               {d, j} \cup IF "a" \in DOMAIN Ents(d) THEN {Ents(d)["a"]} ELSE {})
    BY <1>5 DEF Create
  <2>2. /\ DOMAIN new = {"kind", "data", "time", "ents"} /\ IsSeq(new.data) /\ DOMAIN new.ents = {}
    BY SeqFacts DEF File, Other
  <2> DEFINE t == With(nodes, j, new)
             s == [t EXCEPT ![d].ents = With(@, "a", j)]
  <2>3. DOMAIN t = DOMAIN nodes \cup {j} /\ t[j] = new /\ \A k \in DOMAIN nodes : t[k] = nodes[k]
    BY DEF With
  <2>4. DOMAIN t[d] = {"kind", "data", "time", "ents"} /\ t[d] = nodes[d]
    BY <2>3 DEF Tree
  <2>5. s[d].data = nodes[d].data /\ s[d].ents = With(nodes[d].ents, "a", j)
        /\ DOMAIN s[d] = DOMAIN nodes[d] /\ DOMAIN s = DOMAIN t
        /\ \A k \in DOMAIN t : k # d => s[k] = t[k]
    BY <2>3, <2>4 DEF Tree
  <2> HIDE DEF s, t
  <2>6. \A n \in DOMAIN s[d].ents : s[d].ents[n] \in DOMAIN s
    BY <2>3, <2>5 DEF With, Tree
  <2>7. Tree(s)
    BY <2>2, <2>3, <2>4, <2>5, <2>6 DEF Tree
  <2> QED
    BY <1>1, <2>1, <2>3, <2>5, <2>7 DEF s, t
<1> QED
  BY <1>2, <1>3, <1>4, <1>5 DEF Sources

\* One more record that is not the finish, or the finish as the last one.
LEMMA Longer ==
  ASSUME NEW s, Stream(s), Unfinished(s), NEW r, r.type \in Types,
         r.type = "file" => r.data \in Nat
  PROVE  Stream(Append(s, r)) /\ (r.type # "finish" => Unfinished(Append(s, r)))
<1>1. /\ IsSeq(Append(s, r)) /\ Len(s) \in Nat /\ Len(Append(s, r)) = Len(s) + 1
      /\ Append(s, r)[Len(s) + 1] = r
      /\ \A k \in 1..Len(s) : Append(s, r)[k] = s[k]
  BY Appended DEF Stream
<1>2. \A k \in 1..(Len(s) + 1) : k \in 1..Len(s) \/ k = Len(s) + 1
  BY <1>1
<1> QED
  BY <1>1, <1>2 DEF Stream, Unfinished

\* What a step of the reader may do to its frames and to its stream.
Frames(t) ==
    /\ IsSeq(t)
    /\ \A k \in 1..Len(t) :
        DOMAIN t[k] = {"dir", "time", "left", "seen"} /\ t[k].dir \in DOMAIN nodes

LEMMA NextWalk ==
  ASSUME WalkOK, NEW w, walk' = w, DOMAIN w = WalkFields, DOMAIN nodes \subseteq DOMAIN nodes',
         Frames(w.stack), w.pc \in Walking => Len(w.stack) >= 1,
         Stream(w.out), w.pc # "done" => Unfinished(w.out)
  PROVE  WalkOK'
  BY DEF WalkOK, Frames

\* The entry at the top is done: frame f becomes g.
Topmost(w) == w.stack[Len(w.stack)]
PassedFrame(f, g, ino) ==
    /\ g.dir = f.dir /\ g.time = f.time /\ g.left = Tail(f.left)
    /\ g.seen = With(f.seen, Head(f.left), ino)

LEMMA Passed ==
  ASSUME NEW w, DOMAIN w = WalkFields, Frames(w.stack), Len(w.stack) >= 1, NEW ino
  PROVE  /\ DOMAIN Past(w, ino) = WalkFields /\ Past(w, ino).pc = "next"
         /\ Past(w, ino).out = w.out
         /\ Frames(Past(w, ino).stack) /\ Len(Past(w, ino).stack) >= 1
         /\ Len(Past(w, ino).stack) = Len(w.stack)
         /\ \A k \in 1..Len(w.stack) : k # Len(w.stack) => Past(w, ino).stack[k] = w.stack[k]
         /\ PassedFrame(Topmost(w), Topmost(Past(w, ino)), ino)
<1> DEFINE n == Len(w.stack)
           one == [w.stack[n] EXCEPT !.left = Tail(@)]
           s1 == [w.stack EXCEPT ![n] = one]
           two == [s1[n] EXCEPT !.seen = With(@, Head(w.stack[n].left), ino)]
           s2 == [s1 EXCEPT ![n] = two]
<1>1. n \in 1..Len(w.stack)
  BY SeqFacts DEF Frames
<1>2. /\ DOMAIN Past(w, ino) = WalkFields /\ Past(w, ino).pc = "next"
      /\ Past(w, ino).out = w.out
  BY DEF Past, WalkFields
<1>3. Past(w, ino).stack = s2
  <2>1. Past(w, ino) = [[[w EXCEPT !.pc = "next"] EXCEPT !.stack = s1] EXCEPT !.stack = s2]
    BY <1>1 DEF Past, WalkFields
  <2> QED
    BY <2>1 DEF WalkFields
<1>4. /\ DOMAIN one = {"dir", "time", "left", "seen"} /\ one.dir = w.stack[n].dir
      /\ one.time = w.stack[n].time /\ one.seen = w.stack[n].seen
      /\ one.left = Tail(w.stack[n].left)
  BY <1>1 DEF Frames
<1> HIDE DEF one
<1>9. IsSeq(w.stack) /\ DOMAIN w.stack = 1..Len(w.stack)
  BY SeqFacts DEF Frames
<1>5. /\ DOMAIN s1 = DOMAIN w.stack /\ s1 = [j \in DOMAIN s1 |-> s1[j]] /\ s1[n] = one
      /\ \A j \in DOMAIN w.stack : j # n => s1[j] = w.stack[j]
  BY <1>1, <1>9
<1>11. /\ DOMAIN s2 = DOMAIN s1 /\ s2 = [j \in DOMAIN s2 |-> s2[j]] /\ s2[n] = two
       /\ \A j \in DOMAIN s1 : j # n => s2[j] = s1[j]
  BY <1>1, <1>5, <1>9
<1> HIDE DEF s1, s2, two
<1>6. /\ DOMAIN two = {"dir", "time", "left", "seen"} /\ two.dir = w.stack[n].dir
      /\ two.time = w.stack[n].time /\ two.left = Tail(w.stack[n].left)
      /\ two.seen = With(w.stack[n].seen, Head(w.stack[n].left), ino)
  BY <1>4, <1>5 DEF two
<1>7. IsSeq(s2) /\ Len(s2) = Len(w.stack)
  BY <1>5, <1>9, <1>11, Replaced
<1>8. Frames(s2) /\ Len(s2) >= 1
  BY <1>1, <1>5, <1>6, <1>7, <1>9, <1>11 DEF Frames
<1>10. /\ \A k \in 1..Len(w.stack) : k # n => s2[k] = w.stack[k]
       /\ Topmost(w) = w.stack[n] /\ Topmost(Past(w, ino)) = two
  BY <1>1, <1>3, <1>5, <1>7, <1>9, <1>11 DEF Topmost
<1>12. PassedFrame(Topmost(w), Topmost(Past(w, ino)), ino)
  BY <1>6, <1>10 DEF PassedFrame
<1> QED
  BY <1>2, <1>3, <1>7, <1>8, <1>10, <1>12

LEMMA Emits ==
  ASSUME NEW w, DOMAIN w = WalkFields, NEW r
  PROVE  /\ DOMAIN Emit(w, r) = WalkFields /\ Emit(w, r).out = Append(w.out, r)
         /\ Emit(w, r).stack = w.stack /\ Emit(w, r).pc = w.pc
  BY DEF Emit, WalkFields

LEMMA WalkerNext ==
  ASSUME Tree(nodes), WalkOK, Walker
  PROVE  WalkOK'
<1>1. /\ DOMAIN walk = WalkFields /\ Frames(walk.stack) /\ nodes' = nodes
      /\ Stream(walk.out) /\ (walk.pc # "done" => Unfinished(walk.out))
      /\ walk.pc \in Walking => Len(walk.stack) >= 1
  BY DEF WalkOK, Frames, Walker, List, Stat, ReadLink, Open, Read, EndFile, EndDir, Walks,
         Stops, source
<1>2. walk.pc \in Walking
  BY DEF Walker, List, Stat, ReadLink, Open, Read, EndFile, EndDir, At, Walking
<1>3. Len(walk.stack) \in 1..Len(walk.stack) /\ walk.pc # "done"
  BY <1>1, <1>2, SeqFacts DEF Frames, Walking
<1>4. Now.dir \in DOMAIN nodes /\ (There => Target \in DOMAIN nodes)
  BY <1>1, <1>3 DEF Frames, Now, There, Target, Ents, Tree
\* What the next value has to be, in general and after one more record.
<1>5. ASSUME NEW w, walk' = w, DOMAIN w = WalkFields, Frames(w.stack),
             w.pc \in Walking => Len(w.stack) >= 1,
             Stream(w.out), w.pc # "done" => Unfinished(w.out)
      PROVE  WalkOK'
  BY <1>1, <1>5, NextWalk
<1>6. Stops => WalkOK'
  <2> DEFINE w == [Asleep EXCEPT !.pc = "failed"]
  <2>1. DOMAIN w = WalkFields /\ w.stack = <<>> /\ w.out = <<>> /\ w.pc = "failed"
    BY DEF Asleep, WalkFields
  <2>2. Frames(<<>>) /\ Stream(<<>>) /\ Unfinished(<<>>)
    BY SeqFacts DEF Frames, Stream, Unfinished
  <2> HIDE DEF w
  <2>3. walk' = w => WalkOK'
    BY <1>5, <2>1, <2>2 DEF Walking
  <2> QED
    BY <2>3 DEF Stops, Walks, w
<1>7. ASSUME NEW r, r.type \in Types, r.type # "finish", r.type = "file" => r.data \in Nat
      PROVE  Stream(Emit(walk, r).out) /\ Unfinished(Emit(walk, r).out)
  BY <1>1, <1>3, <1>7, Emits, Longer
<1>8. ASSUME NEW r, r.type \in Types, r.type # "finish", r.type = "file" => r.data \in Nat,
             NEW ino, walk' = Past(Emit(walk, r), ino)
      PROVE  WalkOK'
  <2> DEFINE w == Emit(walk, r)
  <2>1. DOMAIN w = WalkFields /\ Frames(w.stack) /\ Len(w.stack) >= 1
        /\ Stream(w.out) /\ Unfinished(w.out)
    BY <1>1, <1>2, <1>7, <1>8, Emits
  <2> HIDE DEF w
  <2>2. /\ DOMAIN Past(w, ino) = WalkFields /\ Past(w, ino).out = w.out
        /\ Frames(Past(w, ino).stack) /\ Len(Past(w, ino).stack) >= 1
    BY <2>1, Passed
  <2>3. walk' = Past(w, ino)
    BY <1>8 DEF w
  <2> QED
    BY <1>5, <2>1, <2>2, <2>3
<1>9. List => WalkOK'
  <2> SUFFICES ASSUME List PROVE WalkOK'
    OBVIOUS
  <2> DEFINE n == Len(walk.stack)
             t == [walk.stack EXCEPT ![n] = [@ EXCEPT !.left = Names(Now.dir)]]
             w == [walk EXCEPT !.pc = "next", !.stack = t]
  <2>1. DOMAIN w = WalkFields /\ w.stack = t /\ w.out = walk.out /\ w.pc = "next"
    BY <1>1 DEF WalkFields
  <2>2. walk' = w
    BY <1>1 DEF List, Walks, WalkFields
  <2>3. DOMAIN walk.stack = 1..n /\ IsSeq(walk.stack)
    BY <1>1, SeqFacts DEF Frames
  <2>4. /\ DOMAIN t = DOMAIN walk.stack /\ t = [j \in DOMAIN t |-> t[j]]
        /\ DOMAIN t[n] = {"dir", "time", "left", "seen"} /\ t[n].dir = walk.stack[n].dir
        /\ \A j \in DOMAIN walk.stack : j # n => t[j] = walk.stack[j]
    BY <1>1, <1>3, <2>3 DEF Frames
  <2> HIDE DEF t, w
  <2>5. IsSeq(t) /\ Len(t) = n
    BY <2>3, <2>4, Replaced
  <2>6. Frames(t)
    BY <1>1, <2>3, <2>4, <2>5 DEF Frames
  <2> QED
    BY <1>1, <1>2, <1>3, <1>5, <2>1, <2>2, <2>5, <2>6
<1>10. Stat => WalkOK'
  <2> SUFFICES ASSUME Stat, ~Stops PROVE WalkOK'
    BY <1>6
  <2> DEFINE w == [walk EXCEPT !.pc = IF nodes[Target].kind = "link" THEN "link" ELSE "open",
                               !.ino = Target, !.count = @ + 1]
  <2>1. walk' = w
    BY DEF Stat, Walks
  <2>2. DOMAIN w = WalkFields /\ w.stack = walk.stack /\ w.out = walk.out
    BY <1>1 DEF WalkFields
  <2> HIDE DEF w
  <2> QED
    BY <1>1, <1>2, <1>3, <1>5, <2>1, <2>2
<1>11. ReadLink => WalkOK'
  <2> SUFFICES ASSUME ReadLink, ~Stops PROVE WalkOK'
    BY <1>6
  <2> DEFINE r == [type |-> "symlink", path |-> PathOf(walk), data |-> Target]
  <2>1. walk' = Past(Emit(walk, r), Target)
    BY DEF ReadLink, Walks
  <2>2. r.type = "symlink"
    OBVIOUS
  <2> HIDE DEF r
  <2> QED
    BY <1>8, <2>1, <2>2 DEF Types
<1>12. Open => WalkOK'
  <2> SUFFICES ASSUME Open, ~Stops PROVE WalkOK'
    BY <1>6
  <2>1. Target \in DOMAIN nodes
    BY <1>4 DEF Open
  <2>2. CASE nodes[Target].kind = "dir"
    <3> DEFINE r == [type |-> "directory", path |-> PathOf(walk), data |-> 0]
               e == Emit(walk, r)
               w == [e EXCEPT !.pc = "list", !.stack = Append(@, Frame(Target))]
    <3>1. walk' = w
      BY <2>2 DEF Open, Walks
    <3>2. r.type = "directory"
      OBVIOUS
    <3> HIDE DEF r
    <3>3. DOMAIN e = WalkFields /\ e.stack = walk.stack /\ Stream(e.out) /\ Unfinished(e.out)
      BY <1>1, <1>7, <3>2, Emits DEF Types
    <3> HIDE DEF e
    <3>4. /\ DOMAIN w = WalkFields /\ w.out = e.out /\ w.pc = "list"
          /\ w.stack = Append(walk.stack, Frame(Target))
      BY <3>3 DEF WalkFields
    <3>5. DOMAIN Frame(Target) = {"dir", "time", "left", "seen"} /\ Frame(Target).dir = Target
      BY DEF Frame
    <3>6. /\ IsSeq(w.stack) /\ Len(w.stack) = Len(walk.stack) + 1 /\ Len(walk.stack) \in Nat
          /\ w.stack[Len(walk.stack) + 1] = Frame(Target)
          /\ \A k \in 1..Len(walk.stack) : w.stack[k] = walk.stack[k]
      <4> HIDE DEF w
      <4>1. IsSeq(walk.stack)
        BY <1>1 DEF Frames
      <4>2. w.stack = Append(walk.stack, Frame(Target))
        BY <3>4
      <4> QED
        BY <4>1, <4>2, Appended
    <3>7. \A k \in 1..Len(w.stack) : k \in 1..Len(walk.stack) \/ k = Len(walk.stack) + 1
      BY <3>6
    <3> HIDE DEF w
    <3>8. Frames(w.stack) /\ Len(w.stack) >= 1
      BY <1>1, <2>1, <3>5, <3>6, <3>7 DEF Frames
    <3> QED
      BY <1>5, <3>1, <3>3, <3>4, <3>8
  <2>3. CASE nodes[Target].kind # "dir"
    <3> DEFINE r == [type |-> "file", path |-> PathOf(walk), data |-> Len(nodes[Target].data)]
               e == Emit(walk, r)
               w == [e EXCEPT !.pc = "read", !.time = nodes[Target].time, !.got = <<>>,
                              !.len = Len(nodes[Target].data)]
    <3>1. walk' = w
      BY <2>3 DEF Open, Walks
    <3>2. r.type = "file" /\ r.data \in Nat
      BY <2>1, SeqFacts DEF Tree
    <3> HIDE DEF r
    <3>3. DOMAIN e = WalkFields /\ e.stack = walk.stack /\ Stream(e.out) /\ Unfinished(e.out)
      BY <1>1, <1>7, <3>2, Emits DEF Types
    <3> HIDE DEF e
    <3>4. DOMAIN w = WalkFields /\ w.out = e.out /\ w.stack = walk.stack
      BY <3>3 DEF WalkFields
    <3> HIDE DEF w
    <3> QED
      BY <1>1, <1>2, <1>5, <3>1, <3>3, <3>4
  <2> QED
    BY <2>2, <2>3
<1>13. Read => WalkOK'
  <2> SUFFICES ASSUME Read, ~Stops PROVE WalkOK'
    BY <1>6
  <2> DEFINE v == nodes[walk.ino].data[Len(walk.got) + 1]
             r == [type |-> "data", path |-> <<>>, data |-> v]
             e == Emit(walk, r)
             w == [e EXCEPT !.got = Append(@, v)]
  <2>1. walk' = w
    BY DEF Read, Walks
  <2>2. r.type = "data"
    OBVIOUS
  <2> HIDE DEF r
  <2>3. DOMAIN e = WalkFields /\ e.stack = walk.stack /\ Stream(e.out) /\ Unfinished(e.out)
    BY <1>1, <1>7, <2>2, Emits DEF Types
  <2> HIDE DEF e
  <2>4. DOMAIN w = WalkFields /\ w.out = e.out /\ w.stack = walk.stack
    BY <2>3 DEF WalkFields
  <2> HIDE DEF w
  <2> QED
    BY <1>1, <1>2, <1>5, <2>1, <2>3, <2>4
<1>14. EndFile => WalkOK'
  <2> SUFFICES ASSUME EndFile, ~Stops PROVE WalkOK'
    BY <1>6
  <2> DEFINE r == [type |-> "end_file", path |-> <<>>, data |-> 0]
  <2>1. walk' = Past(Emit(walk, r), walk.ino)
    BY DEF EndFile, Walks
  <2>2. r.type = "end_file"
    OBVIOUS
  <2> HIDE DEF r
  <2> QED
    BY <1>8, <2>1, <2>2 DEF Types
<1>15. EndDir => WalkOK'
  <2> SUFFICES ASSUME EndDir, ~Stops PROVE WalkOK'
    BY <1>6
  <2>1. CASE Len(walk.stack) = 1
    <3> DEFINE r == [type |-> "finish", path |-> <<>>, data |-> walk.count]
               e == Emit(walk, r)
               w == [e EXCEPT !.pc = "done", !.stack = <<>>]
    <3>1. walk' = w
      BY <2>1 DEF EndDir, Walks
    <3>2. r.type = "finish"
      OBVIOUS
    <3> HIDE DEF r
    <3>3. DOMAIN e = WalkFields /\ Stream(e.out)
      <4>1. DOMAIN e = WalkFields /\ e.out = Append(walk.out, r)
        BY <1>1, Emits
      <4>2. Stream(walk.out) /\ Unfinished(walk.out) /\ r.type \in Types /\ r.type # "file"
        BY <1>1, <1>3, <3>2 DEF Types
      <4>3. Stream(Append(walk.out, r))
        BY <4>2, Longer
      <4> HIDE DEF e
      <4> QED
        BY <4>1, <4>3
    <3> HIDE DEF e
    <3>4. DOMAIN w = WalkFields /\ w.out = e.out /\ w.stack = <<>> /\ w.pc = "done"
      BY <3>3 DEF WalkFields
    <3>5. Frames(<<>>)
      BY SeqFacts DEF Frames
    <3> HIDE DEF w
    <3> QED
      BY <1>5, <3>1, <3>3, <3>4, <3>5 DEF Walking
  <2>2. CASE Len(walk.stack) # 1
    <3> DEFINE e == [walk EXCEPT !.stack = Front(@)]
    <3>1. walk' = Past(e, Now.dir)
      BY <2>2 DEF EndDir, Walks
    <3>2. DOMAIN e = WalkFields /\ e.stack = Front(walk.stack) /\ e.out = walk.out
      BY <1>1 DEF WalkFields
    <3>3. /\ IsSeq(e.stack) /\ Len(e.stack) = Len(walk.stack) - 1
          /\ \A k \in 1..(Len(walk.stack) - 1) : e.stack[k] = walk.stack[k]
      BY <1>1, <1>2, <3>2, Fronted DEF Frames
    <3>4. Len(walk.stack) \in Nat /\ Len(walk.stack) >= 2
      <4>1. Len(walk.stack) \in Nat
        BY <1>1, SeqFacts DEF Frames
      <4>2. Len(walk.stack) >= 1 /\ Len(walk.stack) # 1
        BY <1>1, <1>2, <2>2
      <4> DEFINE n == Len(walk.stack)
      <4> HIDE DEF n, e
      <4>3. n \in Nat /\ n >= 1 /\ n # 1 => n >= 2
        OBVIOUS
      <4> QED
        BY <4>1, <4>2, <4>3 DEF n
    <3> HIDE DEF e
    <3>5. Frames(e.stack) /\ Len(e.stack) >= 1
      BY <1>1, <3>3, <3>4 DEF Frames
    <3>6. /\ DOMAIN Past(e, Now.dir) = WalkFields /\ Past(e, Now.dir).out = walk.out
          /\ Frames(Past(e, Now.dir).stack) /\ Len(Past(e, Now.dir).stack) >= 1
      BY <3>2, <3>5, Passed
    <3> QED
      BY <1>1, <1>3, <1>5, <3>1, <3>6
  <2> QED
    BY <2>1, <2>2
<1> QED
  BY <1>9, <1>10, <1>11, <1>12, <1>13, <1>14, <1>15 DEF Walker

-----------------------------------------------------------------------------
(* What the stream says                                                    *)

LEMMA UptoNext ==
  ASSUME NEW s, NEW n \in Nat
  PROVE  Upto(s, n + 1) = IF s[n + 1].type \in Kinds THEN Upto(s, n) \cup {Item(s, n + 1)}
                          ELSE Upto(s, n)
<1>1. \A k \in 1..(n + 1) : k \in 1..n \/ k = n + 1
  OBVIOUS
<1>2. \A k \in 1..n : k \in 1..(n + 1)
  OBVIOUS
<1>3. n + 1 \in 1..(n + 1)
  OBVIOUS
<1> QED
  BY <1>1, <1>2, <1>3, Zenon DEF Upto

\* Records that name nothing add nothing.
LEMMA UptoSkip ==
  ASSUME NEW s, NEW f \in Nat, NEW m \in Nat, f <= m,
         \A k \in (f + 1)..m : s[k].type \notin Kinds
  PROVE  Upto(s, m) = Upto(s, f)
<1>1. \A k \in 1..m : k \in 1..f \/ k \in (f + 1)..m
  OBVIOUS
<1>2. \A k \in 1..f : k \in 1..m
  OBVIOUS
<1> QED
  BY <1>1, <1>2, Zenon DEF Upto

LEMMA UptoAll ==
  ASSUME NEW s, IsSeq(s)
  PROVE  Upto(s, 0) = {} /\ Upto(s, Len(s)) = Contents(s)
<1>1. Upto(s, 0) = {}
  BY DEF Upto
<1>2. DOMAIN s = 1..Len(s)
  BY SeqFacts
<1>3. Upto(s, Len(s)) = Contents(s)
  BY <1>2, Zenon DEF Upto, Contents, Item, Kinds
<1> QED
  BY <1>1, <1>3

-----------------------------------------------------------------------------
(* What a step leaves alone                                                *)

LEMMA ImportSame ==
  ASSUME NEW i \in Imports, ImportOK(i),
         sent'[i] = sent[i], guest'[i] = guest[i], client'[i] = client[i],
         ws'.by = ws.by, ws'.tree = ws.tree, ws.synced => ws'.synced
  PROVE  ImportOK(i)'
BY DEF ImportOK, Receiving, Published, Told, InPlace

\* The step is about one import, or about none.
LEMMA ImportsSame ==
  ASSUME Guests, NEW i, i \in Imports => ImportOK(i)',
         \A j \in Imports \ {i} :
            sent'[j] = sent[j] /\ guest'[j] = guest[j] /\ client'[j] = client[j],
         ws'.by = ws.by, ws'.tree = ws.tree, ws.synced => ws'.synced
  PROVE  Guests'
<1>1. ASSUME NEW j \in Imports PROVE ImportOK(j)'
  BY ImportSame DEF Guests
<1> QED
  BY <1>1 DEF Guests

LEMMA NothingSame ==
  ASSUME Shape, AllOrNothing, Guests, UNCHANGED <<sent, guest, client>>,
         DOMAIN ws' = {"mine", "by", "tree", "synced"},
         ws'.by = ws.by, ws'.tree = ws.tree, ws.synced => ws'.synced
  PROVE  Shape' /\ AllOrNothing' /\ Guests'
<1>1. Guests'
  BY ImportSame DEF Guests
<1>2. Shape'
  BY DEF Shape
<1>3. AllOrNothing'
  BY DEF AllOrNothing
<1> QED
  BY <1>1, <1>2, <1>3

LEMMA SourcesNext ==
  ASSUME Inv, Sources
  PROVE  Inv'
<1>1. Tree(nodes') /\ DOMAIN nodes \subseteq DOMAIN nodes'
  BY Edits DEF Inv
<1>2. UNCHANGED <<lock, walk, client, sent, vm>>
  BY DEF Sources, WriteChunk, Truncate, Unlink, Create, Edit
<1>3. WalkOK'
  BY <1>1, <1>2 DEF Inv, WalkOK
<1>4. Shape' /\ AllOrNothing' /\ Guests'
  BY <1>2, NothingSame DEF Inv, vm, Shape
<1> QED
  BY <1>1, <1>3, <1>4 DEF Inv

LEMMA ReaderNext ==
  ASSUME Inv, Walker
  PROVE  Inv'
<1>1. UNCHANGED <<source, lock, client, sent, vm>>
  BY DEF Walker, List, Stat, ReadLink, Open, Read, EndFile, EndDir, Walks, Stops
<1>2. WalkOK' /\ Tree(nodes')
  BY <1>1, WalkerNext DEF Inv, source
<1>3. Shape' /\ AllOrNothing' /\ Guests'
  BY <1>1, NothingSame DEF Inv, vm, Shape
<1> QED
  BY <1>2, <1>3 DEF Inv

LEMMA WorkloadNext ==
  ASSUME Inv, Workload
  PROVE  Inv'
<1>1. WalkOK' /\ Tree(nodes')
  BY DEF Inv, Workload, WalkOK, source
<1>2. /\ DOMAIN ws' = {"mine", "by", "tree", "synced"}
      /\ ws'.by = ws.by /\ ws'.tree = ws.tree /\ ws'.synced = ws.synced
  BY DEF Inv, Workload, Shape
<1>3. Shape' /\ AllOrNothing' /\ Guests'
  BY <1>2, NothingSame DEF Inv, Workload
<1> QED
  BY <1>1, <1>3 DEF Inv

-----------------------------------------------------------------------------
(* The client                                                              *)

\* Asleep and just woken up, the reader has sent nothing.
LEMMA Rests ==
  ASSUME WalkOK, UNCHANGED nodes, walk' = Asleep
  PROVE  WalkOK'
<1>1. /\ DOMAIN Asleep = WalkFields /\ Asleep.stack = <<>> /\ Asleep.out = <<>>
      /\ Asleep.pc = "none"
  BY DEF Asleep, WalkFields
<1>2. IsSeq(<<>>) /\ Stream(<<>>) /\ Unfinished(<<>>) /\ Len(<<>>) = 0
  BY SeqFacts DEF Stream, Unfinished
<1> QED
  BY <1>1, <1>2 DEF WalkOK, Walking

LEMMA Starts ==
  ASSUME WalkOK, UNCHANGED nodes,
         walk' = [Asleep EXCEPT !.pc = "list", !.stack = <<Frame(Top)>>]
  PROVE  WalkOK'
<1> DEFINE w == [Asleep EXCEPT !.pc = "list", !.stack = <<Frame(Top)>>]
<1>1. DOMAIN w = WalkFields /\ w.stack = <<Frame(Top)>> /\ w.out = <<>> /\ w.pc = "list"
  BY DEF Asleep, WalkFields
<1>2. Stream(<<>>) /\ Unfinished(<<>>)
  BY SeqFacts DEF Stream, Unfinished
<1>3. /\ IsSeq(<<Frame(Top)>>) /\ Len(<<Frame(Top)>>) = 1 /\ <<Frame(Top)>>[1] = Frame(Top)
      /\ DOMAIN Frame(Top) = {"dir", "time", "left", "seen"} /\ Frame(Top).dir = Top
  BY SeqFacts DEF Frame
<1>4. walk' = w
  OBVIOUS
<1> HIDE DEF w
<1>5. Frames(w.stack) /\ Len(w.stack) >= 1
  BY <1>1, <1>3 DEF Frames, WalkOK
<1> QED
  BY <1>1, <1>2, <1>4, <1>5, NextWalk

LEMMA ClientNext ==
  ASSUME Inv, NEW i \in Imports, ClientStep(i)
  PROVE  Inv'
<1>1. /\ Tree(nodes') /\ UNCHANGED <<source, ws, crashed>>
      /\ Shape /\ AllOrNothing /\ Guests /\ ImportOK(i) /\ WalkOK
  BY DEF Inv, ClientStep, Start, NoSnapshot, Send, Result, Timeout, source, vm, Guests
\* A client that is told something, and no guest moves.
<1>2. ASSUME NEW pc, NEW answer, Client(i, pc, answer), UNCHANGED <<sent, guest>>,
             ImportOK(i)', WalkOK'
      PROVE  Inv'
  <2>1. client' = [j \in Imports |-> client'[j]]
        /\ \A j \in Imports \ {i} : client'[j] = client[j]
    BY <1>1, <1>2 DEF Client, Shape
  <2>2. Guests'
    BY <1>1, <1>2, <2>1, ImportsSame
  <2>3. Shape'
    BY <1>1, <1>2, <2>1 DEF Shape
  <2>4. AllOrNothing'
    BY <1>1, <1>2 DEF AllOrNothing
  <2> QED
    BY <1>1, <1>2, <2>2, <2>3, <2>4 DEF Inv
<1>3. ASSUME NEW pc, NEW answer, Client(i, pc, answer)
      PROVE  client'[i].pc = pc /\ client'[i].answer = answer
             /\ client' = [j \in Imports |-> client'[j]]
             /\ \A j \in Imports \ {i} : client'[j] = client[j]
  BY <1>1, <1>3 DEF Client, Shape
<1>4. CASE Start(i)
  <2>1. WalkOK'
    BY <1>1, <1>4, Starts DEF Start, source
  <2>2. client'[i].pc = "walk" /\ client'[i].answer = "none"
    BY <1>3, <1>4 DEF Start
  <2>3. ImportOK(i)'
    BY <1>1, <1>4, <2>2 DEF Start, vm, ImportOK, Receiving, Published, Told, InPlace
  <2> QED
    BY <1>2, <1>4, <2>1, <2>3 DEF Start, vm
<1>5. CASE NoSnapshot(i)
  <2>1. WalkOK'
    BY <1>1, <1>5, Rests DEF NoSnapshot, Ends, source
  <2>2. client'[i].pc = "done" /\ client'[i].answer = "failed"
    BY <1>3, <1>5 DEF NoSnapshot, Ends
  <2>3. ImportOK(i)'
    BY <1>1, <1>5, <2>2 DEF NoSnapshot, vm, ImportOK, Receiving, Published, Told, InPlace
  <2> QED
    BY <1>2, <1>5, <2>1, <2>3 DEF NoSnapshot, Ends, vm
<1>6. CASE Send(i)
  <2>1. walk' = Asleep
    BY <1>6 DEF Send, Ends
  <2>2. WalkOK'
    BY <1>1, <2>1, Rests DEF source
  <2>3. guest[i].pc = "none" /\ guest[i] = NoGuest /\ ws.by # i
    BY <1>1, <1>6 DEF Send, ImportOK, Receiving, Told, Unpublished
  <2>4. CASE UNCHANGED <<sent, guest>> /\ (Ends(i, "cancelled") \/ Ends(i, "failed"))
    <3>1. PICK answer \in {"cancelled", "failed"} : Ends(i, answer)
      BY <2>4
    <3>2. client'[i].pc = "done" /\ client'[i].answer = answer
      BY <1>3, <3>1 DEF Ends
    <3>3. ImportOK(i)'
      BY <1>1, <2>3, <2>4, <3>1, <3>2 DEF ImportOK, Receiving, Published, Told, InPlace
    <3> QED
      BY <1>2, <2>2, <2>4, <3>1, <3>3 DEF Ends
  <2>5. CASE /\ sent' = [sent EXCEPT ![i] = walk.out]
             /\ guest' = [guest EXCEPT ![i].pc = "check"] /\ Client(i, "wait", "none")
    <3>1. client'[i].pc = "wait" /\ client'[i].answer = "none"
      BY <1>3, <2>5
    <3>2. /\ sent'[i] = walk.out /\ guest'[i] = [NoGuest EXCEPT !.pc = "check"]
          /\ sent' = [j \in Imports |-> sent'[j]] /\ guest' = [j \in Imports |-> guest'[j]]
          /\ \A j \in Imports \ {i} : sent'[j] = sent[j] /\ guest'[j] = guest[j]
      BY <1>1, <2>3, <2>5 DEF Shape
    <3>3. guest'[i].pc = "check" /\ ~guest'[i].staged /\ DOMAIN guest'[i] = GuestFields
      BY <3>2 DEF NoGuest, GuestFields
    <3>4. ImportOK(i)'
      BY <1>1, <2>3, <3>1, <3>2, <3>3
         DEF ImportOK, Receiving, Published, Told, WalkOK
    <3>5. Guests'
      BY <1>1, <1>3, <2>5, <3>2, <3>4, ImportsSame
    <3>6. Shape'
      BY <1>1, <1>3, <2>5, <3>2, <3>3 DEF Shape
    <3>7. AllOrNothing'
      BY <1>1, <2>3, <3>2 DEF AllOrNothing, Shape
    <3> QED
      BY <1>1, <2>2, <3>5, <3>6, <3>7 DEF Inv
  <2> QED
    BY <1>6, <2>4, <2>5 DEF Send
<1>7. CASE Result(i) \/ Timeout(i)
  <2>1. WalkOK'
    BY <1>1, <1>7, Rests DEF Result, Timeout, Ends, source
  <2>2. PICK answer : /\ Ends(i, answer)
                      /\ \/ answer \in {"failed", "unknown"}
                         \/ answer \in {"imported", "truncated"} /\ answer = guest[i].pc
    <3>1. \/ guest[i].pc \in {"imported", "truncated", "failed"} /\ Ends(i, guest[i].pc)
          \/ Ends(i, "failed") \/ Ends(i, "unknown")
      BY <1>7 DEF Result, Timeout
    <3>2. CASE guest[i].pc \in {"imported", "truncated"} /\ Ends(i, guest[i].pc)
      BY <3>2
    <3>3. CASE guest[i].pc = "failed" /\ Ends(i, guest[i].pc)
      BY <3>3
    <3>4. CASE Ends(i, "failed") \/ Ends(i, "unknown")
      BY <3>4
    <3> QED
      BY <3>1, <3>2, <3>3, <3>4
  <2>3. client'[i].pc = "done" /\ client'[i].answer = answer
    BY <1>3, <2>2 DEF Ends
  <2>4. ImportOK(i)'
    BY <1>1, <1>7, <2>2, <2>3
       DEF Result, Timeout, vm, ImportOK, Receiving, Published, Told, InPlace, Unpublished
  <2> QED
    BY <1>2, <1>7, <2>1, <2>2, <2>4 DEF Result, Timeout, Ends, vm
<1> QED
  BY <1>4, <1>5, <1>6, <1>7 DEF ClientStep

-----------------------------------------------------------------------------
(* The process in the VM                                                   *)

\* A record that fits keeps what was received equal to what the stream says.
LEMMA RecordReceived ==
  ASSUME NEW s, Stream(s), NEW g, DOMAIN g = GuestFields, Received(g, s), g.at < Len(s),
         ~g.finished, Fits(g, s[g.at + 1])
  PROVE  LET h == [Made(g, s[g.at + 1]) EXCEPT !.at = g.at + 1]
         IN  /\ DOMAIN h = GuestFields /\ Received(h, s)
             /\ h.pc = g.pc /\ h.staged = g.staged
<1> DEFINE r == s[g.at + 1]
           h == [Made(g, r) EXCEPT !.at = g.at + 1]
           n == g.at + 1
<1> SUFFICES DOMAIN h = GuestFields /\ Received(h, s) /\ h.pc = g.pc /\ h.staged = g.staged
  OBVIOUS
<1>9. \A a, l \in Nat :
        /\ (a + 1) - (l + 1) = a - l /\ (a - l) + (l + 1) = a + 1 /\ (a - l) + l = a
        /\ a - l \in 1..a => /\ a - l \in 1..(a + 1) /\ a - l \in Nat /\ (a - l) - 1 \in Nat
                             /\ ((a - l) - 1) + 1 = a - l /\ a - l <= a
        /\ \A k \in ((a - l) + 1)..a : k - (a - l) \in 1..l /\ (a - l) + (k - (a - l)) = k
  OBVIOUS
<1>10. \A m, l \in Nat : m > 0 => m - 1 \in Nat /\ (m - 1) + (l + 1) = m + l
  OBVIOUS
<1>1. Len(s) \in Nat /\ g.at \in Nat /\ n \in 1..Len(s)
  BY SeqFacts DEF Stream, Received
<1>2. r.type \in Types /\ (r.type = "file" => r.data \in Nat)
  BY <1>1 DEF Stream
<1>3. Upto(s, n) = IF r.type \in Kinds THEN Upto(s, g.at) \cup {Item(s, n)} ELSE Upto(s, g.at)
  BY <1>1, UptoNext
<1>4. CASE r.type = "data"
  <2>1. g.open /\ g.left > 0 /\ Opening(g, s)
    BY <1>4 DEF Fits, Received
  <2>2. /\ DOMAIN h = GuestFields /\ h.pc = g.pc /\ h.staged = g.staged /\ h.at = n
        /\ h.data = Append(g.data, r.data) /\ h.left = g.left - 1 /\ h.path = g.path
        /\ h.staging = g.staging /\ h.open = g.open /\ h.finished = g.finished
    BY <1>4 DEF Made, GuestFields
  <2> HIDE DEF h
  <2> DEFINE l == Len(g.data)
             f == g.at - l
  <2>3. /\ IsSeq(h.data) /\ l \in Nat /\ Len(h.data) = l + 1 /\ h.data[l + 1] = r.data
        /\ \A j \in 1..l : h.data[j] = g.data[j]
    BY <2>1, <2>2, Appended DEF Opening
  <2>4. /\ f \in 1..g.at /\ s[f].type = "file" /\ s[f].path = g.path /\ g.left \in Nat
        /\ g.left + l = s[f].data /\ g.staging = Upto(s, f - 1)
        /\ \A j \in 1..l : g.data[j] = s[f + j].data /\ s[f + j].type \notin Kinds
    BY <2>1 DEF Opening
  <2>5. h.at - Len(h.data) = f /\ f + (l + 1) = n /\ f \in 1..h.at
    <3> DEFINE a == g.at
    <3>1. a \in Nat /\ h.at = a + 1 /\ Len(h.data) = l + 1 /\ l \in Nat /\ f = a - l
          /\ f \in 1..a /\ n = a + 1
      BY <1>1, <2>2, <2>3, <2>4
    <3> HIDE DEF a, f, l, n
    <3>2. (a + 1) - (l + 1) = a - l /\ (a - l) + (l + 1) = a + 1
      BY <1>9, <3>1
    <3>3. a - l \in 1..(a + 1)
      BY <1>9, <3>1
    <3> QED
      BY <3>1, <3>2, <3>3
  <2>6. h.left \in Nat /\ h.left + Len(h.data) = s[f].data
    BY <1>10, <2>1, <2>2, <2>3, <2>4
  <2>7. s[f + (l + 1)] = r
    BY <2>5
  <2>8. \A j \in 1..(l + 1) : j \in 1..l \/ j = l + 1
    BY <2>3
  <2> HIDE DEF f, l
  <2>9. \A j \in 1..Len(h.data) : h.data[j] = s[f + j].data /\ s[f + j].type \notin Kinds
    BY <1>4, <2>3, <2>4, <2>7, <2>8 DEF Kinds
  <2>10. Opening(h, s)
    BY <2>2, <2>3, <2>4, <2>5, <2>6, <2>9 DEF Opening
  <2> QED
    BY <1>1, <2>1, <2>2, <2>10 DEF Received
<1>5. CASE r.type = "end_file"
  <2>1. g.open /\ g.left = 0 /\ Opening(g, s)
    BY <1>5 DEF Fits, Received
  <2> DEFINE new == [path |-> g.path, kind |-> "file", data |-> g.data]
  <2>2. /\ DOMAIN h = GuestFields /\ h.pc = g.pc /\ h.staged = g.staged /\ h.at = n
        /\ h.staging = g.staging \cup {new} /\ ~h.open /\ h.open \in BOOLEAN
        /\ h.finished = g.finished
    BY <1>5 DEF Made, Put, GuestFields
  <2> HIDE DEF h
  <2> DEFINE l == Len(g.data)
             f == g.at - l
  <2>3. l \in Nat /\ g.data = [j \in 1..l |-> g.data[j]]
    BY <2>1, SeqFacts DEF Opening
  <2>4. /\ f \in 1..g.at /\ s[f].type = "file" /\ s[f].path = g.path
        /\ l = s[f].data /\ g.staging = Upto(s, f - 1)
        /\ \A j \in 1..l : g.data[j] = s[f + j].data /\ s[f + j].type \notin Kinds
    BY <2>1, <2>3 DEF Opening
  <2>5. f + l = g.at /\ f \in Nat /\ f - 1 \in Nat /\ (f - 1) + 1 = f /\ f <= g.at
    BY <1>1, <1>9, <2>3, <2>4
  <2>6. \A k \in (f + 1)..g.at : k - f \in 1..l /\ f + (k - f) = k
    BY <1>1, <1>9, <2>3
  <2> HIDE DEF f, l
  <2>7. \A k \in (f + 1)..g.at : s[k].type \notin Kinds
    BY <2>4, <2>6
  <2>8. Upto(s, g.at) = Upto(s, f)
    BY <1>1, <2>5, <2>7, UptoSkip
  <2>9. Upto(s, f) = Upto(s, f - 1) \cup {Item(s, f)}
    <3> DEFINE e == f - 1
    <3>1. e \in Nat /\ e + 1 = f
      BY <2>5
    <3> HIDE DEF e
    <3>2. Upto(s, f) = IF s[f].type \in Kinds THEN Upto(s, e) \cup {Item(s, f)} ELSE Upto(s, e)
      BY <3>1, UptoNext
    <3> QED
      BY <2>4, <3>2 DEF e, Kinds
  <2>10. g.data = [j \in 1..s[f].data |-> s[f + j].data]
    BY <2>3, <2>4
  <2>11. Item(s, f) = new
    BY <2>4, <2>10 DEF Item
  <2>12. h.staging = Upto(s, h.at)
    BY <1>3, <1>5, <2>2, <2>4, <2>8, <2>9, <2>11 DEF Kinds
  <2> QED
    BY <1>1, <2>2, <2>12 DEF Received
<1>6. CASE r.type = "finish"
  <2>1. /\ DOMAIN h = GuestFields /\ h.pc = g.pc /\ h.staged = g.staged /\ h.at = n
        /\ h.staging = g.staging /\ h.open = g.open /\ h.finished /\ h.finished \in BOOLEAN
    BY <1>6 DEF Made, GuestFields
  <2>2. ~g.open
    BY <1>6 DEF Fits
  <2> HIDE DEF h
  <2>3. h.staging = Upto(s, h.at)
    BY <1>3, <1>6, <2>1, <2>2 DEF Received, Kinds
  <2> QED
    BY <1>1, <1>6, <2>1, <2>2, <2>3 DEF Received
<1>7. CASE r.type = "file"
  <2>1. /\ DOMAIN h = GuestFields /\ h.pc = g.pc /\ h.staged = g.staged /\ h.at = n
        /\ h.staging = g.staging /\ h.open /\ h.open \in BOOLEAN /\ h.finished = g.finished
        /\ h.left = r.data /\ h.data = <<>> /\ h.path = r.path
    BY <1>7 DEF Made, GuestFields
  <2>2. ~g.open
    BY <1>7 DEF Fits
  <2> HIDE DEF h
  <2>3. IsSeq(h.data) /\ Len(h.data) = 0 /\ h.at - Len(h.data) = n /\ n - 1 = g.at
    BY <1>1, <2>1, SeqFacts
  <2>4. Opening(h, s)
    BY <1>1, <1>2, <1>7, <2>1, <2>2, <2>3 DEF Opening, Received
  <2> QED
    BY <1>1, <2>1, <2>4 DEF Received
<1>8. CASE r.type \in {"directory", "symlink"}
  <2> DEFINE new == [path |-> r.path, kind |-> r.type, data |-> <<r.data>>]
  <2>1. /\ DOMAIN h = GuestFields /\ h.pc = g.pc /\ h.staged = g.staged /\ h.at = n
        /\ h.staging = g.staging \cup {new} /\ h.open = g.open /\ h.finished = g.finished
    BY <1>8 DEF Made, Put, GuestFields
  <2>2. ~g.open
    BY <1>8 DEF Fits
  <2> HIDE DEF h
  <2>3. Item(s, n) = new
    BY <1>8 DEF Item
  <2>4. h.staging = Upto(s, h.at)
    BY <1>3, <1>8, <2>1, <2>2, <2>3 DEF Received, Kinds
  <2> QED
    BY <1>1, <2>1, <2>2, <2>4 DEF Received
<1> QED
  BY <1>2, <1>4, <1>5, <1>6, <1>7, <1>8 DEF Types

\* A step of one process in the VM that leaves /workspace and the clients alone.
LEMMA GuestMoved ==
  ASSUME Inv, NEW i \in Imports, NEW g, Guest(i, g), UNCHANGED <<ws, crashed>>,
         DOMAIN g = GuestFields, ImportOK(i)'
  PROVE  Inv'
<1>1. /\ guest' = [j \in Imports |-> guest'[j]] /\ guest'[i] = g
      /\ \A j \in Imports \ {i} : guest'[j] = guest[j]
      /\ UNCHANGED <<source, lock, walk, client, sent>>
  BY DEF Inv, Guest, Shape
<1>2. Tree(nodes') /\ WalkOK'
  BY <1>1 DEF Inv, WalkOK, source
<1>3. Guests'
  BY <1>1, ImportsSame DEF Inv
<1>4. Shape' /\ AllOrNothing'
  BY <1>1 DEF Inv, Shape, AllOrNothing
<1> QED
  BY <1>2, <1>3, <1>4 DEF Inv

\* A process that removes what it staged and has published nothing.
LEMMA GuestFails ==
  ASSUME Inv, NEW i \in Imports, NEW pc \in {"failed", "truncated"}, Fails(i, pc),
         guest[i].pc \in {"check", "receive", "recheck", "publish"}, UNCHANGED <<ws, crashed>>
  PROVE  Inv'
<1> DEFINE g == [NoGuest EXCEPT !.pc = pc]
<1>1. DOMAIN g = GuestFields /\ g.pc = pc /\ ~g.staged
  BY DEF NoGuest, GuestFields
<1>2. Guest(i, g)
  BY DEF Fails
<1> HIDE DEF g
<1>3. guest'[i] = g /\ UNCHANGED <<client, sent>>
  BY <1>2 DEF Guest, Inv, Shape
<1>4. ImportOK(i)'
  BY <1>1, <1>3 DEF Inv, Guests, ImportOK, Receiving, Published, Told, InPlace, Unpublished
<1> QED
  BY <1>1, <1>2, <1>4, GuestMoved

\* A process that goes on.
LEMMA GuestGoes ==
  ASSUME Inv, NEW i \in Imports, NEW g, Guest(i, g), UNCHANGED <<ws, crashed>>,
         DOMAIN g = GuestFields, guest[i].pc \in {"check", "receive", "recheck"},
         \/ g.pc = "receive" /\ Received(g, sent[i])
         \/ g.pc \in {"recheck", "publish"} /\ g.staging = Contents(sent[i])
  PROVE  Inv'
<1>1. guest'[i] = g /\ UNCHANGED <<client, sent>>
  BY DEF Guest, Inv, Shape
<1>2. /\ Receiving(i) /\ Published(i) /\ Told(i) /\ Stream(sent[i])
      /\ client[i].answer \notin {"cancelled", "truncated"}
      /\ client[i].pc \notin {"idle", "walk"} /\ ws.by # i
  BY DEF Inv, Guests, ImportOK, Receiving, Told, Unpublished
<1>3. g.pc \in {"receive", "recheck", "publish"}
  OBVIOUS
<1>4. Receiving(i)'
  BY <1>1, <1>2, <1>3 DEF Receiving
<1>5. Published(i)' /\ Told(i)'
  BY <1>1, <1>2, <1>3 DEF Published, Told, InPlace
<1> QED
  BY <1>1, <1>2, <1>4, <1>5, GuestMoved DEF ImportOK

LEMMA GuestNext ==
  ASSUME Inv, NEW i \in Imports, GuestStep(i)
  PROVE  Inv'
<1>1. /\ Stream(sent[i]) /\ Receiving(i) /\ Published(i) /\ Told(i) /\ Shape
      /\ DOMAIN guest[i] = GuestFields
  BY DEF Inv, Guests, ImportOK, Shape
<1>2. Len(sent[i]) \in Nat /\ IsSeq(sent[i])
  BY <1>1, SeqFacts DEF Stream
<1>3. CASE CheckEmpty(i)
  <2> DEFINE g == [guest[i] EXCEPT !.pc = "receive", !.staged = TRUE]
  <2>1. guest[i] = [NoGuest EXCEPT !.pc = "check"]
    BY <1>1, <1>3 DEF CheckEmpty, Receiving
  <2>2. /\ DOMAIN g = GuestFields /\ g.pc = "receive" /\ g.at = 0 /\ g.staging = {}
        /\ g.open = FALSE /\ g.finished = FALSE
    BY <2>1 DEF NoGuest, GuestFields
  <2>3. Guest(i, g) \/ Fails(i, "failed")
    BY <1>3 DEF CheckEmpty
  <2>4. guest[i].pc = "check" /\ UNCHANGED <<ws, crashed>>
    BY <1>3 DEF CheckEmpty
  <2> HIDE DEF g
  <2>5. Received(g, sent[i])
    <3>1. Upto(sent[i], 0) = {} /\ 0 \in 0..Len(sent[i])
      BY <1>2, UptoAll
    <3> QED
      BY <2>2, <3>1 DEF Received
  <2> QED
    BY <2>2, <2>3, <2>4, <2>5, GuestGoes, GuestFails
<1>4. CASE Receive(i)
  <2> DEFINE r == sent[i][guest[i].at + 1]
             h == [Made(guest[i], r) EXCEPT !.at = guest[i].at + 1]
  <2>1. /\ guest[i].pc = "receive" /\ guest[i].at < Len(sent[i]) /\ UNCHANGED <<ws, crashed>>
        /\ Received(guest[i], sent[i])
    BY <1>1, <1>4 DEF Receive, Receiving
  <2>2. CASE ~guest[i].finished /\ Fits(guest[i], r)
    <3>1. DOMAIN h = GuestFields /\ Received(h, sent[i]) /\ h.pc = guest[i].pc
      BY <1>1, <2>1, <2>2, RecordReceived
    <3>2. Made(guest[i], r).at = guest[i].at
      BY <1>1 DEF Made, Put, GuestFields
    <3>3. Guest(i, [Made(guest[i], Record(i)) EXCEPT !.at = @ + 1])
      BY <1>4, <2>2 DEF Receive, Record
    <3>4. Guest(i, h)
      BY <3>2, <3>3 DEF Record
    <3> HIDE DEF h
    <3> QED
      BY <2>1, <3>1, <3>4, GuestGoes
  <2>3. CASE ~(~guest[i].finished /\ Fits(guest[i], r))
    <3>1. Fails(i, "failed")
      BY <1>4, <2>3 DEF Receive, Record
    <3> QED
      BY <2>1, <3>1, GuestFails
  <2> QED
    BY <2>2, <2>3
<1>5. CASE EndOfStream(i)
  <2> DEFINE g == [guest[i] EXCEPT !.pc = "recheck"]
  <2>1. /\ guest[i].pc = "receive" /\ UNCHANGED <<ws, crashed>>
        /\ Received(guest[i], sent[i])
    BY <1>1, <1>5 DEF EndOfStream, Receiving
  <2>2. CASE guest[i].finished
    <3>1. guest[i].at = Len(sent[i]) /\ guest[i].staging = Upto(sent[i], guest[i].at)
      BY <1>1, <1>2, <2>1, <2>2 DEF Received, Stream
    <3>2. DOMAIN g = GuestFields /\ g.pc = "recheck" /\ g.staging = Contents(sent[i])
      BY <1>1, <1>2, <3>1, UptoAll DEF GuestFields
    <3>3. Guest(i, g)
      BY <1>5, <2>2 DEF EndOfStream, Finished
    <3> HIDE DEF g
    <3> QED
      BY <2>1, <3>2, <3>3, GuestGoes
  <2>3. CASE ~guest[i].finished
    <3>1. Fails(i, "truncated")
      BY <1>5, <2>3 DEF EndOfStream, Finished
    <3> QED
      BY <2>1, <3>1, GuestFails
  <2> QED
    BY <2>2, <2>3
<1>6. CASE Recheck(i)
  <2> DEFINE g == [guest[i] EXCEPT !.pc = "publish"]
  <2>1. /\ guest[i].pc = "recheck" /\ UNCHANGED <<ws, crashed>>
        /\ guest[i].staging = Contents(sent[i])
    BY <1>1, <1>6 DEF Recheck, Receiving
  <2>2. DOMAIN g = GuestFields /\ g.pc = "publish" /\ g.staging = Contents(sent[i])
    BY <1>1, <2>1 DEF GuestFields
  <2>3. Guest(i, g) \/ Fails(i, "failed")
    BY <1>6 DEF Recheck
  <2> HIDE DEF g
  <2> QED
    BY <2>1, <2>2, <2>3, GuestGoes, GuestFails
<1>7. CASE Publish(i)
  <2>1. /\ guest[i].pc = "publish" /\ UNCHANGED crashed
        /\ guest[i].staging = Contents(sent[i])
    BY <1>1, <1>7 DEF Publish, Receiving
  <2>2. CASE ~Replaces
    BY <1>7, <2>1, <2>2, GuestFails DEF Publish
  <2>3. CASE Replaces
    <3> DEFINE g == [NoGuest EXCEPT !.pc = "sync"]
    <3>1. DOMAIN g = GuestFields /\ g.pc = "sync" /\ ~g.staged
      BY DEF NoGuest, GuestFields
    <3>2. /\ Guest(i, g) /\ ws.tree = {}
          /\ ws' = [mine |-> FALSE, by |-> i, tree |-> guest[i].staging, synced |-> FALSE]
      BY <1>7, <2>3 DEF Publish, Replaces, Empty
    <3> HIDE DEF g
    <3>3. /\ guest' = [j \in Imports |-> guest'[j]] /\ guest'[i] = g
          /\ \A j \in Imports \ {i} : guest'[j] = guest[j]
          /\ UNCHANGED <<source, lock, walk, client, sent>>
      BY <1>1, <3>2 DEF Guest, Shape
    <3>4. /\ ws'.by = i /\ ws'.tree = Contents(sent[i])
          /\ DOMAIN ws' = {"mine", "by", "tree", "synced"}
      BY <2>1, <3>2
    <3>5. Tree(nodes') /\ WalkOK'
      BY <3>3 DEF Inv, WalkOK, source
    <3>6. Shape' /\ AllOrNothing'
      BY <1>1, <3>1, <3>3, <3>4 DEF Shape, AllOrNothing
    <3>7. ImportOK(i)'
      <4>1. InPlace(i)'
        BY <3>3, <3>4 DEF InPlace
      <4>2. Receiving(i)'
        BY <3>1, <3>3 DEF Receiving, Unpublished
      <4>3. Told(i)'
        BY <1>1, <2>1, <3>1, <3>3 DEF Told
      <4>4. client[i].answer = "imported" => Contents(sent[i]) = {}
        BY <1>1, <3>2 DEF Published, InPlace
      <4>5. Published(i)'
        BY <3>1, <3>3, <4>1, <4>4 DEF Published
      <4> QED
        BY <1>1, <3>3, <4>2, <4>3, <4>5 DEF ImportOK
    <3>8. ASSUME NEW j \in Imports, j # i PROVE ImportOK(j)'
      <4>1. ImportOK(j) /\ guest'[j] = guest[j] /\ client'[j] = client[j] /\ sent'[j] = sent[j]
        BY <3>3, <3>8 DEF Inv, Guests
      <4>2. InPlace(j) => Contents(sent[j]) = {}
        BY <3>2 DEF InPlace
      <4>3. Receiving(j)'
        BY <3>4, <3>8, <4>1 DEF ImportOK, Receiving
      <4>4. Published(j)'
        BY <4>1, <4>2 DEF ImportOK, Published, InPlace
      <4>5. Told(j)'
        BY <3>4, <3>8, <4>1 DEF ImportOK, Told
      <4> QED
        BY <4>1, <4>3, <4>4, <4>5 DEF ImportOK
    <3> QED
      BY <3>5, <3>6, <3>7, <3>8 DEF Inv, Guests
  <2> QED
    BY <2>2, <2>3
<1>8. CASE Sync(i)
  <2>1. PICK pc \in {"imported", "failed"} :
          /\ Guest(i, [guest[i] EXCEPT !.pc = pc])
          /\ pc = "imported" => ws' = [ws EXCEPT !.synced = TRUE]
          /\ pc = "failed" => UNCHANGED ws
    BY <1>8 DEF Sync, Synced
  <2> DEFINE g == [guest[i] EXCEPT !.pc = pc]
  <2>2. DOMAIN g = GuestFields /\ g.pc = pc /\ g.staged = guest[i].staged /\ guest[i].pc = "sync"
    BY <1>1, <1>8 DEF GuestFields, Sync
  <2> HIDE DEF g
  <2>3. /\ guest' = [j \in Imports |-> guest'[j]] /\ guest'[i] = g
        /\ \A j \in Imports \ {i} : guest'[j] = guest[j]
        /\ UNCHANGED <<source, lock, walk, client, sent>>
    BY <1>1, <2>1 DEF Guest, Shape, g
  <2>4. /\ DOMAIN ws' = {"mine", "by", "tree", "synced"} /\ ws'.by = ws.by /\ ws'.tree = ws.tree
        /\ (ws.synced \/ pc = "imported") => ws'.synced
    BY <1>1, <2>1 DEF Shape
  <2>5. Tree(nodes') /\ WalkOK'
    BY <2>3 DEF Inv, WalkOK, source
  <2>6. Shape' /\ AllOrNothing'
    BY <1>1, <2>2, <2>3, <2>4 DEF Inv, Shape, AllOrNothing
  <2>7. Receiving(i)' /\ Told(i)'
    BY <1>1, <2>2, <2>3, <2>4 DEF Receiving, Told, Unpublished
  <2>8. Published(i)'
    BY <1>1, <2>2, <2>3, <2>4 DEF Published, InPlace
  <2>9. ImportOK(i)'
    BY <1>1, <2>3, <2>7, <2>8 DEF ImportOK
  <2>10. Guests'
    BY <2>3, <2>4, <2>9, ImportsSame DEF Inv
  <2> QED
    BY <2>5, <2>6, <2>10 DEF Inv
<1>9. CASE GuestError(i)
  BY <1>9, GuestFails DEF GuestError
<1>10. CASE Cut(i)
  <2> DEFINE g == [guest[i] EXCEPT !.cut = TRUE]
  <2>1. /\ guest[i].pc = "receive" /\ UNCHANGED <<ws, crashed>> /\ Guest(i, g)
        /\ Received(guest[i], sent[i])
    BY <1>1, <1>10 DEF Cut, Receiving
  <2>2. /\ DOMAIN g = GuestFields /\ \A f \in GuestFields \ {"cut"} : g[f] = guest[i][f]
    BY <1>1
  <2> HIDE DEF g
  <2>3. /\ g.pc = "receive" /\ g.at = guest[i].at /\ g.open = guest[i].open
        /\ g.finished = guest[i].finished /\ g.staging = guest[i].staging
        /\ g.data = guest[i].data /\ g.left = guest[i].left /\ g.path = guest[i].path
    BY <2>1, <2>2 DEF GuestFields
  <2>4. Received(g, sent[i])
    BY <2>1, <2>3 DEF Received, Opening
  <2> QED
    BY <2>1, <2>2, <2>3, <2>4, GuestGoes
<1> QED
  BY <1>3, <1>4, <1>5, <1>6, <1>7, <1>8, <1>9, <1>10 DEF GuestStep

-----------------------------------------------------------------------------
(* A crash, and all steps                                                  *)

LEMMA CrashNext ==
  ASSUME Inv, Crash
  PROVE  Inv'
<1>1. /\ DOMAIN ws' = {"mine", "by", "tree", "synced"} /\ UNCHANGED <<source, walk, client, sent>>
      /\ ws'.by \in {0, ws.by} /\ ws'.synced = ws.synced
      /\ ws'.by # 0 => ws'.by = ws.by /\ ws'.tree = ws.tree
      /\ ws.synced => ws'.by = ws.by /\ ws'.tree = ws.tree
      /\ ws'.tree \in {{}, ws.tree}
  BY DEF Crash, Inv, Shape
<1>2. guest' = [j \in Imports |-> guest'[j]]
  BY DEF Crash
<1>3. Tree(nodes') /\ WalkOK'
  BY <1>1 DEF Inv, WalkOK, source
<1>4. ASSUME NEW i \in Imports
      PROVE  DOMAIN guest'[i] = GuestFields /\ ImportOK(i)'
  <2> DEFINE lost == [NoGuest EXCEPT !.pc = "lost"]
  <2>1. guest'[i] = IF guest[i].pc = "none" THEN guest[i] ELSE lost
    BY DEF Crash
  <2>2. DOMAIN lost = GuestFields /\ lost.pc = "lost" /\ ~lost.staged
    BY DEF NoGuest, GuestFields
  <2> HIDE DEF lost
  <2>3. ImportOK(i) /\ DOMAIN guest[i] = GuestFields
    BY DEF Inv, Guests, Shape
  <2>4. i # 0 /\ (ws.by # i => ws'.by # i)
    BY <1>1, NoImportIsZero
  <2>5. InPlace(i) /\ (Contents(sent[i]) = {} \/ ws.synced) =>
            InPlace(i)' /\ (Contents(sent[i]) = {} \/ ws'.synced)
    BY <1>1 DEF InPlace
  <2>6. Receiving(i)'
    BY <2>1, <2>2, <2>3, <2>4 DEF ImportOK, Receiving, Unpublished
  <2>7. Published(i)'
    BY <1>1, <2>1, <2>2, <2>3, <2>5 DEF ImportOK, Published
  <2>8. Told(i)'
    BY <1>1, <2>1, <2>2, <2>3, <2>4 DEF ImportOK, Told
  <2> QED
    BY <1>1, <2>1, <2>2, <2>3, <2>6, <2>7, <2>8 DEF ImportOK
<1>5. AllOrNothing'
  BY <1>1 DEF Inv, AllOrNothing
<1>6. Shape'
  BY <1>1, <1>2, <1>4 DEF Inv, Shape
<1> QED
  BY <1>3, <1>4, <1>5, <1>6 DEF Inv, Guests

LEMMA Initial == Init => Inv
<1> SUFFICES ASSUME Init PROVE Inv
  OBVIOUS
<1>1. IsSeq(<<>>) /\ Len(<<>>) = 0 /\ Stream(<<>>) /\ Unfinished(<<>>)
  BY SeqFacts DEF Stream, Unfinished
<1>2. IsSeq(<<0, 0>>)
  BY <<0, 0>> \in Seq({0}) DEF IsSeq
<1>3. Tree(nodes) /\ Top \in DOMAIN nodes
  <2> DEFINE one == Dir([n \in {"d"} |-> 2])
             two == Dir([n \in {"a"} |-> 3])
             three == File(<<0, 0>>)
  <2>1. /\ DOMAIN nodes = {1, 2, 3} /\ nodes[1] = one /\ nodes[2] = two /\ nodes[3] = three
    BY DEF Init
  <2>2. /\ \A d \in {one, two, three} : DOMAIN d = {"kind", "data", "time", "ents"}
        /\ one.data = <<>> /\ two.data = <<>> /\ three.data = <<0, 0>>
        /\ one.ents = [n \in {"d"} |-> 2] /\ two.ents = [n \in {"a"} |-> 3]
        /\ DOMAIN three.ents = {}
    BY DEF Dir, File
  <2> HIDE DEF one, two, three
  <2> QED
    BY <1>1, <1>2, <2>1, <2>2 DEF Tree, Top
<1>4. WalkOK
  <2>1. /\ DOMAIN Asleep = WalkFields /\ Asleep.stack = <<>> /\ Asleep.out = <<>>
        /\ Asleep.pc = "none" /\ walk = Asleep
    BY DEF Asleep, WalkFields, Init
  <2> QED
    BY <1>1, <1>3, <2>1 DEF WalkOK, Walking
<1>5. Shape /\ AllOrNothing
  BY DEF Init, Shape, AllOrNothing, NoGuest, GuestFields
<1>6. ASSUME NEW i \in Imports PROVE ImportOK(i)
  <2>1. /\ guest[i] = NoGuest /\ sent[i] = <<>> /\ client[i].pc = "idle"
        /\ client[i].answer = "none" /\ ws.by = 0
    BY <1>6 DEF Init
  <2>2. NoGuest.pc = "none" /\ NoGuest.staged = FALSE /\ i # 0
    BY NoImportIsZero DEF NoGuest
  <2> QED
    BY <1>1, <2>1, <2>2 DEF ImportOK, Receiving, Published, Told
<1> QED
  BY <1>3, <1>4, <1>5, <1>6 DEF Inv, Guests

LEMMA Inductive == Inv /\ [Next]_vars => Inv'
<1> SUFFICES ASSUME Inv, [Next]_vars PROVE Inv'
  OBVIOUS
<1>1. CASE UNCHANGED vars
  <2>1. Tree(nodes') /\ WalkOK'
    BY <1>1 DEF Inv, WalkOK, vars, source
  <2>2. Shape' /\ AllOrNothing' /\ Guests'
    BY <1>1, NothingSame DEF Inv, Shape, vars, vm
  <2> QED
    BY <2>1, <2>2 DEF Inv
<1> QED
  BY <1>1, SourcesNext, ReaderNext, WorkloadNext, CrashNext, ClientNext, GuestNext DEF Next

LEMMA Invariance == Spec => []Inv
BY Initial, Inductive, PTL DEF Spec

-----------------------------------------------------------------------------
(* What the reader has seen of a source that changes.  The time of an      *)
(* inode shows a change, unless it was made in the tick of the one before  *)
(* it; so what was read of an inode is true for as long as its time is the *)
(* one at the start, whatever changed elsewhere.                           *)

\* The clock is not behind any inode.
Clock ==
    /\ now \in Nat /\ racy \in BOOLEAN
    /\ \A j \in DOMAIN nodes :
        /\ nodes[j].time \in Nat /\ nodes[j].time <= now
        /\ Ents(j) = [n \in DOMAIN Ents(j) |-> Ents(j)[n]]
        /\ DOMAIN Ents(j) \subseteq {"a", "d"}

\* Inode i of the source s shows no change since its time was t; r: two changes
\* have met in one tick.
Still(s, r, i, t) == ~r /\ s[i].time = t

\* What a frame has recorded of its directory, and what is to come.
Recorded(s, r, f) ==
    /\ f.time \in Nat /\ f.time <= s[f.dir].time
    /\ IsSeq(f.left) /\ \A k \in 1..Len(f.left) : f.left[k] \in {"a", "d"}
    /\ f.seen = [n \in DOMAIN f.seen |-> f.seen[n]]
    /\ Still(s, r, f.dir, f.time) =>
        \A n \in DOMAIN f.seen : n \in DOMAIN s[f.dir].ents /\ f.seen[n] = s[f.dir].ents[n]
Listed(s, r, f) ==
    Still(s, r, f.dir, f.time) =>
        \A n \in DOMAIN s[f.dir].ents :
            n \in DOMAIN f.seen \/ \E k \in 1..Len(f.left) : f.left[k] = n
\* Inode i is the frame's entry that is being read.
Under(s, r, f, i) ==
    /\ Len(f.left) >= 1
    /\ Still(s, r, f.dir, f.time) =>
        Head(f.left) \in DOMAIN s[f.dir].ents /\ s[f.dir].ents[Head(f.left)] = i

\* What has been read of a file.
Reading(s, r, w) ==
    /\ w.ino \in DOMAIN s /\ w.time \in Nat /\ w.time <= s[w.ino].time
    /\ IsSeq(w.got)
    /\ Still(s, r, w.ino, w.time) =>
        /\ w.len = Len(s[w.ino].data) /\ Len(w.got) <= w.len
        /\ \A k \in 1..Len(w.got) : w.got[k] = s[w.ino].data[k]

Snapshot(s, r, w) ==
    /\ \A k \in 1..Len(w.stack) : Recorded(s, r, w.stack[k])
    /\ \A k \in 1..(Len(w.stack) - 1) :
        Listed(s, r, w.stack[k]) /\ Under(s, r, w.stack[k], w.stack[k + 1].dir)
    /\ w.pc \in Walking \ {"list"} => Listed(s, r, Topmost(w))
    /\ w.pc \in {"link", "open", "read"} => Len(Topmost(w).left) >= 1
    /\ w.pc = "read" => Under(s, r, Topmost(w), w.ino) /\ Reading(s, r, w)

Snap == Clock /\ Snapshot(nodes, racy, walk)

-----------------------------------------------------------------------------
(* A step of others                                                        *)

\* Inodes go forward in time, and what has its time from before is as before,
\* or two changes have met in one tick.
Forward(j) ==
    /\ j \in DOMAIN nodes' /\ nodes'[j].time \in Nat /\ nodes[j].time <= nodes'[j].time
    /\ racy' \/ nodes'[j] = nodes[j] \/ nodes'[j].time # nodes[j].time
Onward == Clock' /\ (racy => racy') /\ \A j \in DOMAIN nodes : Forward(j)

LEMMA EditOnward ==
  ASSUME Tree(nodes), Clock, NEW s, NEW is, Edit(s, is), DOMAIN nodes \subseteq DOMAIN s,
         \A j \in DOMAIN nodes : j \notin is => s[j] = nodes[j],
         \A j \in DOMAIN s : j \notin DOMAIN nodes => j \in is,
         \A j \in DOMAIN s :
            /\ DOMAIN s[j] = {"kind", "data", "time", "ents"}
            /\ s[j].ents = [n \in DOMAIN s[j].ents |-> s[j].ents[n]]
            /\ DOMAIN s[j].ents \subseteq {"a", "d"}
  PROVE  Onward
<1>1. now \in Nat /\ now' \in Nat /\ now <= now' /\ racy' \in BOOLEAN /\ (racy => racy')
  <2>1. now \in Nat /\ now' \in {now, now + 1} /\ racy \in BOOLEAN
    BY DEF Clock, Edit
  <2>2. now' \in Nat /\ now <= now'
    BY <2>1
  <2>3. racy' = (racy \/ \E j \in is \cap DOMAIN nodes : nodes[j].time = now')
    BY DEF Edit
  <2> QED
    BY <2>1, <2>2, <2>3, Zenon
<1>2. DOMAIN nodes' = DOMAIN s
  BY DEF Edit
<1>3. ASSUME NEW j \in DOMAIN s
      PROVE  /\ j \in is => nodes'[j].time = now' /\ nodes'[j].ents = s[j].ents
             /\ j \notin is => nodes'[j] = s[j]
  BY DEF Edit
<1>4. ASSUME NEW j \in DOMAIN s
      PROVE  nodes'[j].time \in Nat /\ nodes'[j].time <= now' /\ nodes'[j].ents = s[j].ents
  <2>1. CASE j \in is
    BY <1>1, <1>3, <2>1
  <2>2. CASE j \notin is
    BY <1>1, <1>3, <2>2 DEF Clock
  <2> QED
    BY <2>1, <2>2
<1>5. Clock'
  BY <1>1, <1>2, <1>4 DEF Clock, Ents
<1>6. ASSUME NEW j \in DOMAIN nodes PROVE Forward(j)
  <2>1. nodes[j].time \in Nat /\ nodes[j].time <= now
    BY DEF Clock
  <2>2. CASE j \in is
    <3>1. racy' \/ nodes[j].time # now'
      BY <2>2 DEF Edit
    <3> QED
      BY <1>1, <1>2, <1>3, <2>1, <2>2, <3>1 DEF Forward
  <2>3. CASE j \notin is
    BY <1>2, <1>3, <2>1, <2>3 DEF Forward
  <2> QED
    BY <2>2, <2>3
<1> QED
  BY <1>1, <1>5, <1>6 DEF Onward

LEMMA SourcesOnward ==
  ASSUME Tree(nodes), Clock, Sources
  PROVE  Onward
<1>1. \A j \in DOMAIN nodes :
        /\ DOMAIN nodes[j] = {"kind", "data", "time", "ents"}
        /\ nodes[j].ents = [n \in DOMAIN nodes[j].ents |-> nodes[j].ents[n]]
        /\ DOMAIN nodes[j].ents \subseteq {"a", "d"}
  BY DEF Tree, Clock, Ents
<1>2. ASSUME NEW i \in DOMAIN nodes, WriteChunk(i) PROVE Onward
  <2>1. PICK k \in DOMAIN nodes[i].data : Edit([nodes EXCEPT ![i].data[k] = 1 - @], {i})
    BY <1>2 DEF WriteChunk
  <2> DEFINE s == [nodes EXCEPT ![i].data[k] = 1 - @]
  <2>2. s[i].ents = nodes[i].ents /\ DOMAIN s[i] = DOMAIN nodes[i] /\ DOMAIN s = DOMAIN nodes
        /\ \A j \in DOMAIN nodes : j # i => s[j] = nodes[j]
    BY <1>1
  <2>3. Edit(s, {i})
    BY <2>1
  <2> HIDE DEF s
  <2> QED
    BY <1>1, <2>2, <2>3, EditOnward
<1>3. ASSUME NEW i \in DOMAIN nodes, Truncate(i) PROVE Onward
  <2> DEFINE s == [nodes EXCEPT ![i].data = Front(@)]
  <2>1. Edit(s, {i})
    BY <1>3 DEF Truncate
  <2>2. s[i].ents = nodes[i].ents /\ DOMAIN s[i] = DOMAIN nodes[i] /\ DOMAIN s = DOMAIN nodes
        /\ \A j \in DOMAIN nodes : j # i => s[j] = nodes[j]
    BY <1>1
  <2> HIDE DEF s
  <2> QED
    BY <1>1, <2>1, <2>2, EditOnward
<1>4. ASSUME NEW d \in DOMAIN nodes, NEW n \in DOMAIN Ents(d), Unlink(d, n) PROVE Onward
  <2> DEFINE s == [nodes EXCEPT ![d].ents = Without(@, n)]
             e == Without(nodes[d].ents, n)
  <2>1. s[d].ents = e /\ DOMAIN s[d] = DOMAIN nodes[d] /\ DOMAIN s = DOMAIN nodes
        /\ \A j \in DOMAIN nodes : j # d => s[j] = nodes[j]
    BY <1>1
  <2>2. DOMAIN e \subseteq {"a", "d"} /\ e = [m \in DOMAIN e |-> e[m]]
    BY <1>1 DEF Without
  <2>3. Edit(s, {d, Ents(d)[n]})
    BY <1>4 DEF Unlink
  <2> HIDE DEF s, e
  <2>4. \A j \in DOMAIN s :
          /\ DOMAIN s[j] = {"kind", "data", "time", "ents"}
          /\ s[j].ents = [m \in DOMAIN s[j].ents |-> s[j].ents[m]]
          /\ DOMAIN s[j].ents \subseteq {"a", "d"}
    <3> TAKE j \in DOMAIN s
    <3>1. CASE j = d
      BY <1>1, <2>1, <2>2, <3>1
    <3>2. CASE j # d
      BY <1>1, <2>1, <3>2
    <3> QED
      BY <3>1, <3>2
  <2> DEFINE is == {d, Ents(d)[n]}
  <2>5. d \in is /\ Edit(s, is)
    BY <2>3
  <2> HIDE DEF is
  <2> QED
    BY <2>1, <2>4, <2>5, EditOnward
<1>5. ASSUME NEW d \in DOMAIN nodes, NEW j \in Spare \ DOMAIN nodes, Create(d, "a", j)
      PROVE  Onward
  <2>1. PICK new \in {File(<<1>>), Other("link"), Other("special")} :
          Edit([With(nodes, j, new) EXCEPT ![d].ents = With(@, "a", j)],
               {d, j} \cup IF "a" \in DOMAIN Ents(d) THEN {Ents(d)["a"]} ELSE {})
    BY <1>5 DEF Create
  <2>2. /\ DOMAIN new = {"kind", "data", "time", "ents"} /\ DOMAIN new.ents = {}
        /\ new.ents = [n \in {} |-> 0]
    BY DEF File, Other
  <2> DEFINE t == With(nodes, j, new)
             e == With(nodes[d].ents, "a", j)
             s == [t EXCEPT ![d].ents = With(@, "a", j)]
             is == {d, j} \cup IF "a" \in DOMAIN Ents(d) THEN {Ents(d)["a"]} ELSE {}
  <2>3. DOMAIN t = DOMAIN nodes \cup {j} /\ t[j] = new /\ \A k \in DOMAIN nodes : t[k] = nodes[k]
    BY DEF With
  <2>4. DOMAIN e \subseteq {"a", "d"} /\ e = [m \in DOMAIN e |-> e[m]]
    BY <1>1 DEF With
  <2>5. s[d].ents = e /\ DOMAIN s[d] = DOMAIN nodes[d] /\ DOMAIN s = DOMAIN t
        /\ \A k \in DOMAIN t : k # d => s[k] = t[k]
    BY <1>1, <2>3
  <2>6. Edit(s, is) /\ d \in is /\ j \in is
    BY <2>1
  <2> HIDE DEF s, t, e, is
  <2>7. \A k \in DOMAIN s :
          /\ DOMAIN s[k] = {"kind", "data", "time", "ents"}
          /\ s[k].ents = [n \in DOMAIN s[k].ents |-> s[k].ents[n]]
          /\ DOMAIN s[k].ents \subseteq {"a", "d"}
    <3> TAKE k \in DOMAIN s
    <3>1. CASE k = d
      BY <1>1, <2>4, <2>5, <3>1
    <3>2. CASE k = j
      BY <2>2, <2>3, <2>5, <3>2
    <3>3. CASE k # d /\ k # j
      BY <1>1, <2>3, <2>5, <3>3
    <3> QED
      BY <3>1, <3>2, <3>3
  <2>8. /\ DOMAIN nodes \subseteq DOMAIN s
        /\ \A k \in DOMAIN nodes : k \notin is => s[k] = nodes[k]
        /\ \A k \in DOMAIN s : k \notin DOMAIN nodes => k \in is
    BY <2>3, <2>5, <2>6
  <2> QED
    BY <2>6, <2>7, <2>8, EditOnward
<1> QED
  BY <1>2, <1>3, <1>4, <1>5 DEF Sources

\* What was read of an inode stays true as long as it shows no change.
LEMMA StillBefore ==
  ASSUME Onward, NEW i \in DOMAIN nodes, NEW t \in Nat, nodes[i].time \in Nat,
         t <= nodes[i].time
  PROVE  i \in DOMAIN nodes' /\ t <= nodes'[i].time
         /\ (Still(nodes', racy', i, t) => Still(nodes, racy, i, t) /\ nodes'[i] = nodes[i])
<1>1. Forward(i) /\ (racy => racy')
  BY DEF Onward
<1> QED
  BY <1>1 DEF Forward, Still

LEMMA RecordedBefore ==
  ASSUME Clock, Onward, NEW f, f.dir \in DOMAIN nodes, Recorded(nodes, racy, f)
  PROVE  /\ Recorded(nodes', racy', f)
         /\ Listed(nodes, racy, f) => Listed(nodes', racy', f)
         /\ \A i : Under(nodes, racy, f, i) => Under(nodes', racy', f, i)
<1>1. /\ f.time <= nodes'[f.dir].time
      /\ Still(nodes', racy', f.dir, f.time) =>
            Still(nodes, racy, f.dir, f.time) /\ nodes'[f.dir] = nodes[f.dir]
  BY StillBefore DEF Recorded, Clock
<1>2. Recorded(nodes', racy', f)
  BY <1>1 DEF Recorded
<1>3. Listed(nodes, racy, f) => Listed(nodes', racy', f)
  BY <1>1 DEF Listed
<1>4. ASSUME NEW i, Under(nodes, racy, f, i) PROVE Under(nodes', racy', f, i)
  BY <1>1, <1>4 DEF Under
<1> QED
  BY <1>2, <1>3, <1>4

LEMMA ReadingBefore ==
  ASSUME Clock, Onward, NEW w, Reading(nodes, racy, w)
  PROVE  Reading(nodes', racy', w)
<1>1. /\ w.ino \in DOMAIN nodes' /\ w.time <= nodes'[w.ino].time
      /\ Still(nodes', racy', w.ino, w.time) =>
            Still(nodes, racy, w.ino, w.time) /\ nodes'[w.ino] = nodes[w.ino]
  BY StillBefore DEF Reading, Clock
<1> QED
  BY <1>1 DEF Reading

LEMMA SourcesSnap ==
  ASSUME Inv, Snap, Sources
  PROVE  Snap'
<1>1. Onward /\ Clock /\ Snapshot(nodes, racy, walk) /\ WalkOK /\ walk' = walk
  BY SourcesOnward DEF Inv, Snap, Sources, WriteChunk, Truncate, Unlink, Create, Edit
<1>2. ASSUME NEW k \in 1..Len(walk.stack)
      PROVE  /\ Recorded(nodes', racy', walk.stack[k])
             /\ Listed(nodes, racy, walk.stack[k]) => Listed(nodes', racy', walk.stack[k])
             /\ \A i : Under(nodes, racy, walk.stack[k], i) =>
                        Under(nodes', racy', walk.stack[k], i)
  <2>1. walk.stack[k].dir \in DOMAIN nodes /\ Recorded(nodes, racy, walk.stack[k])
    BY <1>1 DEF WalkOK, Snapshot
  <2> QED
    BY <1>1, <2>1, RecordedBefore
<1>3. Reading(nodes, racy, walk) => Reading(nodes', racy', walk)
  BY <1>1, ReadingBefore
<1> DEFINE n == Len(walk.stack)
<1>4. n \in Nat /\ (walk.pc \in Walking => n \in 1..n) /\ \A k \in 1..(n - 1) : k \in 1..n
  <2>1. n \in Nat /\ (walk.pc \in Walking => n >= 1)
    BY <1>1, SeqFacts DEF WalkOK
  <2> HIDE DEF n
  <2> QED
    BY <2>1
<1>5. Snapshot(nodes', racy', walk)
  BY <1>1, <1>2, <1>3, <1>4 DEF Snapshot, Topmost, Walking
<1> QED
  BY <1>1, <1>5 DEF Snap, Onward

-----------------------------------------------------------------------------
(* A step of the reader                                                    *)

LEMMA Tailed ==
  ASSUME NEW s, IsSeq(s), Len(s) >= 1
  PROVE  /\ IsSeq(Tail(s)) /\ Len(s) \in Nat /\ Len(Tail(s)) = Len(s) - 1
         /\ Head(s) = s[1]
         /\ \A k \in 1..(Len(s) - 1) : Tail(s)[k] = s[k + 1]
<1>1. PICK S : s \in Seq(S)
  BY DEF IsSeq
<1>2. s # <<>> /\ Len(s) \in Nat
  BY <1>1
<1>3. Tail(s) \in Seq(S) /\ Len(Tail(s)) = Len(s) - 1 /\ Head(s) = s[1]
  BY <1>1, <1>2
<1>4. \A k \in 1..(Len(s) - 1) : Tail(s)[k] = s[k + 1]
  BY <1>1, <1>2
<1> QED
  BY <1>2, <1>3, <1>4 DEF IsSeq

LEMMA NamesListed ==
  ASSUME Clock, NEW d \in DOMAIN nodes
  PROVE  /\ IsSeq(Names(d))
         /\ \A k \in 1..Len(Names(d)) : Names(d)[k] \in {"a", "d"}
         /\ \A n \in DOMAIN Ents(d) : \E k \in 1..Len(Names(d)) : Names(d)[k] = n
<1> DEFINE e == DOMAIN Ents(d)
           If(n) == IF n \in e THEN <<n>> ELSE <<>>
<1>1. e \subseteq {"a", "d"} /\ Names(d) = If("a") \o If("d")
  BY DEF Clock, Names
<1> HIDE DEF e
<1>2. CASE "a" \in e /\ "d" \in e
  <2> DEFINE t == <<"a">> \o <<"d">>
  <2>1. Names(d) = t
    BY <1>1, <1>2
  <2>2. t \in Seq({"a", "d"}) /\ Len(t) = 2 /\ t[1] = "a" /\ t[2] = "d"
    OBVIOUS
  <2> HIDE DEF t
  <2>3. /\ IsSeq(t) /\ \A k \in 1..Len(t) : t[k] \in {"a", "d"}
        /\ \A n \in {"a", "d"} : \E k \in 1..Len(t) : t[k] = n
    BY <2>2 DEF IsSeq
  <2> QED
    BY <1>1, <2>1, <2>3 DEF e, t
<1>3. CASE "a" \in e /\ "d" \notin e
  <2>1. Names(d) = <<"a">>
    BY <1>1, <1>3
  <2> QED
    BY <1>1, <1>3, <2>1, SeqFacts DEF e
<1>4. CASE "a" \notin e /\ "d" \in e
  <2>1. Names(d) = <<"d">>
    BY <1>1, <1>4
  <2> QED
    BY <1>1, <1>4, <2>1, SeqFacts DEF e
<1>5. CASE "a" \notin e /\ "d" \notin e
  <2>1. Names(d) = <<>> /\ e = {}
    BY <1>1, <1>5
  <2> QED
    BY <1>1, <1>5, <2>1, SeqFacts DEF e
<1> QED
  BY <1>2, <1>3, <1>4, <1>5

\* The next name of a frame, once its entry is done.
LEMMA FramePassed ==
  ASSUME NEW s, NEW r, NEW f, NEW g, NEW i, PassedFrame(f, g, i),
         Recorded(s, r, f), Listed(s, r, f), Under(s, r, f, i)
  PROVE  Recorded(s, r, g) /\ Listed(s, r, g)
<1>1. /\ IsSeq(g.left) /\ Len(f.left) \in Nat /\ Len(g.left) = Len(f.left) - 1
      /\ Len(f.left) >= 1 /\ Head(f.left) = f.left[1]
      /\ \A k \in 1..(Len(f.left) - 1) : g.left[k] = f.left[k + 1]
  BY Tailed DEF PassedFrame, Recorded, Under
<1> DEFINE m == Len(f.left)
           h == Head(f.left)
<1>2. /\ DOMAIN g.seen = DOMAIN f.seen \cup {h} /\ g.seen = [n \in DOMAIN g.seen |-> g.seen[n]]
      /\ g.seen[h] = i /\ \A n \in DOMAIN f.seen : n # h => g.seen[n] = f.seen[n]
  BY DEF PassedFrame, With
<1>3. Recorded(s, r, g)
  <2>1. \A k \in 1..Len(g.left) : g.left[k] \in {"a", "d"}
    <3> TAKE k \in 1..Len(g.left)
    <3>1. g.left[k] = f.left[k + 1] /\ k + 1 \in 1..Len(f.left)
      BY <1>1
    <3> QED
      BY <3>1 DEF Recorded
  <2>2. g.dir = f.dir /\ g.time = f.time
    BY DEF PassedFrame
  <2> HIDE DEF h
  <2>3. ASSUME Still(s, r, f.dir, f.time), NEW n \in DOMAIN g.seen
        PROVE  n \in DOMAIN s[f.dir].ents /\ g.seen[n] = s[f.dir].ents[n]
    <3>1. CASE n = h
      BY <1>2, <2>3, <3>1 DEF Under, h
    <3>2. CASE n # h
      BY <1>2, <2>3, <3>2 DEF Recorded
    <3> QED
      BY <3>1, <3>2
  <2> QED
    BY <1>1, <1>2, <2>1, <2>2, <2>3 DEF Recorded
<1>4. Listed(s, r, g)
  <2> SUFFICES ASSUME Still(s, r, f.dir, f.time), NEW n \in DOMAIN s[f.dir].ents
               PROVE  n \in DOMAIN g.seen \/ \E k \in 1..Len(g.left) : g.left[k] = n
    BY DEF Listed, PassedFrame
  <2>1. CASE n \in DOMAIN f.seen
    BY <1>2, <2>1
  <2>2. ASSUME NEW k \in 1..m, f.left[k] = n
        PROVE  n \in DOMAIN g.seen \/ \E l \in 1..Len(g.left) : g.left[l] = n
    <3>1. CASE k = 1
      BY <1>1, <1>2, <2>2, <3>1
    <3>2. CASE k # 1
      <4>1. k - 1 \in 1..Len(g.left) /\ k - 1 \in 1..(m - 1) /\ (k - 1) + 1 = k
        <5> HIDE DEF m
        <5> QED
          BY <1>1, <3>2 DEF m
      <4> QED
        BY <1>1, <2>2, <4>1
    <3> QED
      BY <3>1, <3>2
  <2> QED
    BY <2>1, <2>2 DEF Listed
<1> QED
  BY <1>3, <1>4

\* The reader goes on with the frames w, whose top one reads the entry i.
LEMMA PassedSnap ==
  ASSUME NEW s, NEW r, NEW w, NEW i, DOMAIN w = WalkFields, Frames(w.stack), Len(w.stack) >= 1,
         \A k \in 1..Len(w.stack) : Recorded(s, r, w.stack[k]) /\ Listed(s, r, w.stack[k]),
         \A k \in 1..(Len(w.stack) - 1) : Under(s, r, w.stack[k], w.stack[k + 1].dir),
         Under(s, r, Topmost(w), i)
  PROVE  Snapshot(s, r, Past(w, i))
<1> DEFINE n == Len(w.stack)
           p == Past(w, i)
<1>1. n \in Nat /\ n \in 1..n
  BY SeqFacts DEF Frames
<1>2. /\ p.pc = "next" /\ Len(p.stack) = n
      /\ \A k \in 1..n : k # n => p.stack[k] = w.stack[k]
      /\ PassedFrame(w.stack[n], p.stack[n], i) /\ Topmost(p) = p.stack[n]
  BY Passed DEF Topmost
<1>3. Recorded(s, r, p.stack[n]) /\ Listed(s, r, p.stack[n])
  BY <1>1, <1>2, FramePassed DEF Topmost
<1>4. p.stack[n].dir = w.stack[n].dir
  BY <1>2 DEF PassedFrame
<1> HIDE DEF p
<1>5. \A k \in 1..n : Recorded(s, r, p.stack[k]) /\ Listed(s, r, p.stack[k])
  BY <1>2, <1>3
<1>6. ASSUME NEW k \in 1..(n - 1)
      PROVE  Listed(s, r, p.stack[k]) /\ Under(s, r, p.stack[k], p.stack[k + 1].dir)
  <2>1. k \in 1..n /\ k + 1 \in 1..n /\ k # n
    BY <1>1
  <2>2. p.stack[k + 1].dir = w.stack[k + 1].dir
    BY <1>2, <1>4, <2>1
  <2> QED
    BY <1>2, <1>5, <2>1, <2>2
<1> QED
  BY <1>1, <1>2, <1>3, <1>5, <1>6 DEF Snapshot, p

\* The source is as it was, and the reader goes on as w.
LEMMA Moves ==
  ASSUME Snap, UNCHANGED source, NEW w, walk' = w, Snapshot(nodes, racy, w)
  PROVE  Snap'
BY DEF Snap, Clock, Ents, source

\* A reader without frames.
LEMMA Frameless ==
  ASSUME NEW s, NEW r, NEW w, w.stack = <<>>, w.pc \notin Walking
  PROVE  Snapshot(s, r, w)
<1>1. Len(w.stack) = 0
  BY SeqFacts
<1> QED
  BY <1>1 DEF Snapshot, Walking

\* Only the top frame is still to be listed.
LEMMA AllListed ==
  ASSUME Snap, WalkOK, walk.pc \in Walking
  PROVE  /\ Len(walk.stack) \in Nat /\ Len(walk.stack) >= 1 /\ Frames(walk.stack)
         /\ Now = Topmost(walk) /\ Now.dir \in DOMAIN nodes /\ Recorded(nodes, racy, Now)
         /\ \A k \in 1..Len(walk.stack) : Recorded(nodes, racy, walk.stack[k])
         /\ \A k \in 1..(Len(walk.stack) - 1) :
              /\ Listed(nodes, racy, walk.stack[k])
              /\ Under(nodes, racy, walk.stack[k], walk.stack[k + 1].dir)
         /\ walk.pc # "list" => \A k \in 1..Len(walk.stack) : Listed(nodes, racy, walk.stack[k])
<1> DEFINE n == Len(walk.stack)
<1>1. /\ n \in Nat /\ n >= 1 /\ Frames(walk.stack)
      /\ Now = walk.stack[n] /\ Topmost(walk) = walk.stack[n]
  BY SeqFacts DEF WalkOK, Frames, Now, Topmost
<1>2. /\ \A k \in 1..n : Recorded(nodes, racy, walk.stack[k])
      /\ \A k \in 1..(n - 1) : /\ Listed(nodes, racy, walk.stack[k])
                               /\ Under(nodes, racy, walk.stack[k], walk.stack[k + 1].dir)
      /\ walk.pc # "list" => Listed(nodes, racy, walk.stack[n])
  BY <1>1 DEF Snap, Snapshot
<1>3. Now.dir \in DOMAIN nodes /\ Recorded(nodes, racy, Now)
  BY <1>1, <1>2 DEF WalkOK
<1> HIDE DEF n
<1>4. \A k \in 1..n : k \in 1..(n - 1) \/ k = n
  BY <1>1
<1> QED
  BY <1>1, <1>2, <1>3, <1>4 DEF n

\* The name being read is in the directory now.
LEMMA EntryIsThere ==
  ASSUME Snap, WalkOK, walk.pc \in Walking, There, Len(Now.left) >= 1
  PROVE  Under(nodes, racy, Now, Target)
<1>1. Now.left # <<>>
  BY SeqFacts
<1>2. Entry = Head(Now.left)
  BY <1>1 DEF Entry
<1> QED
  BY <1>2 DEF Under, There, Target, Ents

\* The frames, with one name done.
LEMMA PassesSnap ==
  ASSUME Snap, WalkOK, walk.pc \in Walking \ {"list"}, UNCHANGED source, NEW w,
         DOMAIN w = WalkFields, w.stack = walk.stack, NEW i, Under(nodes, racy, Now, i),
         walk' = Past(w, i)
  PROVE  Snap'
<1>1. Topmost(w) = Now
  BY AllListed DEF Topmost
<1>2. Snapshot(nodes, racy, Past(w, i))
  BY <1>1, AllListed, PassedSnap
<1> QED
  BY <1>2, Moves

LEMMA StopsSnap ==
  ASSUME Snap, Stops
  PROVE  Snap'
<1> DEFINE w == [Asleep EXCEPT !.pc = "failed"]
<1>1. w.stack = <<>> /\ w.pc = "failed"
  BY DEF Asleep
<1>2. walk' = w /\ UNCHANGED source
  BY DEF Stops, Walks
<1> HIDE DEF w
<1> QED
  BY <1>1, <1>2, Frameless, Moves DEF Walking

LEMMA ListSnap ==
  ASSUME Inv, Snap, List
  PROVE  Snap'
<1> DEFINE n == Len(walk.stack)
           t == [walk.stack EXCEPT ![n] = [@ EXCEPT !.left = Names(Now.dir)]]
           w == [walk EXCEPT !.pc = "next", !.stack = t]
<1>1. WalkOK /\ walk.pc = "list" /\ walk.pc \in Walking
  BY DEF Inv, List, At, Walking
<1>2. /\ n \in Nat /\ n >= 1 /\ Frames(walk.stack)
      /\ Now = walk.stack[n] /\ Now.dir \in DOMAIN nodes
      /\ \A k \in 1..n : Recorded(nodes, racy, walk.stack[k])
      /\ \A k \in 1..(n - 1) : /\ Listed(nodes, racy, walk.stack[k])
                               /\ Under(nodes, racy, walk.stack[k], walk.stack[k + 1].dir)
  BY <1>1, AllListed DEF Topmost
<1>3. DOMAIN walk.stack = 1..n /\ IsSeq(walk.stack) /\ DOMAIN walk = WalkFields
  BY <1>1, SeqFacts DEF WalkOK
<1>4. w.stack = t /\ w.pc = "next"
  BY <1>3 DEF WalkFields
<1>5. walk' = w /\ UNCHANGED source
  BY <1>3 DEF List, Walks, WalkFields
<1>6. n \in 1..n
  BY <1>2
<1>7. /\ DOMAIN t = DOMAIN walk.stack /\ t = [j \in DOMAIN t |-> t[j]]
      /\ t[n].dir = Now.dir /\ t[n].time = Now.time /\ t[n].seen = Now.seen
      /\ t[n].left = Names(Now.dir)
      /\ \A j \in DOMAIN walk.stack : j # n => t[j] = walk.stack[j]
  BY <1>2, <1>3, <1>6 DEF Frames
<1> HIDE DEF t, w
<1>8. Len(t) = n
  BY <1>3, <1>7, Replaced
<1>9. Recorded(nodes, racy, t[n]) /\ Listed(nodes, racy, t[n])
  <2>1. /\ IsSeq(t[n].left) /\ \A k \in 1..Len(t[n].left) : t[n].left[k] \in {"a", "d"}
        /\ \A m \in DOMAIN nodes[Now.dir].ents : \E k \in 1..Len(t[n].left) : t[n].left[k] = m
    BY <1>2, <1>7, NamesListed DEF Snap, Ents
  <2>2. Recorded(nodes, racy, Now)
    BY <1>2, <1>6
  <2> HIDE DEF n
  <2>3. Recorded(nodes, racy, t[n])
    BY <1>7, <2>1, <2>2 DEF Recorded
  <2>4. Listed(nodes, racy, t[n])
    BY <1>7, <2>1 DEF Listed
  <2> QED
    BY <2>3, <2>4
<1>10. Snapshot(nodes, racy, w)
  <2>1. \A k \in 1..n : Recorded(nodes, racy, t[k])
    BY <1>2, <1>3, <1>7, <1>9
  <2>2. ASSUME NEW k \in 1..(n - 1)
        PROVE  Listed(nodes, racy, t[k]) /\ Under(nodes, racy, t[k], t[k + 1].dir)
    <3>1. k \in 1..n /\ k + 1 \in 1..n /\ k # n
      <4> HIDE DEF n
      <4> QED
        BY <1>2
    <3>2. t[k] = walk.stack[k] /\ t[k + 1].dir = walk.stack[k + 1].dir
      BY <1>2, <1>3, <1>7, <3>1
    <3> QED
      BY <1>2, <3>2
  <2> QED
    BY <1>4, <1>8, <1>9, <2>1, <2>2 DEF Snapshot, Topmost
<1> QED
  BY <1>5, <1>10, Moves

LEMMA StatSnap ==
  ASSUME Inv, Snap, Stat
  PROVE  Snap'
<1>1. CASE Stops
  BY <1>1, StopsSnap
<1>2. CASE ~Stops
  <2> DEFINE w == [walk EXCEPT !.pc = IF nodes[Target].kind = "link" THEN "link" ELSE "open",
                               !.ino = Target, !.count = @ + 1]
  <2>1. walk' = w /\ UNCHANGED source /\ walk.pc = "next" /\ Entry # ""
    BY <1>2 DEF Stat, Walks, At
  <2>2. w.stack = walk.stack /\ w.pc \in {"link", "open"}
    BY DEF Inv, WalkOK, WalkFields
  <2> HIDE DEF w
  <2>3. Len(Now.left) >= 1
    <3>1. Recorded(nodes, racy, Now) /\ Now.left # <<>>
      BY <2>1, AllListed DEF Inv, Walking, Topmost, Entry
    <3>2. PICK S : Now.left \in Seq(S)
      BY <3>1 DEF Recorded, IsSeq
    <3> QED
      BY <3>1, <3>2
  <2>4. Now = Topmost(walk)
    BY <2>1, AllListed DEF Inv, Walking
  <2>5. Snapshot(nodes, racy, walk)
    BY DEF Snap
  <2>6. Snapshot(nodes, racy, w)
    BY <2>1, <2>2, <2>3, <2>4, <2>5 DEF Snapshot, Topmost, Walking
  <2> QED
    BY <2>1, <2>6, Moves
<1> QED
  BY <1>1, <1>2

LEMMA ReadLinkSnap ==
  ASSUME Inv, Snap, ReadLink
  PROVE  Snap'
<1>1. CASE Stops
  BY <1>1, StopsSnap
<1>2. CASE ~Stops
  <2> DEFINE r == [type |-> "symlink", path |-> PathOf(walk), data |-> Target]
             w == Emit(walk, r)
  <2>1. walk' = Past(w, Target) /\ UNCHANGED source /\ walk.pc = "link" /\ There
    BY <1>2 DEF ReadLink, Walks, At
  <2> HIDE DEF r
  <2>2. WalkOK /\ walk.pc \in Walking \ {"list"} /\ DOMAIN walk = WalkFields
    BY <2>1 DEF Inv, WalkOK, Walking
  <2>3. DOMAIN w = WalkFields /\ w.stack = walk.stack
    BY <2>2, Emits
  <2> HIDE DEF w
  <2>4. Now = Topmost(walk) /\ Len(Now.left) >= 1
    BY <2>1, <2>2, AllListed DEF Snap, Snapshot
  <2>5. Under(nodes, racy, Now, Target)
    BY <2>1, <2>2, <2>4, EntryIsThere
  <2> QED
    BY <2>1, <2>2, <2>3, <2>5, PassesSnap
<1> QED
  BY <1>1, <1>2

LEMMA ReadSnap ==
  ASSUME Inv, Snap, Read
  PROVE  Snap'
<1>1. CASE Stops
  BY <1>1, StopsSnap
<1>2. CASE ~Stops
  <2> DEFINE data == nodes[walk.ino].data
             m == Len(walk.got)
             r == [type |-> "data", path |-> <<>>, data |-> data[m + 1]]
             e == Emit(walk, r)
             w == [e EXCEPT !.got = Append(@, data[m + 1])]
  <2>1. /\ walk' = w /\ UNCHANGED source /\ walk.pc = "read" /\ m < walk.len
        /\ ~(m + 1 > Len(data))
    BY <1>2 DEF Read, Walks, At
  <2> HIDE DEF r
  <2>2. DOMAIN walk = WalkFields
    BY DEF Inv, WalkOK
  <2>3. /\ DOMAIN e = WalkFields /\ e.stack = walk.stack /\ e.pc = walk.pc /\ e.ino = walk.ino
        /\ e.time = walk.time /\ e.len = walk.len /\ e.got = walk.got
    BY <2>2 DEF Emit, WalkFields
  <2> HIDE DEF e
  <2>4. /\ w.stack = walk.stack /\ w.pc = "read" /\ w.ino = walk.ino
        /\ w.time = walk.time /\ w.len = walk.len /\ w.got = Append(walk.got, data[m + 1])
    BY <2>1, <2>3 DEF WalkFields
  <2> HIDE DEF w
  <2>5. Snapshot(nodes, racy, walk) /\ Reading(nodes, racy, walk)
    BY <2>1 DEF Snap, Snapshot
  <2>6. walk.ino \in DOMAIN nodes /\ IsSeq(data) /\ Len(data) \in Nat
    BY <2>5, SeqFacts DEF Inv, Tree, Reading
  <2>7. /\ IsSeq(w.got) /\ m \in Nat /\ Len(w.got) = m + 1 /\ w.got[m + 1] = data[m + 1]
        /\ \A k \in 1..m : w.got[k] = walk.got[k]
    BY <2>4, <2>5, Appended DEF Reading
  <2>8. Reading(nodes, racy, w)
    <3>1. \A k \in 1..(m + 1) : k \in 1..m \/ k = m + 1
      BY <2>7
    <3>2. ASSUME Still(nodes, racy, w.ino, w.time)
          PROVE  /\ w.len = Len(data) /\ Len(w.got) <= w.len
                 /\ \A k \in 1..Len(w.got) : w.got[k] = data[k]
      <4>1. walk.len = Len(data) /\ \A k \in 1..m : walk.got[k] = data[k]
        BY <2>4, <2>5, <3>2 DEF Reading
      <4>2. m + 1 <= Len(data)
        <5> HIDE DEF m
        <5> QED
          BY <2>1, <2>6, <2>7
      <4> QED
        BY <2>4, <2>7, <3>1, <4>1, <4>2
    <3> QED
      BY <2>4, <2>5, <2>7, <3>2 DEF Reading
  <2>9. Snapshot(nodes, racy, w)
    BY <2>1, <2>4, <2>5, <2>8 DEF Snapshot, Topmost
  <2> QED
    BY <2>1, <2>9, Moves
<1> QED
  BY <1>1, <1>2

LEMMA EndFileSnap ==
  ASSUME Inv, Snap, EndFile
  PROVE  Snap'
<1>1. CASE Stops
  BY <1>1, StopsSnap
<1>2. CASE ~Stops
  <2> DEFINE r == [type |-> "end_file", path |-> <<>>, data |-> 0]
             w == Emit(walk, r)
  <2>1. walk' = Past(w, walk.ino) /\ UNCHANGED source /\ walk.pc = "read"
    BY <1>2 DEF EndFile, Walks, At
  <2> HIDE DEF r
  <2>2. WalkOK /\ walk.pc \in Walking \ {"list"} /\ DOMAIN walk = WalkFields
    BY <2>1 DEF Inv, WalkOK, Walking
  <2>3. DOMAIN w = WalkFields /\ w.stack = walk.stack
    BY <2>2, Emits
  <2> HIDE DEF w
  <2>4. Under(nodes, racy, Now, walk.ino)
    BY <2>1, <2>2, AllListed DEF Snap, Snapshot
  <2> QED
    BY <2>1, <2>2, <2>3, <2>4, PassesSnap
<1> QED
  BY <1>1, <1>2

LEMMA OpenSnap ==
  ASSUME Inv, Snap, Open
  PROVE  Snap'
<1>1. CASE Stops
  BY <1>1, StopsSnap
<1>2. CASE ~Stops
  <2>1. /\ walk.pc = "open" /\ walk.pc \in Walking /\ WalkOK /\ DOMAIN walk = WalkFields
        /\ There /\ Opened(Target) /\ UNCHANGED source
    BY <1>2 DEF Open, Walks, At, Inv, WalkOK, Walking
  <2> DEFINE n == Len(walk.stack)
  <2>2. /\ n \in Nat /\ n >= 1 /\ Frames(walk.stack) /\ Now = walk.stack[n] /\ Topmost(walk) = Now
        /\ \A k \in 1..n : /\ Recorded(nodes, racy, walk.stack[k])
                           /\ Listed(nodes, racy, walk.stack[k])
        /\ \A k \in 1..(n - 1) : Under(nodes, racy, walk.stack[k], walk.stack[k + 1].dir)
    BY <2>1, AllListed DEF Topmost
  <2>3. Len(Now.left) >= 1
    BY <2>1, <2>2 DEF Snap, Snapshot
  <2>4. Under(nodes, racy, Now, Target) /\ Target \in DOMAIN nodes /\ Target = walk.ino
    <3>1. Now.dir \in DOMAIN nodes
      BY <2>1, AllListed
    <3> QED
      BY <2>1, <2>3, <3>1, EntryIsThere DEF Opened, Inv, Tree, There, Target, Ents
  <2>5. nodes[Target].time \in Nat
    BY <2>4 DEF Snap, Clock
  <2>6. CASE nodes[Target].kind = "dir"
    <3> DEFINE r == [type |-> "directory", path |-> PathOf(walk), data |-> 0]
               e == Emit(walk, r)
               w == [e EXCEPT !.pc = "list", !.stack = Append(@, Frame(Target))]
    <3>1. walk' = w
      BY <1>2, <2>6 DEF Open, Walks
    <3> HIDE DEF r
    <3>2. DOMAIN e = WalkFields /\ e.stack = walk.stack
      BY <2>1, Emits
    <3> HIDE DEF e
    <3>3. w.pc = "list" /\ w.stack = Append(walk.stack, Frame(Target))
      BY <3>2 DEF WalkFields
    <3> HIDE DEF w, n
    <3>4. /\ IsSeq(w.stack) /\ Len(w.stack) = n + 1 /\ w.stack[n + 1] = Frame(Target)
          /\ \A k \in 1..n : w.stack[k] = walk.stack[k]
      BY <2>2, <3>3, Appended DEF Frames, n
    <3>5. /\ Frame(Target).dir = Target /\ Frame(Target).time = nodes[Target].time
          /\ Frame(Target).left = <<>> /\ DOMAIN Frame(Target).seen = {}
          /\ Frame(Target).seen = [m \in {} |-> 0]
      BY DEF Frame
    <3>6. Recorded(nodes, racy, w.stack[n + 1])
      <4>1. Frame(Target).seen = [m \in DOMAIN Frame(Target).seen |-> Frame(Target).seen[m]]
        BY <3>5
      <4> QED
        BY <2>5, <3>4, <3>5, <4>1, SeqFacts DEF Recorded
    <3>7. ASSUME NEW k \in 1..(n + 1) PROVE Recorded(nodes, racy, w.stack[k])
      <4>1. k = n + 1 \/ k \in 1..n
        BY <2>2
      <4> QED
        BY <2>2, <3>4, <3>6, <4>1 DEF n
    <3>8. ASSUME NEW k \in 1..n
          PROVE  /\ Listed(nodes, racy, w.stack[k])
                 /\ Under(nodes, racy, w.stack[k], w.stack[k + 1].dir)
      <4>1. Listed(nodes, racy, w.stack[k])
        BY <2>2, <3>4 DEF n
      <4>2. CASE k = n
        BY <2>2, <2>4, <3>4, <3>5, <4>1, <4>2
      <4>3. CASE k # n
        <5>1. k \in 1..(n - 1) /\ k + 1 \in 1..n
          BY <2>2, <4>3
        <5> QED
          BY <2>2, <3>4, <4>1, <5>1 DEF n
      <4> QED
        BY <4>2, <4>3
    <3>9. (n + 1) - 1 = n
      BY <2>2
    <3>10. Snapshot(nodes, racy, w)
      BY <3>3, <3>4, <3>7, <3>8, <3>9 DEF Snapshot
    <3> QED
      BY <2>1, <3>1, <3>10, Moves
  <2>7. CASE nodes[Target].kind # "dir"
    <3> DEFINE data == nodes[Target].data
               r == [type |-> "file", path |-> PathOf(walk), data |-> Len(data)]
               e == Emit(walk, r)
               w == [e EXCEPT !.pc = "read", !.time = nodes[Target].time, !.got = <<>>,
                              !.len = Len(data)]
    <3>1. walk' = w
      BY <1>2, <2>7 DEF Open, Walks
    <3> HIDE DEF r
    <3>2. DOMAIN e = WalkFields /\ e.stack = walk.stack /\ e.ino = walk.ino
      BY <2>1 DEF Emit, WalkFields
    <3> HIDE DEF e
    <3>3. /\ w.stack = walk.stack /\ w.pc = "read" /\ w.time = nodes[Target].time /\ w.got = <<>>
          /\ w.len = Len(data) /\ w.ino = Target
      BY <2>4, <3>2 DEF WalkFields
    <3> HIDE DEF w
    <3>4. IsSeq(data) /\ Len(data) \in Nat /\ IsSeq(<<>>) /\ Len(<<>>) = 0
      BY <2>4, SeqFacts DEF Inv, Tree
    <3>5. Reading(nodes, racy, w)
      BY <2>4, <2>5, <3>3, <3>4 DEF Reading
    <3>6. Topmost(w) = Now /\ Listed(nodes, racy, Now)
      BY <2>2, <3>3 DEF Topmost
    <3>7. Snapshot(nodes, racy, w)
      BY <2>2, <2>3, <2>4, <3>3, <3>5, <3>6 DEF Snapshot
    <3> QED
      BY <2>1, <3>1, <3>7, Moves
  <2> QED
    BY <2>6, <2>7
<1> QED
  BY <1>1, <1>2

LEMMA EndDirSnap ==
  ASSUME Inv, Snap, EndDir
  PROVE  Snap'
<1>1. CASE Stops
  BY <1>1, StopsSnap
<1>2. CASE ~Stops
  <2>1. /\ walk.pc = "next" /\ walk.pc \in Walking \ {"list"} /\ WalkOK /\ DOMAIN walk = WalkFields
        /\ UNCHANGED source
    BY <1>2 DEF EndDir, Walks, At, Inv, WalkOK, Walking
  <2>2. CASE Len(walk.stack) = 1
    <3> DEFINE r == [type |-> "finish", path |-> <<>>, data |-> walk.count]
               e == Emit(walk, r)
               w == [e EXCEPT !.pc = "done", !.stack = <<>>]
    <3>1. walk' = w
      BY <1>2, <2>2 DEF EndDir, Walks
    <3> HIDE DEF r
    <3>2. DOMAIN e = WalkFields
      BY <2>1, Emits
    <3> HIDE DEF e
    <3>3. w.stack = <<>> /\ w.pc = "done"
      BY <3>2 DEF WalkFields
    <3> HIDE DEF w
    <3> QED
      BY <2>1, <3>1, <3>3, Frameless, Moves DEF Walking
  <2>3. CASE Len(walk.stack) # 1
    <3> DEFINE n == Len(walk.stack)
               e == [walk EXCEPT !.stack = Front(@)]
    <3>1. walk' = Past(e, Now.dir)
      BY <1>2, <2>3 DEF EndDir, Walks
    <3>2. DOMAIN e = WalkFields /\ e.stack = Front(walk.stack)
      BY <2>1 DEF WalkFields
    <3> HIDE DEF e
    <3>3. /\ n \in Nat /\ n >= 1 /\ n # 1 /\ Frames(walk.stack) /\ Now = walk.stack[n]
          /\ \A k \in 1..n : /\ Recorded(nodes, racy, walk.stack[k])
                             /\ Listed(nodes, racy, walk.stack[k])
          /\ \A k \in 1..(n - 1) : Under(nodes, racy, walk.stack[k], walk.stack[k + 1].dir)
      BY <2>1, <2>3, AllListed DEF Topmost
    <3>4. /\ IsSeq(e.stack) /\ Len(e.stack) = n - 1
          /\ \A k \in 1..(n - 1) : e.stack[k] = walk.stack[k]
      BY <3>2, <3>3, Fronted DEF Frames
    <3> HIDE DEF n
    <3>5. n - 1 \in Nat /\ n - 1 >= 1 /\ (n - 1) + 1 = n /\ \A k \in 1..(n - 1) : k \in 1..n
      BY <3>3
    <3>6. Frames(e.stack)
      BY <3>3, <3>4, <3>5 DEF Frames, n
    <3>7. \A k \in 1..Len(e.stack) : /\ Recorded(nodes, racy, e.stack[k])
                                     /\ Listed(nodes, racy, e.stack[k])
      BY <3>3, <3>4, <3>5
    <3>8. ASSUME NEW k \in 1..(Len(e.stack) - 1)
          PROVE  Under(nodes, racy, e.stack[k], e.stack[k + 1].dir)
      <4>1. k \in 1..(n - 1) /\ k + 1 \in 1..(n - 1)
        BY <3>4, <3>5
      <4> QED
        BY <3>3, <3>4, <4>1
    <3>9. Under(nodes, racy, Topmost(e), Now.dir)
      <4>1. n - 1 \in 1..(n - 1)
        BY <3>5
      <4>2. Topmost(e) = walk.stack[n - 1]
        BY <3>4, <4>1 DEF Topmost
      <4> QED
        BY <3>3, <3>5, <4>1, <4>2
    <3>10. Snapshot(nodes, racy, Past(e, Now.dir))
      BY <3>2, <3>4, <3>5, <3>6, <3>7, <3>8, <3>9, PassedSnap
    <3> QED
      BY <2>1, <3>1, <3>10, Moves
  <2> QED
    BY <2>2, <2>3
<1> QED
  BY <1>1, <1>2

-----------------------------------------------------------------------------
(* The invariant, and what it says when a file or a directory ends         *)

LEMMA SnapInitial == Init => Snap
<1> SUFFICES ASSUME Init PROVE Snap
  OBVIOUS
<1> DEFINE one == Dir([n \in {"d"} |-> 2])
           two == Dir([n \in {"a"} |-> 3])
           three == File(<<0, 0>>)
<1>1. /\ DOMAIN nodes = {1, 2, 3} /\ nodes[1] = one /\ nodes[2] = two /\ nodes[3] = three
      /\ now = 0 /\ racy = FALSE /\ walk = Asleep
  BY DEF Init
<1>2. /\ \A d \in {one, two, three} : d.time = 0
      /\ one.ents = [n \in {"d"} |-> 2] /\ two.ents = [n \in {"a"} |-> 3]
      /\ three.ents = [n \in {} |-> 0]
  BY DEF Dir, File
<1> HIDE DEF one, two, three
<1>3. Clock
  <2>1. ASSUME NEW j \in DOMAIN nodes
        PROVE  /\ nodes[j].time = 0
               /\ nodes[j].ents = [n \in DOMAIN nodes[j].ents |-> nodes[j].ents[n]]
               /\ DOMAIN nodes[j].ents \subseteq {"a", "d"}
    <3>1. CASE j = 1
      BY <1>1, <1>2, <3>1
    <3>2. CASE j = 2
      BY <1>1, <1>2, <3>2
    <3>3. CASE j = 3
      BY <1>1, <1>2, <3>3
    <3> QED
      BY <1>1, <3>1, <3>2, <3>3
  <2>2. now \in Nat /\ racy \in BOOLEAN /\ \A j \in DOMAIN nodes : nodes[j].time <= now
    <3>1. racy \in BOOLEAN
      BY DEF Init
    <3>2. now = 0 /\ \A j \in DOMAIN nodes : nodes[j].time = 0
      BY <1>1, <2>1
    <3> QED
      BY <3>1, <3>2
  <2> QED
    BY <2>1, <2>2 DEF Clock, Ents
<1>4. Asleep.stack = <<>> /\ Asleep.pc = "none"
  BY DEF Asleep
<1> QED
  BY <1>1, <1>3, <1>4, Frameless DEF Snap, Walking

LEMMA ClientSnap ==
  ASSUME Inv, Snap, NEW i \in Imports, ClientStep(i)
  PROVE  Snap'
<1>1. UNCHANGED source
  BY DEF ClientStep, Start, NoSnapshot, Send, Result, Timeout
<1>2. CASE walk' = Asleep
  <2>1. Asleep.stack = <<>> /\ Asleep.pc = "none"
    BY DEF Asleep
  <2> QED
    BY <1>1, <1>2, <2>1, Frameless, Moves DEF Walking
<1>3. CASE Start(i)
  <2> DEFINE w == [Asleep EXCEPT !.pc = "list", !.stack = <<Frame(Top)>>]
  <2>1. w.stack = <<Frame(Top)>> /\ w.pc = "list" /\ walk' = w
    BY <1>3 DEF Asleep, Start
  <2> HIDE DEF w
  <2>2. /\ Frame(Top).dir = Top /\ Frame(Top).time = nodes[Top].time
        /\ Frame(Top).left = <<>> /\ DOMAIN Frame(Top).seen = {}
        /\ Frame(Top).seen = [m \in DOMAIN Frame(Top).seen |-> Frame(Top).seen[m]]
    BY DEF Frame
  <2>3. Top \in DOMAIN nodes /\ nodes[Top].time \in Nat
    BY DEF Inv, WalkOK, Snap, Clock
  <2>4. Recorded(nodes, racy, Frame(Top))
    BY <2>2, <2>3, SeqFacts DEF Recorded
  <2>5. Len(w.stack) = 1 /\ w.stack[1] = Frame(Top)
    BY <2>1
  <2>6. Snapshot(nodes, racy, w)
    BY <2>1, <2>4, <2>5 DEF Snapshot
  <2> QED
    BY <1>1, <2>1, <2>6, Moves
<1>4. CASE ~Start(i)
  BY <1>2, <1>4 DEF ClientStep, NoSnapshot, Send, Result, Timeout, Ends
<1> QED
  BY <1>3, <1>4

LEMMA SnapInductive == Inv /\ Snap /\ [Next]_vars => Snap'
<1> SUFFICES ASSUME Inv, Snap, [Next]_vars PROVE Snap'
  OBVIOUS
<1>1. CASE UNCHANGED <<source, walk>>
  BY <1>1, Moves DEF Snap
<1>2. CASE Walker
  BY <1>2, ListSnap, StatSnap, ReadLinkSnap, OpenSnap, ReadSnap, EndFileSnap, EndDirSnap DEF Walker
<1>3. CASE Workload \/ Crash \/ UNCHANGED vars
  BY <1>1, <1>3 DEF Workload, Crash, vars
<1>4. ASSUME NEW i \in Imports, GuestStep(i) PROVE Snap'
  BY <1>1, <1>4 DEF GuestStep, CheckEmpty, Receive, EndOfStream, Recheck, Publish, Sync,
                    GuestError, Cut, Fails, Guest
<1> QED
  BY <1>2, <1>3, <1>4, SourcesSnap, ClientSnap DEF Next

\* What EndFile and EndDir accept is what the source has at that moment.
LEMMA FileIsTrue ==
  ASSUME Inv, Snap, EndFile, walk'.pc # "failed"
  PROVE  racy \/ walk.got = nodes[walk.ino].data
<1>1. /\ walk.pc = "read" /\ Len(walk.got) = walk.len
      /\ Unchanged(walk.ino, walk.time, walk.len)
  <2>1. Stops => walk'.pc = "failed"
    BY DEF Stops, Walks, Asleep
  <2> QED
    BY <2>1 DEF EndFile, At
<1>2. Reading(nodes, racy, walk) /\ IsSeq(nodes[walk.ino].data)
  BY <1>1 DEF Snap, Snapshot, Inv, Tree, Reading
<1>3. SUFFICES ASSUME ~racy PROVE walk.got = nodes[walk.ino].data
  OBVIOUS
<1> DEFINE data == nodes[walk.ino].data
<1>4. Len(walk.got) = Len(data) /\ \A k \in 1..Len(walk.got) : walk.got[k] = data[k]
  BY <1>1, <1>2, <1>3 DEF Reading, Still, Unchanged
<1>5. walk.got = [k \in 1..Len(walk.got) |-> walk.got[k]] /\ data = [k \in 1..Len(data) |-> data[k]]
  BY <1>2, SeqFacts DEF Reading
<1> HIDE DEF data
<1> QED
  BY <1>4, <1>5 DEF data

LEMMA DirIsTrue ==
  ASSUME Inv, Snap, EndDir, walk'.pc # "failed"
  PROVE  racy \/ Now.seen = Ents(Now.dir)
<1>1. walk.pc = "next" /\ Entry = "" /\ Unchanged(Now.dir, Now.time, 0)
  <2>1. Stops => walk'.pc = "failed"
    BY DEF Stops, Walks, Asleep
  <2> QED
    BY <2>1 DEF EndDir, At
<1>2. /\ Recorded(nodes, racy, Now) /\ Listed(nodes, racy, Now) /\ Now.dir \in DOMAIN nodes
  <2>1. Snapshot(nodes, racy, walk) /\ WalkOK
    BY DEF Snap, Inv
  <2> QED
    BY <1>1, <2>1, AllListed DEF Snapshot, Walking
<1>3. Now.left = <<>>
  <2>1. SUFFICES ASSUME Now.left # <<>> PROVE FALSE
    OBVIOUS
  <2>2. PICK S : Now.left \in Seq(S)
    BY <1>2 DEF Recorded, IsSeq
  <2>3. Len(Now.left) >= 1
    BY <2>1, <2>2
  <2>4. Head(Now.left) \in {"a", "d"}
    BY <1>2, <2>3, Tailed DEF Recorded
  <2> QED
    BY <1>1, <2>1, <2>4 DEF Entry
<1>4. SUFFICES ASSUME ~racy PROVE Now.seen = Ents(Now.dir)
  OBVIOUS
<1>5. Still(nodes, racy, Now.dir, Now.time)
  BY <1>1, <1>4 DEF Still, Unchanged
<1>6. \A n \in DOMAIN Ents(Now.dir) : n \in DOMAIN Now.seen
  BY <1>2, <1>3, <1>5, SeqFacts DEF Listed, Ents
<1>7. \A n \in DOMAIN Now.seen : n \in DOMAIN Ents(Now.dir) /\ Now.seen[n] = Ents(Now.dir)[n]
  BY <1>2, <1>5 DEF Recorded, Ents
<1>8. /\ Now.seen = [n \in DOMAIN Now.seen |-> Now.seen[n]]
      /\ Ents(Now.dir) = [n \in DOMAIN Ents(Now.dir) |-> Ents(Now.dir)[n]]
  BY <1>2 DEF Recorded, Snap, Clock
<1>9. DOMAIN Now.seen = DOMAIN Ents(Now.dir)
  BY <1>6, <1>7
<1> QED
  BY <1>7, <1>8, <1>9

-----------------------------------------------------------------------------
(* The theorems                                                            *)

\* /workspace has the whole tree of one stream or is as commands left it, the
\* client is told which, and only a crash leaves a staged tree: import_workspace
\* in supervisor.py with the import of apple_vm.rs.
THEOREM ImportsAreAtomic == Spec => []ImportIsAtomic
<1>1. Inv => ImportIsAtomic
  BY DEF Inv, Guests, ImportOK, Receiving, Published, Told, InPlace, ImportIsAtomic,
         AnswersAreTrue, StagingRemoved, Unpublished
<1> QED
  BY <1>1, Invariance, PTL

\* The rename that publishes an import never removes what a command made in
\* /workspace, and nothing else in the import writes there.
THEOREM NeverOverwrites == Spec => NothingOverwritten
<1>1. Inv /\ [Next]_vars => [ws.mine /\ ~ws'.mine => Workload]_vars
  <2> SUFFICES ASSUME Inv, Next, ws.mine, ~ws'.mine, ~Workload PROVE FALSE
    OBVIOUS
  <2>1. DOMAIN ws = {"mine", "by", "tree", "synced"}
    BY DEF Inv, Shape
  <2>2. CASE Sources \/ Walker
    BY <2>2 DEF Sources, WriteChunk, Truncate, Unlink, Create, Edit, Walker, List, Stat,
                ReadLink, Open, Read, EndFile, EndDir, Walks, Stops, vm
  <2>3. CASE Crash
    BY <2>1, <2>3 DEF Crash
  <2>4. ASSUME NEW i \in Imports, ClientStep(i) PROVE FALSE
    BY <2>4 DEF ClientStep, Start, NoSnapshot, Send, Result, Timeout, vm
  <2>5. ASSUME NEW i \in Imports, GuestStep(i) PROVE FALSE
    BY <2>1, <2>5 DEF GuestStep, CheckEmpty, Receive, EndOfStream, Recheck, Publish, Replaces,
                      Empty, Sync, GuestError, Cut
  <2> QED
    BY <2>2, <2>3, <2>4, <2>5 DEF Next
<1> QED
  BY <1>1, Invariance, PTL DEF Spec, NothingOverwritten
\* A file or a directory that import_stream::walk accepts is recorded as it is at
\* that moment, however its reads interleaved with changes: the comparison of
\* times at the end of each is enough, but for two changes in one tick.  The tree
\* starts as that of Init, a top directory with one directory that holds one file,
\* and may change MaxEdits times.
THEOREM SnapshotsAreTrue == Spec => SnapshotIsTrue
<1>1. Spec => []Snap
  BY Invariance, SnapInitial, SnapInductive, PTL DEF Spec
<1>2. Inv /\ Snap /\ [Next]_vars =>
        [walk'.pc # "failed" => /\ EndFile => racy \/ walk.got = nodes[walk.ino].data
                                /\ EndDir => racy \/ Now.seen = Ents(Now.dir)]_vars
  BY FileIsTrue, DirIsTrue
<1> QED
  BY <1>1, <1>2, Invariance, PTL DEF Spec, SnapshotIsTrue
=============================================================================
