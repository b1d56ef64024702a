-------------------------------- MODULE Import --------------------------------
(***************************************************************************)
(* workspace import: a client walks a host directory that others may be    *)
(* changing and writes what it reads as a stream of records                *)
(* (world-runtime/src/import_stream.rs), sends the stream to the VM        *)
(* (apple_vm.rs, import), and a process there builds the tree next to      *)
(* /workspace and puts it in place with one rename (guest/supervisor.py,   *)
(* import_workspace), while a command may be using /workspace.             *)
(*                                                                         *)
(* A file is a sequence of chunks.  Times are ticks of the file system's   *)
(* clock: two changes within one tick leave one time.  Modes, names and    *)
(* the stream's encoding and limits are left out.                          *)
(***************************************************************************)
EXTENDS Naturals, FiniteSets, SequencesExt

CONSTANTS
    Imports,    \* client calls, in any order
    Spare,      \* inodes that edits may create
    MaxEdits    \* changes of the source

ASSUME ImportBounds == MaxEdits \in Nat /\ Spare \cap 1..3 = {}
ASSUME NoImportIsZero == 0 \notin Imports   \* 0 is nobody

VARIABLES
    nodes,      \* the source: inode -> [kind, data, time, ents]
    now, edits, racy,   \* the clock; changes made; two changes met in one tick
    lock,       \* the client with the exclusive operation lock, or 0
    walk,       \* the walk of that client
    client,     \* import -> [pc, answer]
    sent,       \* import -> the snapshot as a stream
    guest,      \* import -> the process in the VM
    ws,         \* /workspace: [mine, by, tree, synced]
    crashed     \* the VM has crashed
source == <<nodes, now, edits, racy>>
vm == <<guest, ws, crashed>>
vars == <<source, lock, walk, client, sent, vm>>

File(data) == [kind |-> "file", data |-> data, time |-> 0, ents |-> [n \in {} |-> 0]]
Dir(ents) == [kind |-> "dir", data |-> <<>>, time |-> 0, ents |-> ents]
Other(kind) == [File(<<>>) EXCEPT !.kind = kind]
Top == 1
Ents(i) == nodes[i].ents
Without(f, n) == [m \in DOMAIN f \ {n} |-> f[m]]
With(f, n, x) == [m \in DOMAIN f \cup {n} |-> IF m = n THEN x ELSE f[m]]

Asleep == [pc |-> "none", stack |-> <<>>, ino |-> 0, path |-> <<>>, time |-> 0, len |-> 0,
           got |-> <<>>, out |-> <<>>, count |-> 0]
NoGuest == [pc |-> "none", at |-> 0, staging |-> {}, staged |-> FALSE, path |-> <<>>,
            data |-> <<>>, left |-> 0, open |-> FALSE, count |-> 0, finished |-> FALSE,
            cut |-> FALSE]

Init ==
    /\ nodes = <<Dir([n \in {"d"} |-> 2]), Dir([n \in {"a"} |-> 3]), File(<<0, 0>>)>>
    /\ now = 0 /\ edits = 0 /\ racy = FALSE
    /\ lock = 0 /\ walk = Asleep
    /\ client = [i \in Imports |-> [pc |-> "idle", answer |-> "none"]]
    /\ sent = [i \in Imports |-> <<>>]
    /\ guest = [i \in Imports |-> NoGuest]
    /\ ws = [mine |-> FALSE, by |-> 0, tree |-> {}, synced |-> FALSE]
    /\ crashed = FALSE

-----------------------------------------------------------------------------
(* Others change the source                                                *)

\* A bound: the source changes while it is read and no stream is being received,
\* with which it shares nothing.
Changeable ==
    /\ walk.pc \notin {"none", "failed", "done"}
    /\ \A i \in Imports : guest[i].pc \notin {"check", "receive", "recheck", "publish", "sync"}
\* The nodes is of s change, in the tick of the change before or in a later one.
Edit(s, is) ==
    /\ Changeable /\ edits < MaxEdits /\ edits' = edits + 1
    /\ now' \in {now, now + 1}
    /\ nodes' = [j \in DOMAIN s |-> IF j \in is THEN [s[j] EXCEPT !.time = now'] ELSE s[j]]
    /\ racy' = (racy \/ \E j \in is \cap DOMAIN nodes : nodes[j].time = now')
    /\ UNCHANGED <<lock, walk, client, sent, vm>>

WriteChunk(i) ==
    \E k \in DOMAIN nodes[i].data : Edit([nodes EXCEPT ![i].data[k] = 1 - @], {i})
Truncate(i) == nodes[i].data # <<>> /\ Edit([nodes EXCEPT ![i].data = Front(@)], {i})
Unlink(d, n) == Edit([nodes EXCEPT ![d].ents = Without(@, n)], {d, Ents(d)[n]})
\* A new file, link or fifo takes the name.
Create(d, n, j) ==
    \E new \in {File(<<1>>), Other("link"), Other("special")} :
      Edit([With(nodes, j, new) EXCEPT ![d].ents = With(@, n, j)],
           {d, j} \cup IF n \in DOMAIN Ents(d) THEN {Ents(d)[n]} ELSE {})
Sources ==
    \/ \E i \in DOMAIN nodes : WriteChunk(i) \/ Truncate(i)
    \/ \E d \in DOMAIN nodes : nodes[d].kind = "dir" /\
          \/ \E n \in DOMAIN Ents(d) : Unlink(d, n)
          \/ \E j \in Spare \ DOMAIN nodes : Create(d, "a", j)

-----------------------------------------------------------------------------
(* import_stream::walk.  A frame is a directory being read: its time at    *)
(* the start, the names still to come, and what was recorded of it.        *)

Frame(d) == [dir |-> d, time |-> nodes[d].time, left |-> <<>>, seen |-> [n \in {} |-> 0]]
Now == walk.stack[Len(walk.stack)]
Entry == IF Now.left = <<>> THEN "" ELSE Head(Now.left)
There == Entry \in DOMAIN Ents(Now.dir)
Target == Ents(Now.dir)[Entry]
Emit(w, r) == [w EXCEPT !.out = Append(@, r)]
Walks(w) == walk' = w /\ UNCHANGED <<source, lock, client, sent, vm>>
Stops == Walks([Asleep EXCEPT !.pc = "failed"])
At(pc) == walk.pc = pc

\* The entry is done: on to the next name.
Past(w, ino) ==
    [w EXCEPT !.pc = "next",
              !.stack[Len(w.stack)].left = Tail(@),
              !.stack[Len(w.stack)].seen = With(@, Head(w.stack[Len(w.stack)].left), ino)]

\* Sorted; the source has no other names than "a" and "d".
Names(d) ==
    LET If(n) == IF n \in DOMAIN Ents(d) THEN <<n>> ELSE <<>> IN If("a") \o If("d")
List ==
    /\ At("list")
    /\ Walks([walk EXCEPT !.pc = "next", !.stack[Len(walk.stack)].left = Names(Now.dir)])
\* fstatat: a link is read by its name, anything else opened.
Stat ==
    /\ At("next") /\ Entry # ""
    /\ IF ~There \/ nodes[Target].kind = "special" THEN Stops
       ELSE Walks([walk EXCEPT !.pc = IF nodes[Target].kind = "link" THEN "link" ELSE "open",
                               !.ino = Target, !.count = @ + 1])
PathOf(w) == [k \in 1..Len(w.stack) |-> Head(w.stack[k].left)]
ReadLink ==
    /\ At("link")
    /\ IF ~There \/ nodes[Target].kind # "link" THEN Stops
       ELSE Walks(Past(Emit(walk, [type |-> "symlink", path |-> PathOf(walk), data |-> Target]),
                       Target))
\* O_NOFOLLOW, and still the inode that was seen.
Opened(i) == nodes[i].kind # "link" /\ i = walk.ino
Open ==
    /\ At("open")
    /\ IF ~There \/ ~Opened(Target) THEN Stops
       ELSE IF nodes[Target].kind = "dir"
         THEN Walks([Emit(walk, [type |-> "directory", path |-> PathOf(walk), data |-> 0]) EXCEPT
                        !.pc = "list", !.stack = Append(@, Frame(Target))])
         ELSE Walks([Emit(walk, [type |-> "file", path |-> PathOf(walk),
                                 data |-> Len(nodes[Target].data)]) EXCEPT
                        !.pc = "read", !.time = nodes[Target].time, !.got = <<>>,
                        !.len = Len(nodes[Target].data)])
Read ==
    /\ At("read") /\ Len(walk.got) < walk.len
    /\ LET data == nodes[walk.ino].data
           k == Len(walk.got) + 1
       IN  IF k > Len(data) THEN Stops
           ELSE Walks([Emit(walk, [type |-> "data", path |-> <<>>, data |-> data[k]]) EXCEPT
                          !.got = Append(@, data[k])])
\* Mutant: only the length is compared at the end.
SameLength(i, time, len) == len = Len(nodes[i].data)
Unchanged(i, time, len) == time = nodes[i].time /\ len = Len(nodes[i].data)
EndFile ==
    /\ At("read") /\ Len(walk.got) = walk.len
    /\ IF Unchanged(walk.ino, walk.time, walk.len)
         THEN Walks(Past(Emit(walk, [type |-> "end_file", path |-> <<>>, data |-> 0]), walk.ino))
         ELSE Stops
EndDir ==
    /\ At("next") /\ Entry = ""
    /\ IF ~Unchanged(Now.dir, Now.time, 0) THEN Stops
       ELSE IF Len(walk.stack) = 1
         THEN Walks([Emit(walk, [type |-> "finish", path |-> <<>>, data |-> walk.count]) EXCEPT
                        !.pc = "done", !.stack = <<>>])
         ELSE Walks(Past([walk EXCEPT !.stack = Front(@)], Now.dir))
Walker == List \/ Stat \/ ReadLink \/ Open \/ Read \/ EndFile \/ EndDir

-----------------------------------------------------------------------------
(* apple_vm::import                                                        *)

Client(i, pc, answer) == client' = [client EXCEPT ![i] = [pc |-> pc, answer |-> answer]]
Ends(i, answer) == Client(i, "done", answer) /\ lock' = 0 /\ walk' = Asleep

Start(i) ==
    /\ client[i].pc = "idle" /\ lock = 0 /\ ~crashed
    /\ lock' = i /\ Client(i, "walk", "none")
    /\ walk' = [Asleep EXCEPT !.pc = "list", !.stack = <<Frame(Top)>>]
    /\ UNCHANGED <<source, sent, vm>>
NoSnapshot(i) ==
    /\ client[i].pc = "walk" /\ At("failed")
    /\ Ends(i, "failed")
    /\ UNCHANGED <<source, sent, vm>>
\* Cancellation is looked at once, before anything is sent.
Send(i) ==
    /\ client[i].pc = "walk" /\ At("done")
    /\ \/ Ends(i, "cancelled") /\ UNCHANGED <<sent, guest>>
       \/ ~crashed /\ sent' = [sent EXCEPT ![i] = walk.out]
          /\ guest' = [guest EXCEPT ![i].pc = "check"]
          /\ Client(i, "wait", "none") /\ walk' = Asleep /\ UNCHANGED lock
       \/ crashed /\ Ends(i, "failed") /\ UNCHANGED <<sent, guest>>
    /\ UNCHANGED <<source, ws, crashed>>
\* The result, unless the connection is lost.
Result(i) ==
    /\ client[i].pc = "wait"
    /\ \/ guest[i].pc \in {"imported", "truncated", "failed"} /\ Ends(i, guest[i].pc)
       \/ Ends(i, "failed")
    /\ UNCHANGED <<source, sent, vm>>
\* Mutant: the client waits for as long as the VM takes.
NoTimeout(i) == FALSE /\ UNCHANGED vars
\* After 600 seconds nobody knows.
Timeout(i) ==
    /\ client[i].pc = "wait" /\ Ends(i, "unknown")
    /\ UNCHANGED <<source, sent, vm>>

-----------------------------------------------------------------------------
(* supervisor.py: import_workspace                                         *)

Empty == ~ws.mine /\ ws.tree = {}
Guest(i, g) == guest' = [guest EXCEPT ![i] = g] /\ UNCHANGED <<source, lock, walk, client, sent>>
\* finally: the staged tree is removed.
Fails(i, pc) == Guest(i, [NoGuest EXCEPT !.pc = pc])

CheckEmpty(i) ==
    /\ guest[i].pc = "check"
    /\ IF Empty THEN Guest(i, [guest[i] EXCEPT !.pc = "receive", !.staged = TRUE])
       ELSE Fails(i, "failed")
    /\ UNCHANGED <<ws, crashed>>

Put(g, what, content) ==
    [g EXCEPT !.staging = @ \cup {[path |-> g.path, kind |-> what, data |-> content]}]
Record(i) == sent[i][guest[i].at + 1]
Made(g, r) ==
    CASE r.type = "data"     -> [g EXCEPT !.data = Append(@, r.data), !.left = @ - 1]
      [] r.type = "end_file" -> [Put(g, "file", g.data) EXCEPT !.open = FALSE]
      [] r.type = "finish"   -> [g EXCEPT !.finished = TRUE]
      [] r.type = "file"     -> [g EXCEPT !.open = TRUE, !.left = r.data, !.data = <<>>,
                                          !.path = r.path, !.count = @ + 1]
      [] OTHER               -> Put([g EXCEPT !.path = r.path, !.count = @ + 1],
                                    r.type, <<r.data>>)
Fits(g, r) ==
    CASE r.type = "data"     -> g.open /\ g.left > 0
      [] r.type = "end_file" -> g.open /\ g.left = 0
      [] r.type = "finish"   -> ~g.open /\ r.data = g.count
      [] OTHER               ->
            /\ ~g.open /\ \A e \in g.staging : e.path # r.path
            /\ Len(r.path) > 1 => \E e \in g.staging :
                                    e.path = Front(r.path) /\ e.kind = "directory"
Receive(i) ==
    /\ guest[i].pc = "receive" /\ guest[i].at < Len(sent[i]) /\ ~guest[i].cut
    /\ IF ~guest[i].finished /\ Fits(guest[i], Record(i))
         THEN Guest(i, [Made(guest[i], Record(i)) EXCEPT !.at = @ + 1])
         ELSE Fails(i, "failed")
    /\ UNCHANGED <<ws, crashed>>
\* Mutant: the end of the stream is taken for its finish.
FinishedAny(g) == TRUE
Finished(g) == g.finished
EndOfStream(i) ==
    /\ guest[i].pc = "receive" /\ (guest[i].cut \/ guest[i].at = Len(sent[i]))
    /\ IF Finished(guest[i]) THEN Guest(i, [guest[i] EXCEPT !.pc = "recheck"])
       ELSE Fails(i, "truncated")
    /\ UNCHANGED <<ws, crashed>>
Recheck(i) ==
    /\ guest[i].pc = "recheck"
    /\ IF Empty THEN Guest(i, [guest[i] EXCEPT !.pc = "publish"]) ELSE Fails(i, "failed")
    /\ UNCHANGED <<ws, crashed>>
\* Mutant: what is in the way is removed.
ReplacesAll == TRUE
\* rename replaces a directory only while that is empty.
Replaces == Empty
Publish(i) ==
    /\ guest[i].pc = "publish"
    /\ IF Replaces
         THEN /\ Guest(i, [NoGuest EXCEPT !.pc = "sync"])
              /\ ws' = [mine |-> FALSE, by |-> i, tree |-> guest[i].staging, synced |-> FALSE]
         ELSE Fails(i, "failed") /\ UNCHANGED ws
    /\ UNCHANGED crashed
\* fsync of / has returned, after one of each file: journaling file systems then
\* have the directories inside the staged tree too, which are not synced themselves.
Synced == TRUE
Sync(i) ==
    /\ guest[i].pc = "sync"
    /\ \/ Guest(i, [guest[i] EXCEPT !.pc = "imported"]) /\ ws' = [ws EXCEPT !.synced = Synced]
       \/ Guest(i, [guest[i] EXCEPT !.pc = "failed"]) /\ UNCHANGED ws
    /\ UNCHANGED crashed
\* The disk is full, a call fails.
GuestError(i) ==
    /\ guest[i].pc \in {"receive", "publish"} /\ Fails(i, "failed") /\ UNCHANGED <<ws, crashed>>

-----------------------------------------------------------------------------
(* The connection, the VM and what runs in it                              *)

\* A lost connection, or a client that gave up, ends the stream anywhere.
Cut(i) ==
    /\ guest[i].pc = "receive" /\ ~guest[i].cut
    /\ Guest(i, [guest[i] EXCEPT !.cut = TRUE]) /\ UNCHANGED <<ws, crashed>>
\* A command that still runs makes or removes its file in /workspace.
Workload ==
    /\ ~crashed /\ ws' = [ws EXCEPT !.mine = ~@]
    /\ UNCHANGED <<source, lock, walk, client, sent, guest, crashed>>
\* What was not synced may be lost; staged trees stay behind.
Crash ==
    /\ ~crashed /\ crashed' = TRUE
    /\ guest' = [i \in Imports |-> IF guest[i].pc = "none" THEN guest[i]
                                   ELSE [NoGuest EXCEPT !.pc = "lost"]]
    /\ \/ UNCHANGED ws
       \/ ~ws.synced /\ ws' = [ws EXCEPT !.by = 0, !.tree = {}]
    /\ UNCHANGED <<source, lock, walk, client, sent>>

ClientStep(i) == Start(i) \/ NoSnapshot(i) \/ Send(i) \/ Result(i) \/ Timeout(i)
GuestStep(i) ==
    \/ CheckEmpty(i) \/ Receive(i) \/ EndOfStream(i) \/ Recheck(i) \/ Publish(i) \/ Sync(i)
    \/ GuestError(i) \/ Cut(i)
Next ==
    \/ Sources \/ Walker \/ Workload \/ Crash
    \/ \E i \in Imports : ClientStep(i) \/ GuestStep(i)

\* The client runs and its timer fires; the VM need not.
Fairness ==
    /\ WF_vars(Walker)
    /\ \A i \in Imports : WF_vars(NoSnapshot(i)) /\ WF_vars(Send(i)) /\ WF_vars(Timeout(i))
Spec == Init /\ [][Next]_vars
FairSpec == Spec /\ Fairness

-----------------------------------------------------------------------------
(* Properties                                                              *)

\* What a stream says: a file's content is the data up to its end.
Contents(s) ==
    {[path |-> s[k].path, kind |-> s[k].type,
      data |-> IF s[k].type # "file" THEN <<s[k].data>>
               ELSE [j \in 1..s[k].data |-> s[k + j].data]] :
        k \in {k \in DOMAIN s : s[k].type \in {"directory", "file", "symlink"}}}

\* A file or a directory that the walk accepts is recorded as it is at that
\* moment, however its reads interleaved with changes; only two changes within
\* one tick of the clock go unseen.
SnapshotIsTrue ==
    [][walk'.pc # "failed" =>
         /\ EndFile => racy \/ walk.got = nodes[walk.ino].data
         /\ EndDir => racy \/ Now.seen = Ents(Now.dir)]_vars

\* /workspace is never part of an import: it is as commands left it, or has
\* the whole tree of one stream.
AllOrNothing == ws.by # 0 => ws.tree = Contents(sent[ws.by])

\* Import never removes a command's file, whenever it was made.
NothingOverwritten == [][ws.mine /\ ~ws'.mine => Workload]_vars

\* "imported" is said only of a tree that stays in place, crash or not
\* (an import of nothing leaves /workspace to the next one); an answer that says
\* the workspace is unchanged is true and stays true.
AnswersAreTrue ==
    \A i \in Imports :
      /\ client[i].answer = "imported" => Contents(sent[i]) \in {{}, ws.tree}
      /\ client[i].answer \in {"cancelled", "truncated"} => ws.by # i

\* An import that comes to an end in the guest, whatever the end, has removed its
\* staged tree.  (One whose VM crashes has not, nor has one whose guest process is
\* killed, a death that is not modelled.)
StagingRemoved == \A i \in Imports :
    guest[i].staged => guest[i].pc \notin {"imported", "truncated", "failed"}

\* Import is one step, done or not, and says which.
ImportIsAtomic == AllOrNothing /\ AnswersAreTrue /\ StagingRemoved

\* The client's call ends, with the lock it holds, whatever the VM does.
ImportEnds == \A i \in Imports : (client[i].pc \in {"walk", "wait"}) ~> (client[i].pc = "done")
===============================================================================
