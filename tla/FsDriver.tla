------------------------------- MODULE FsDriver -------------------------------
(***************************************************************************)
(* A sequence of file-system calls of a managed process, as the fuzz       *)
(* driver makes it (crates/world-cli/examples/fuzz_driver: gen.rs,         *)
(* exec.rs) and the reference model answers it, with the path mapping of   *)
(* the macOS interposers next to it.  On macOS the tree is what is on the  *)
(* disk: a link's absolute target is stored as the interposer maps it.     *)
(***************************************************************************)
EXTENDS TmpPath

CONSTANTS
    Paths,      \* what calls name: both operands
    Targets,    \* what links point to
    Probes,     \* the paths whose lookup is compared
    MaxMade,    \* nodes made in one sequence
    MaxFds,     \* descriptors opened in one sequence
    MaxLen      \* bytes in a file

ASSUME FsBounds ==
    /\ MaxMade \in Nat /\ MaxFds \in Nat /\ MaxLen \in Nat
    /\ LongNames \subseteq WideNames
    /\ Len(Root) = 1 /\ Root[1] \notin {"private", "tmp", "var"}
\* The names of the roots and of the run's directories are no longer than names
\* may be; a link may be followed; operands are paths.
ASSUME FsNames ==
    /\ MaxLinks \in Nat \ {0}
    /\ {".", "..", "private", "tmp", "var", "s"} \subseteq Component
    /\ Root \in Seq(Component) /\ Root[1] \notin {".", ".."}
    /\ LongNames \cap {"private", "tmp", "var", "s", Root[1]} = {}
    /\ Paths \cup Targets \cup Probes \subseteq Path

VARIABLE m      \* the model
fsVars == <<m>>

Nodes == DOMAIN m.nodes
Macs == BOOLEAN

FsInit == \E mac \in Macs : m = New(mac)

-----------------------------------------------------------------------------
(* The guards of exec.rs: a call that changes a directory names one below  *)
(* the run's own two, before any system call is made.                      *)

Inside(n) == Ancestors(m, n) \cap Sandboxes(m) # {}
\* parent_allowed: the run's own directories may also be made and removed.
ParentAllowed(place) ==
    Inside(place.node) \/ \E d \in Sandboxes(m) : Has(m, place.node, place.name)
                                                  /\ Kids(m, place.node)[place.name] = d

\* Mutant: where a link leads is not looked at.
GuardedHere(x, on) ==
    LET place == ParentUnchecked(m, Found(x.cur, 0), x.path) IN place.err = "ok" => ParentAllowed(place)
\* guarded_parent_at, and the walk along a chain of links, x.links of them at
\* most.  place, end: what x names, and what it leads to; on: the guard further
\* along.
GuardedAt(x, place, end, on) ==
    LET id == Kids(m, place.node)[place.name]
        link == m.nodes[id].link
    IN  CASE place.err = "EINVAL" -> end.err = "ok" => Inside(end.node)
          [] place.err \notin {"ok", "EINVAL"} -> TRUE
          [] place.err = "ok" ->
               /\ ParentAllowed(place)
               /\ (x.links > 0 /\ Has(m, place.node, place.name) /\ m.nodes[id].kind = "link")
                    => on[ChaseOf(IF link.abs THEN RootNode ELSE place.node, link, x.links - 1)]
GuardedBy(x, on) ==
    GuardedAt(x, ParentUnchecked(m, Found(x.cur, 0), x.path),
              Resolve(m, "virtual", x.cur, x.path, TRUE), on)
Guarded(start, p, links) ==
    LET on[x \in Chases(m)] == GuardedBy(x, on) IN on[ChaseOf(start.node, p, links)]
Permitted(start, p, chase) ==
    ~IsRootOperand(p) /\ start.err = "ok" /\ Guarded(start, p, IF chase THEN MaxLinks + 1 ELSE 0)

\* What an open may keep: of the other directories those on the way to the
\* run's own, and only to read.
OnTheWay(n) ==
    \E d \in Sandboxes(m), view \in {"virtual", "physical"} :
      IsPrefix(FullPath(m, view, n), FullPath(m, view, d))
Mutates(flags) == flags \cap {"write", "trunc", "create"} # {}
FollowsLast(flags) == "nofollow" \notin flags /\ ~({"create", "excl"} \subseteq flags)
MayKeep(r, flags) ==
    r.err = "ok" => LET n == r.model.fds[r.fd].node IN
                    \/ Ancestors(r.model, n) \cap Sandboxes(m) # {}
                    \/ ~Mutates(flags) /\ IsDir(r.model, n) /\ OnTheWay(n)
Here == Found(m.cwd, 0)

\* Within the bounds, a call that succeeds is made.
Takes(call) ==
    \E r \in {call} :
      /\ r.err = "ok"
      /\ Len(r.model.nodes) <= Len(New(m.mac).nodes) + MaxMade
      /\ r.model.next <= New(m.mac).next + MaxFds
      /\ m' = r.model

\* The target of symlink passes through the interposer.
Stored(t) == IF m.mac THEN MapTarget(m, t).path ELSE t

Flags == {{"create", "write"}, {"create", "excl"}, {"create", "nofollow"}, {"trunc", "write"},
          {"directory"}}
Fds == {0} \cup DOMAIN m.fds
Names == {LastOf(p) : p \in {q \in Paths : Len(q.comps) = 1}}

\* (The guards stand last: fewer calls succeed than are permitted.)
DoMkdir(fd, p) == Takes(Mkdir(m, fd, p)) /\ Permitted(AtStart(m, fd, p), p, p.slash)
DoSymlink(p) ==
    \E t \in Targets : Takes(Symlink(m, Stored(t), p)) /\ Permitted(Here, p, p.slash)
DoBind(p) == Takes(Bind(m, p)) /\ Permitted(Here, p, TRUE)
DoMkstemp(name) == Inside(m.cwd) /\ Takes(Mkstemp(m, name))
DoOpen(fd, p) ==
    \E flags \in Flags : \E r \in {Open(m, fd, p, flags)} :
      /\ Takes(r) /\ MayKeep(r, flags)
      /\ Mutates(flags) => Permitted(AtStart(m, fd, p), p, FollowsLast(flags))
DoOpenDir(p) == \E r \in {OpenDir(m, p)} : Takes(r) /\ MayKeep(r, {})
DoWrite(fd) ==
    /\ fd \in DOMAIN m.fds => m.fds[fd].pos < MaxLen
    /\ Takes(Write(m, fd, 1))
DoRead(fd) == Takes(Read(m, fd, 1))
DoClose(fd) == Takes(Close(m, fd))
DoUnlink(fd, p) ==
    /\ \E rmdir \in BOOLEAN : Takes(Unlink(m, fd, p, rmdir))
    /\ Permitted(AtStart(m, fd, p), p, p.slash)
DoRename(p) ==
    \E q \in Paths : /\ Takes(Rename(m, p, q))
                     /\ Permitted(Here, p, p.slash) /\ Permitted(Here, q, q.slash)
DoChdir(p) ==
    /\ Takes(Chdir(m, p))
    /\ Inside(FromCwd(m, p, TRUE).node)

FsNext ==
    \/ \E fd \in Fds, p \in Paths : DoMkdir(fd, p) \/ DoOpen(fd, p) \/ DoUnlink(fd, p)
    \/ \E p \in Paths : DoSymlink(p) \/ DoBind(p) \/ DoRename(p) \/ DoOpenDir(p) \/ DoChdir(p)
    \/ \E name \in Names : DoMkstemp(name)
    \/ \E fd \in Fds : DoWrite(fd) \/ DoRead(fd) \/ DoClose(fd)

FsSpec == FsInit /\ [][FsNext]_fsVars

-----------------------------------------------------------------------------
(* Invariants                                                              *)

\* The parts of the model have their types.
Kinds == {"dir", "opaque", "file", "link", "socket"}
ModelOK(s) ==
    /\ s.mac \in BOOLEAN /\ s.next \in Nat /\ s.next >= 3
    /\ \A n \in DOMAIN s.nodes :
         /\ s.nodes[n].kind \in Kinds
         /\ s.nodes[n].dead \in BOOLEAN
         /\ s.nodes[n].len \in 0..MaxLen
    /\ IsDir(s, s.cwd)
    /\ \A f \in DOMAIN s.fds :
         /\ f \in 3..(s.next - 1)
         /\ s.fds[f] \in [node : DOMAIN s.nodes, dir : BOOLEAN, pos : 0..MaxLen, write : BOOLEAN]
         /\ s.fds[f].dir <=> IsDir(s, s.fds[f].node)

\* What the nodes, their parents and their names make up.
EntriesOf(s, d) == {[dir |-> d, name |-> c, node |-> Kids(s, d)[c]] : c \in DOMAIN Kids(s, d)}
TreeOf(s) ==
    [count   |-> Len(s.nodes),
     dirs    |-> {n \in DOMAIN s.nodes : IsDir(s, n)},
     up      |-> [n \in DOMAIN s.nodes |-> s.nodes[n].up],
     entries |-> UNION {EntriesOf(s, d) : d \in DOMAIN s.nodes},
     dead    |-> {n \in DOMAIN s.nodes : s.nodes[n].dead},
     above   |-> [n \in DOMAIN s.nodes |-> Ancestors(s, n)]]
Edits == INSTANCE FsTree WITH tree <- TreeOf(m)

\* The model stays one tree through every sequence of creations, removals and
\* renames, whatever links and slashes the operands went through: from every
\* node the parents lead to the root, a name's parent is the directory that
\* holds it, and no directory is lost: it is removed and empty, although a
\* process may still stand in it or hold it open, or it has one name.
TreeSound == ModelOK(m) /\ Edits!OneTree(TreeOf(m))

\* However a call reaches it, an edit of the nodes is one of the tree: a node
\* made in a live directory, a name removed, or moved to where it may be.
EditsOfATree == Edits!TreeSpec

\* realpath names the node it was asked about: the name leads there again, from
\* any directory and through no link.
RealpathStable ==
    \A p \in Probes : \A r \in {FromCwd(m, p, TRUE)} :
      (r.err = "ok" /\ ~IsDetached(m, r.node)) =>
        LET name == FullPath(m, "virtual", r.node) IN
        /\ Resolve(m, "virtual", RootNode, Abs(name), FALSE).node = r.node
        /\ \A real \in {Realpath(m, p)} : real.err = "ok" => real.is = name

\* The host's own temp directories are out of reach: no lookup of a managed
\* process ends on one of them.
NoHostTemp == \A p \in Probes : LET r == FromCwd(m, p, TRUE) IN r.err = "ok" => m.nodes[r.node].over = 0

\* open(O_CREAT) opens what its own path names afterwards, also where it made
\* the file at the end of a chain of dangling links.  (A slash at the end of a
\* link's target is lost on the way: the file is made, and not found by that
\* link.)
CreatedIsFound ==
    (\A n \in Nodes : ~m.nodes[n].link.slash) =>
    \A p \in {q \in Paths : ~q.slash} : \A r \in {Open(m, 0, p, {"create", "write"})} :
      r.err = "ok" => FromCwd(r.model, p, TRUE).node = r.model.fds[r.fd].node

\* Names lead where they say.
NamesLead == RealpathStable /\ NoHostTemp /\ CreatedIsFound

\* The guards keep what is the host's, whatever links and slashes the operands
\* go through: of the directories, links and mounts that were there first only
\* the run's own two are ever moved or removed.
HostKept == {e \in TreeOf(New(m.mac)).entries : e.node \notin Sandboxes(m)} \subseteq TreeOf(m).entries

\* Each call has its own way of resolving: connect reaches the sockets that stat
\* sees, if their names fit an address, opendir and list the directories,
\* readlink the links that lstat sees.
AccountsAgree ==
    \A p \in Paths :
      /\ (Stat(m, p, TRUE).is = "socket" /\ LastOf(p) \notin WideNames \cup {"."})
           <=> Connect(m, p) = "ok"
      /\ Stat(m, p, FALSE).is = "link" <=> Readlink(m, p).err = "ok"
      /\ \A e \in {OpenDir(m, p).err, List(m, p).err} :
           IsDirKind(Stat(m, p, TRUE).is) <=> e = "ok"

\* The comparison of trees reads the private directories alike in the process's
\* view and from outside.
TreesAgree ==
    \A d \in {<<"tmp">>, <<"var", "tmp">>} :
      Tree(m, "virtual", Abs(d)) = Tree(m, "physical", Abs(Root \o d))

\* The calls of the model give one account of a state.
CallsAgree == AccountsAgree /\ TreesAgree

\* What the interposers hand to the kernel is, in the physical tree, what the
\* path is in the process's view: the same node, or the same error.
Agree(mapping, start, p, last) ==
    \A mapped \in {mapping}, virt \in {Resolve(m, "virtual", start, p, last)} :
      IF mapped.is \notin {"same", "to"} THEN mapped.is = virt.err
      ELSE LET q == IF mapped.is = "to" THEN mapped.path ELSE p IN
           \A phys \in {Resolve(m, "physical", start, q, last)} :
             IF virt.node = Kids(m, RootNode)["tmp"] THEN phys.node = Enter(m, "virtual", 4)
             ELSE phys.err = virt.err /\ phys.node = virt.node

\* Absolute paths, with and without following the last link.  (The name /tmp
\* itself, not followed, is the private directory to one and the host's link
\* to the other.)
MapMatchesModel ==
    m.mac => \A p \in Probes, last \in BOOLEAN :
               p.abs => Agree(Map(m, p), RootNode, p, last)

\* No link leads to a directory nearer to the root than the link is.
Depth(n) == Len(FullPath(m, "physical", n))
LinksDescend ==
    \A n \in Nodes :
      LET r == Resolve(m, "physical", m.nodes[n].up, m.nodes[n].link, TRUE) IN
      (m.nodes[n].kind = "link" /\ n > Len(New(m.mac).nodes) /\ r.err = "ok")
        => Depth(r.node) >= Depth(n)

\* The mapper counts the `..` of the text; as long as a link never leads
\* upwards, that count is never too low and what is put to the kernel and what
\* is left to it come out right.
MapAgrees == LinksDescend => MapMatchesModel

\* The same for paths relative to the current directory, whose physical name is
\* all that the interposer has to start from; and getcwd reports the name of
\* the virtual view.
MapAtAgrees ==
    (m.mac /\ LinksDescend /\ ~IsDetached(m, m.cwd)) =>
      LET base == FullPath(m, "physical", m.cwd) IN
      /\ \A p \in Probes, last \in BOOLEAN :
           ~p.abs => Agree(MapAt(m, p, base), m.cwd, p, last)
      /\ Getcwd(m).is = Unmap(base).comps

\* The interposers' text work and the model's lookup agree.
MapsAgree == MapAgrees /\ MapAtAgrees
=============================================================================
