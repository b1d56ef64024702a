------------------------------- MODULE FsModel -------------------------------
(***************************************************************************)
(* The file-system reference model (crates/world-fsmodel/src/lib.rs): one  *)
(* tree of nodes, read in two ways.  In the physical view the private temp *)
(* directories are ordinary directories below the workspace's root; in the *)
(* virtual view, that of the managed process, they are mounted over the    *)
(* host's.  The rules of lookup, creation, rename and removal are those of *)
(* the kernel of the profile, macOS or Linux.                              *)
(*                                                                         *)
(* A path is [abs, comps, slash]: its components, "." included, and        *)
(* whether a slash ends it; repeated slashes are one.  A file is its       *)
(* length.  Of names only their length class is told apart; whole-path     *)
(* limits, case folding and the printing and parsing of operations are     *)
(* left out.  The operators take the model as an argument, as the methods  *)
(* do: this module is the library, FsDriver drives it.                     *)
(***************************************************************************)
EXTENDS Naturals, FiniteSets, SequencesExt

CONSTANTS
    Component,  \* what a path is made of: names, "." and ".."
    Root,       \* the workspace's temp root: components of an absolute path
    LongNames,  \* names longer than NAME_MAX
    WideNames,  \* names that do not fit a socket address
    MaxLinks    \* links followed in one lookup (max_symlinks: 32 on macOS, 40 on Linux)

Path == [abs : BOOLEAN, comps : Seq(Component), slash : BOOLEAN]
Rel(cs) == [abs |-> FALSE, comps |-> cs, slash |-> FALSE]
Abs(cs) == [abs |-> TRUE, comps |-> cs, slash |-> FALSE]

NoPath == Rel(<<>>)
IsEmptyPath(p) == ~p.abs /\ p.comps = <<>>
IsRootOperand(p) == p.abs /\ p.comps = <<>>
\* The components that name something.  (A function over prefixes: one can
\* reason about it, as about no SelectSeq.)
RealTo(cs, i, real) ==
    IF i = 0 THEN <<>> ELSE IF cs[i] = "." THEN real[i - 1] ELSE Append(real[i - 1], cs[i])
Real(p) ==
    LET real[i \in 0..Len(p.comps)] == RealTo(p.comps, i, real) IN real[Len(p.comps)]

-----------------------------------------------------------------------------
(* Nodes.  The model is [mac, nodes, cwd, fds, next].                      *)

NoKids == [n \in {} |-> 0]
Node(kind, link, up) ==
    [kind |-> kind, link |-> link, up |-> up, kids |-> NoKids, dead |-> FALSE, len |-> 0,
     over |-> 0, vup |-> 0]
DirNode(up, kids) == [Node("dir", NoPath, up) EXCEPT !.kids = kids]
\* A directory of the host with another one mounted on it, and that one, whose
\* parent in the virtual view is vup.
HostDir(up, over) == [Node("opaque", NoPath, up) EXCEPT !.over = over]
Mounted(up, vup, kids) == [DirNode(up, kids) EXCEPT !.vup = vup]

RootNode == 1
Kid(n, i) == [m \in {n} |-> i]
Pair(n, i, k, j) == [m \in {n, k} |-> IF m = n THEN i ELSE j]

\* Model::new, for a root of one component, and the two sandbox directories
\* that a run of the fuzz driver makes first and never removes.
MacNodes ==
    << DirNode(0, [m \in {"private", "tmp", "var", Root[1]} |->
           CASE m = "private" -> 2 [] m = "tmp" -> 6 [] m = "var" -> 7 [] OTHER -> 8]),
       DirNode(1, Pair("var", 3, "tmp", 4)), DirNode(2, Kid("tmp", 5)),
       HostDir(2, 9), HostDir(3, 11),
       Node("link", Rel(<<"private", "tmp">>), 1), Node("link", Rel(<<"private", "var">>), 1),
       DirNode(1, Pair("tmp", 9, "var", 10)), Mounted(8, 2, Kid("s", 12)),
       DirNode(8, Kid("tmp", 11)), Mounted(10, 3, Kid("s", 13)),
       DirNode(9, NoKids), DirNode(11, NoKids) >>
LinuxNodes ==
    << DirNode(0, [m \in {"tmp", "var", Root[1]} |->
           CASE m = "tmp" -> 2 [] m = "var" -> 3 [] OTHER -> 5]),
       HostDir(1, 6), DirNode(1, Kid("tmp", 4)), HostDir(3, 8),
       DirNode(1, Pair("tmp", 6, "var", 7)), Mounted(5, 1, Kid("s", 9)),
       DirNode(5, Kid("tmp", 8)), Mounted(7, 3, Kid("s", 10)),
       DirNode(6, NoKids), DirNode(8, NoKids) >>

Sandboxes(s) == IF s.mac THEN {12, 13} ELSE {9, 10}

New(mac) ==
    [mac |-> mac, nodes |-> IF mac THEN MacNodes ELSE LinuxNodes,
     cwd |-> IF mac THEN 12 ELSE 9, fds |-> [f \in {} |-> 0], next |-> 3]

IsDirKind(k) == k \in {"dir", "opaque"}
Kind(s, n) == IF n \in DOMAIN s.nodes THEN s.nodes[n].kind ELSE "none"
IsDir(s, n) == IsDirKind(Kind(s, n))
Kids(s, n) == s.nodes[n].kids
\* Mutant: a directory may go with what is in it.
IsEmptyAny(s, n) == TRUE
IsEmpty(s, n) == DOMAIN Kids(s, n) = {}
Has(s, n, name) == name \in DOMAIN Kids(s, n)

Enter(s, view, n) ==
    IF view = "virtual" /\ s.nodes[n].over # 0 THEN s.nodes[n].over ELSE n

\* `..` at the top of a mounted tree is the mount point's parent.
Up(s, view, n) ==
    IF view = "virtual" /\ s.nodes[n].vup # 0 THEN s.nodes[n].vup
    ELSE IF s.nodes[n].up = 0 THEN n ELSE s.nodes[n].up

Ancestors(s, n) ==
    LET above[x \in DOMAIN s.nodes] ==
            {x} \cup IF s.nodes[x].up = 0 THEN {} ELSE above[s.nodes[x].up]
    IN  above[n]

IsDescendant(s, ancestor, n) == ancestor \in Ancestors(s, n)
IsDetached(s, n) == \E a \in Ancestors(s, n) : s.nodes[a].dead

-----------------------------------------------------------------------------
(* Lookup: resolve and follow_symlink                                      *)

AsksDir(p) == p.slash /\ p.comps # <<>>
Origin(s, view, start, p) == Enter(s, view, IF p.abs THEN RootNode ELSE start)
Found(n, links) == [err |-> "ok", node |-> n, links |-> links]
Lost(e, links) == [err |-> e, node |-> 0, links |-> links]

\* A walk: from cur along the components cs.  last: whether a final link is
\* followed; slash: a final slash follows it too, and asks for a directory.
Walks(s) == [cur : DOMAIN s.nodes, cs : Seq(Component), last : BOOLEAN, slash : BOOLEAN, links : Nat]
WalkOf(cur, cs, last, slash, links) ==
    [cur |-> cur, cs |-> cs, last |-> last, slash |-> slash, links |-> links]

\* The walk along the link that x is at, and the rest of x from a node n.
Through(s, view, x, link) ==
    WalkOf(Origin(s, view, x.cur, link), Real(link), TRUE, AsksDir(link), x.links + 1)
Onward(s, view, x, n, links) == WalkOf(Enter(s, view, n), Tail(x.cs), x.last, x.slash, links)

\* What the first name of a walk x stands for; on: a walk's result.
NextNode(s, view, x, on) ==
    LET child == Kids(s, x.cur)[Head(x.cs)]
        link == s.nodes[child].link
    IN  IF s.nodes[child].kind # "link" \/ ~(Tail(x.cs) # <<>> \/ x.slash \/ x.last)
          THEN Found(child, x.links)
        ELSE IF x.links + 1 > MaxLinks THEN Lost("ELOOP", x.links + 1)
        ELSE IF IsEmptyPath(link) THEN Lost("ENOENT", x.links + 1)
        ELSE on[Through(s, view, x, link)]
\* One turn of the loop, r being what the first name stands for.
WalkedTo(s, view, x, r, on) ==
    IF x.cs = <<>> THEN Found(x.cur, x.links)
    ELSE IF Head(x.cs) = ".." THEN on[Onward(s, view, x, Up(s, view, x.cur), x.links)]
    ELSE IF Head(x.cs) \in LongNames THEN Lost("ENAMETOOLONG", x.links)
    ELSE IF ~IsDir(s, x.cur) THEN Lost("ENOTDIR", x.links)
    ELSE IF ~Has(s, x.cur, Head(x.cs)) THEN Lost("ENOENT", x.links)
    ELSE IF r.err # "ok" THEN r
    ELSE IF (Tail(x.cs) # <<>> \/ x.slash) /\ ~IsDir(s, r.node) THEN Lost("ENOTDIR", r.links)
    ELSE on[Onward(s, view, x, r.node, r.links)]
Walked(s, view, x, on) == WalkedTo(s, view, x, NextNode(s, view, x, on), on)
Walk(s, view, from, names, follow, dirOnly, before) ==
    LET on[x \in Walks(s)] == Walked(s, view, x, on)
    IN  on[WalkOf(from, names, follow, dirOnly, before)]

Lookup(s, view, start, p, last, links) ==
    IF IsEmptyPath(p) THEN Lost("ENOENT", links)
    ELSE Walk(s, view, Origin(s, view, start, p), Real(p), last, AsksDir(p), links)
Follow(s, view, dir, link, links) ==
    IF links + 1 > MaxLinks THEN Lost("ELOOP", links + 1)
    ELSE Lookup(s, view, dir, s.nodes[link].link, TRUE, links + 1)

Resolve(s, view, start, p, last) == Lookup(s, view, start, p, last, 0)
FromCwd(s, p, last) == Resolve(s, "virtual", s.cwd, p, last)

\* The starting point of an *at call: no descriptor (0) is the current
\* directory, and an absolute path ignores either.
FdDir(s, fd) ==
    IF fd = 0 THEN Found(s.cwd, 0)
    ELSE IF fd \notin DOMAIN s.fds THEN Lost("EBADF", 0)
    ELSE IF s.fds[fd].dir THEN Found(s.fds[fd].node, 0) ELSE Lost("ENOTDIR", 0)
AtStart(s, fd, p) == IF p.abs THEN Found(RootNode, 0) ELSE FdDir(s, fd)

\* The name of a node: realpath, getcwd.
NamesIn(s, n) ==
    LET up == s.nodes[n].up IN
    IF up = 0 THEN {} ELSE {c \in DOMAIN Kids(s, up) : Kids(s, up)[c] = n}
FullPath(s, view, at) ==
    LET path[n \in DOMAIN s.nodes] ==
          IF view = "virtual" /\ s.nodes[n].vup # 0 THEN Append(path[Up(s, view, n)], "tmp")
          ELSE IF NamesIn(s, n) = {} THEN <<>>
          ELSE Append(path[s.nodes[n].up], CHOOSE c \in NamesIn(s, n) : TRUE)
    IN  path[at]

\* Everything below a directory, by its path from there: a name in it, and what
\* is below that.
Listed(name, node) ==
    [path |-> <<name>>, kind |-> IF IsDirKind(node.kind) THEN "dir" ELSE node.kind,
     link |-> node.link, len |-> node.len]
BelowName(s, view, n, name, below) ==
    LET c == Enter(s, view, Kids(s, n)[name]) IN
    {Listed(name, s.nodes[c])}
    \cup {[e EXCEPT !.path = <<name>> \o @] : e \in IF IsDirKind(s.nodes[c].kind) THEN below[c] ELSE {}}
BelowDir(s, view, n, below) == UNION {BelowName(s, view, n, name, below) : name \in DOMAIN Kids(s, n)}
Below(s, view, at) ==
    LET below[n \in DOMAIN s.nodes] == BelowDir(s, view, n, below) IN below[at]
Tree(s, view, at) ==
    LET r == Resolve(s, view, RootNode, at, TRUE) IN
    IF r.err # "ok" THEN {} ELSE Below(s, view, r.node)

-----------------------------------------------------------------------------
(* The parent of what is made, moved or removed                            *)

Place(n, name, slash) == [err |-> "ok", node |-> n, name |-> name, slash |-> slash]
NoPlace(e) == [err |-> e, node |-> 0, name |-> "none", slash |-> FALSE]

DirOf(p) == [p EXCEPT !.comps = Front(@), !.slash = FALSE]
LastOf(p) == p.comps[Len(p.comps)]
PlaceIn(r, p) == IF r.err = "ok" THEN Place(r.node, LastOf(p), p.slash) ELSE NoPlace(r.err)

\* Parent and last name, from start (a Found or Lost).
ParentUnchecked(s, start, p) ==
    IF IsEmptyPath(p) THEN NoPlace("ENOENT")
    ELSE IF p.comps = <<>> \/ LastOf(p) \in {".", ".."} THEN NoPlace("EINVAL")
    ELSE IF start.err # "ok" \/ IsEmptyPath(DirOf(p)) THEN PlaceIn(start, p)
    ELSE PlaceIn(Resolve(s, "virtual", start.node, DirOf(p), TRUE), p)

Checked(s, place) ==
    IF place.err # "ok" THEN place
    ELSE IF ~IsDir(s, place.node) THEN NoPlace("ENOTDIR")
    ELSE IF place.name \in LongNames THEN NoPlace("ENAMETOOLONG")
    ELSE place
Parent(s, start, p) == Checked(s, ParentUnchecked(s, start, p))

\* Where open(O_CREAT) puts its file: at the end of a chain of links whose
\* last one dangles.  A chase is at a directory, with the rest of the chain.
Chases(s) == [cur : DOMAIN s.nodes, path : Path, links : Nat]
ChaseOf(cur, p, links) == [cur |-> cur, path |-> p, links |-> links]

ChasedDir(s, x) ==
    IF IsEmptyPath(x.path) THEN Lost("ENOENT", x.links)
    ELSE IF Real(x.path) = <<>> THEN Lost("EEXIST", x.links)
    ELSE Walk(s, "virtual", Origin(s, "virtual", x.cur, x.path), Front(Real(x.path)),
              TRUE, TRUE, x.links)
\* One turn of its loop, dir being the directory that holds the last name.
ChasedIn(s, x, dir, on) ==
    LET name == Last(Real(x.path))
        next == s.nodes[Kids(s, dir.node)[name]]
    IN  IF dir.err # "ok" THEN [dir |-> dir, name |-> "none"]
        ELSE IF Has(s, dir.node, name) /\ next.kind = "link" /\ dir.links + 1 <= MaxLinks
          THEN on[ChaseOf(dir.node, next.link, dir.links + 1)]
        ELSE [dir |-> dir, name |-> name]
Chased(s, x, on) == ChasedIn(s, x, ChasedDir(s, x), on)
CreateEnd(s, start, p, links) ==
    LET on[x \in Chases(s)] == Chased(s, x, on) IN on[ChaseOf(start, p, links)]
CreateIn(s, end) ==
    LET dir == end.dir
        name == end.name
    IN  IF dir.err # "ok" THEN NoPlace(dir.err)
        ELSE IF name = ".." THEN NoPlace("EINVAL")
        ELSE IF name \in LongNames THEN NoPlace("ENAMETOOLONG")
        ELSE IF ~IsDir(s, dir.node) THEN NoPlace("ENOTDIR")
        ELSE IF ~Has(s, dir.node, name) THEN Place(dir.node, name, FALSE)
        ELSE IF s.nodes[Kids(s, dir.node)[name]].kind # "link" THEN NoPlace("EEXIST")
        ELSE NoPlace("ELOOP")
CreateAt(s, start, p, links) == CreateIn(s, CreateEnd(s, start, p, links))

\* What a name with a final slash is on macOS, where it is looked up through
\* links: missing, dangling (end: where a creation lands), no directory, or the
\* directory in node.
TrailOf(s, r, end) ==
    CASE r.err = "ENOENT" /\ end.err = "ok" -> [is |-> "dangling", end |-> end]
      [] r.err = "ENOENT" /\ end.err # "ok" -> [is |-> "error", err |-> end.err]
      [] r.err \notin {"ENOENT", "ok"} -> [is |-> "error", err |-> r.err]
      [] r.err = "ok" -> IF IsDir(s, r.node) THEN [is |-> "dir", node |-> r.node]
                         ELSE [is |-> "nondir"]
Trail(s, start, place, p) ==
    IF ~Has(s, place.node, place.name) THEN [is |-> "missing"]
    ELSE LET id == Kids(s, place.node)[place.name] IN
         IF s.nodes[id].kind # "link" THEN TrailOf(s, Found(id, 0), NoPlace("ok"))
         ELSE TrailOf(s, Follow(s, "virtual", place.node, id, 0), CreateAt(s, start.node, p, 0))

\* The parent and name that own a directory reached through a link.
OwnerOf(s, n) ==
    IF s.nodes[n].vup # 0 \/ s.nodes[n].over # 0 \/ NamesIn(s, n) = {} THEN NoPlace("EBUSY")
    ELSE Place(s.nodes[n].up, CHOOSE c \in NamesIn(s, n) : TRUE, FALSE)

\* Mutant: what was removed still takes names.
CheckLiveNot(s, n) == "ok"
CheckLive(s, n) == IF IsDetached(s, n) THEN "ENOENT" ELSE "ok"

-----------------------------------------------------------------------------
(* Results: the model after the call, its errno and the fd it returns      *)

Fail(s, e) == [model |-> s, err |-> e, fd |-> 0]
Done(s) == [model |-> s, err |-> "ok", fd |-> 0]

Entered(kids, name, id) ==
    [c \in DOMAIN kids \cup {name} |-> IF c = name THEN id ELSE kids[c]]
Without(kids, name) == [c \in DOMAIN kids \ {name} |-> kids[c]]

\* push_node, entered in its parent.
Add(s, n, name, node) ==
    LET id == Len(s.nodes) + 1
        entered == [s.nodes EXCEPT ![n].kids = Entered(@, name, id)]
    IN  [s EXCEPT !.nodes = Append(entered, [node EXCEPT !.up = n])]
Drop(s, n, name) == [s EXCEPT !.nodes[n].kids = Without(@, name)]
AllocFd(s, n, dir, write) ==
    [model |-> [s EXCEPT !.fds = [f \in DOMAIN @ \cup {s.next} |->
                    IF f = s.next THEN [node |-> n, dir |-> dir, pos |-> 0, write |-> write]
                                  ELSE @[f]],
                         !.next = @ + 1],
     err |-> "ok", fd |-> s.next]

\* A new node at a place; exists: the errno when the name is taken.
AddAt(s, place, node, exists) ==
    IF place.err # "ok" THEN Fail(s, place.err)
    ELSE IF Has(s, place.node, place.name) THEN Fail(s, exists)
    ELSE IF CheckLive(s, place.node) # "ok" THEN Fail(s, "ENOENT")
    ELSE Done(Add(s, place.node, place.name, node))

OpenNew(r, flags) ==
    IF r.err # "ok" THEN r
    ELSE AllocFd(r.model, Len(r.model.nodes), FALSE, "write" \in flags)
CreateFile(s, place, flags) ==
    OpenNew(AddAt(s, place, Node("file", NoPath, 0), "EEXIST"), flags)

RootErrno(s, linux) == IF s.mac THEN "EISDIR" ELSE linux
=============================================================================
