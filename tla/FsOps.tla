-------------------------------- MODULE FsOps --------------------------------
(***************************************************************************)
(* The operations of the file-system model (Model::apply).                 *)
(***************************************************************************)
EXTENDS FsModel

\* Linux ignores a final slash; macOS resolves the name through links.
MkdirTrail(s, place, t) ==
    CASE t.is = "error"    -> Fail(s, t.err)
      [] t.is = "dir"      -> Fail(s, "EEXIST")
      [] t.is = "nondir"   -> Fail(s, "ENOTDIR")
      [] t.is \in {"missing", "dangling"} ->
            AddAt(s, IF t.is = "missing" THEN place ELSE t.end, Node("dir", NoPath, 0), "EEXIST")
MkdirAt(s, start, place, p) ==
    IF place.err = "ok" /\ place.slash /\ s.mac
      THEN MkdirTrail(s, place, Trail(s, start, place, p))
      ELSE AddAt(s, place, Node("dir", NoPath, 0), "EEXIST")
Mkdir(s, fd, p) ==
    IF IsRootOperand(p) THEN Fail(s, RootErrno(s, "EEXIST"))
    ELSE MkdirAt(s, AtStart(s, fd, p), Parent(s, AtStart(s, fd, p), p), p)

\* The errno of symlink and bind when a slash ends the name: they never make it.
TrailErrno(t, exists) ==
    CASE t.is = "error"                   -> t.err
      [] t.is \in {"missing", "dangling"} -> "ENOENT"
      [] t.is = "nondir"                  -> "ENOTDIR"
      [] t.is = "dir"                     -> exists
TrailingCreate(s, start, place, p, exists) ==
    IF s.mac THEN TrailErrno(Trail(s, start, place, p), exists)
    ELSE IF Has(s, place.node, place.name) THEN exists ELSE "ENOENT"

SymlinkAt(s, target, place, p) ==
    IF place.err = "ok" /\ place.slash
      THEN Fail(s, TrailingCreate(s, Found(s.cwd, 0), place, p, "EEXIST"))
      ELSE AddAt(s, place, Node("link", target, 0), "EEXIST")
Symlink(s, target, p) ==
    IF IsEmptyPath(target) /\ ~s.mac THEN Fail(s, "ENOENT")
    ELSE IF IsRootOperand(p) THEN Fail(s, RootErrno(s, "EEXIST"))
    ELSE SymlinkAt(s, target, Parent(s, Found(s.cwd, 0), p), p)

\* A socket.  macOS follows a final link, and a dangling chain to its end.
BindAt(s, place, p) ==
    LET through == /\ s.mac /\ Has(s, place.node, place.name)
                   /\ s.nodes[Kids(s, place.node)[place.name]].kind = "link"
        used(end) == IF end.err = "EEXIST" THEN NoPlace("EADDRINUSE") ELSE end
    IN  IF place.err # "ok" THEN Fail(s, place.err)
        ELSE IF place.slash
          THEN Fail(s, TrailingCreate(s, Found(s.cwd, 0), place, p, "EADDRINUSE"))
        ELSE IF place.name \in WideNames THEN Fail(s, "ENAMETOOLONG")
        ELSE AddAt(s, IF through THEN used(CreateAt(s, s.cwd, p, 0)) ELSE place,
                   Node("socket", NoPath, 0), "EADDRINUSE")
Bind(s, p) ==
    IF IsRootOperand(p) THEN Fail(s, IF s.mac THEN "EISDIR" ELSE "EADDRINUSE")
    ELSE BindAt(s, Parent(s, Found(s.cwd, 0), p), p)

Mkstemp(s, name) ==
    IF name \in LongNames THEN Fail(s, "ENAMETOOLONG")
    ELSE IF name \in {".", ".."} THEN Fail(s, "EEXIST")
    ELSE CreateFile(s, Place(s.cwd, name, FALSE), {"write"})

-----------------------------------------------------------------------------
(* open.  flags is a subset of {create, excl, trunc, write, directory,     *)
(* nofollow}.                                                              *)

\* O_CREAT with a final slash never creates; a name "." or ".." is looked up.
OpenSlash(s, start, place, p, flags) ==
    IF place.err # "ok" THEN place.err
    ELSE IF ~IsDir(s, place.node) THEN "ENOTDIR"
    ELSE IF ~s.mac THEN "EISDIR"
    ELSE IF place.name \in LongNames THEN "ENAMETOOLONG"
    ELSE TrailErrno(Trail(s, start, place, p), IF "excl" \in flags THEN "EEXIST" ELSE "EISDIR")

\* What was found is opened.
OpenNode(s, n, flags) ==
    CASE IsDir(s, n) ->
            IF flags \cap {"write", "trunc"} # {} THEN Fail(s, "EISDIR")
            ELSE AllocFd(s, n, TRUE, FALSE)
      [] Kind(s, n) = "link" -> Fail(s, IF "directory" \in flags THEN "ENOTDIR" ELSE "ELOOP")
      [] Kind(s, n) = "file" ->
            IF "directory" \in flags THEN Fail(s, "ENOTDIR")
            ELSE AllocFd(IF "trunc" \in flags THEN [s EXCEPT !.nodes[n].len = 0] ELSE s,
                         n, FALSE, "write" \in flags)
      [] OTHER -> Fail(s, IF s.mac THEN "EOPNOTSUPP" ELSE "ENXIO")

OpenFound(s, start, r, p, flags) ==
    IF r.err = "ok" THEN OpenNode(s, r.node, flags)
    ELSE IF r.err = "ENOENT" /\ "create" \in flags
      THEN CreateFile(s, CreateAt(s, start.node, p, 0), flags)
    ELSE Fail(s, r.err)
OpenPlain(s, start, p, flags) ==
    IF {"create", "excl"} \subseteq flags THEN CreateFile(s, Parent(s, start, p), flags)
    ELSE IF start.err # "ok" THEN Fail(s, start.err)
    ELSE OpenFound(s, start, Resolve(s, "virtual", start.node, p, "nofollow" \notin flags), p, flags)
OpenFrom(s, start, slashed, p, flags) ==
    IF slashed \in {"plain", "EINVAL"} THEN OpenPlain(s, start, p, flags) ELSE Fail(s, slashed)

Open(s, fd, p, flags) ==
    IF {"create", "directory"} \subseteq flags THEN Fail(s, "EINVAL")
    ELSE IF "create" \in flags /\ IsRootOperand(p)
      THEN Fail(s, RootErrno(s, IF "excl" \in flags THEN "EEXIST" ELSE "EISDIR"))
    ELSE LET start == AtStart(s, fd, p) IN
         OpenFrom(s, start,
                  IF "create" \in flags /\ p.slash
                    THEN OpenSlash(s, start, ParentUnchecked(s, start, p), p, flags) ELSE "plain",
                  p, flags)

\* Mutant: whatever was found will do.
ToDirAny(s, r) == r
ToDir(s, r) == IF r.err = "ok" /\ ~IsDir(s, r.node) THEN Lost("ENOTDIR", 0) ELSE r
OpenedDir(s, r) == IF r.err = "ok" THEN AllocFd(s, r.node, TRUE, FALSE) ELSE Fail(s, r.err)
OpenDir(s, p) == OpenedDir(s, ToDir(s, FromCwd(s, p, TRUE)))

\* A gap left by a truncation is filled with zeros.
Write(s, fd, n) ==
    IF fd \notin DOMAIN s.fds \/ ~s.fds[fd].write THEN Fail(s, "EBADF")
    ELSE LET end == s.fds[fd].pos + n IN
         Done([s EXCEPT !.nodes[s.fds[fd].node].len = IF @ < end THEN end ELSE @,
                        !.fds[fd].pos = end])

Read(s, fd, n) ==
    IF fd \notin DOMAIN s.fds THEN Fail(s, "EBADF")
    ELSE IF s.fds[fd].dir THEN Fail(s, "EISDIR")
    ELSE LET len == s.nodes[s.fds[fd].node].len
             pos == s.fds[fd].pos
             start == IF pos < len THEN pos ELSE len
             end == IF start + n < len THEN start + n ELSE len
         IN  Done([s EXCEPT !.fds[fd].pos = pos + (end - start)])

Close(s, fd) ==
    IF fd \notin DOMAIN s.fds THEN Fail(s, "EBADF")
    ELSE Done([s EXCEPT !.fds = [f \in DOMAIN @ \ {fd} |-> @[f]]])

-----------------------------------------------------------------------------
(* unlink, rmdir and rename                                                *)

\* On macOS a final slash of what is removed or moved looks through links and
\* asks for a directory: its owner and name, or the errno.
ThroughSlash(s, place, t) ==
    CASE t.is = "error"                   -> NoPlace(t.err)
      [] t.is \in {"missing", "dangling"} -> NoPlace("ENOENT")
      [] t.is = "nondir"                  -> NoPlace("ENOTDIR")
      [] t.is = "dir" -> IF Kids(s, place.node)[place.name] = t.node THEN place
                         ELSE OwnerOf(s, t.node)

RemoveEntry(s, place) ==
    LET id == Kids(s, place.node)[place.name] IN
    [Drop(s, place.node, place.name) EXCEPT !.nodes[id].dead = IsDir(s, id)]

UnlinkAt(s, named, place, rmdir) ==
    LET id == Kids(s, place.node)[place.name] IN
    IF place.err # "ok" THEN Fail(s, place.err)
    ELSE IF rmdir /\ ~IsDir(s, id) THEN Fail(s, "ENOTDIR")
    ELSE IF rmdir /\ ~IsEmpty(s, id) THEN Fail(s, "ENOTEMPTY")
    ELSE IF ~rmdir /\ IsDir(s, id) THEN Fail(s, "EISDIR")
    ELSE IF ~rmdir /\ named.slash THEN Fail(s, "ENOTDIR")
    ELSE Done(RemoveEntry(s, place))
UnlinkTrail(s, named, trail, rmdir) ==
    IF trail.is = "dir" /\ ~rmdir THEN Fail(s, "EPERM")
    ELSE UnlinkAt(s, named, ThroughSlash(s, named, trail), rmdir)
UnlinkNamed(s, start, named, p, rmdir) ==
    IF named.err # "ok" THEN Fail(s, named.err)
    ELSE IF ~Has(s, named.node, named.name) THEN Fail(s, "ENOENT")
    ELSE IF s.mac /\ named.slash THEN UnlinkTrail(s, named, Trail(s, start, named, p), rmdir)
    ELSE UnlinkAt(s, named, named, rmdir)
Unlink(s, fd, p, rmdir) ==
    IF IsRootOperand(p) THEN Fail(s, RootErrno(s, IF rmdir THEN "EBUSY" ELSE "EISDIR"))
    ELSE LET start == AtStart(s, fd, p) IN
         UnlinkNamed(s, start, Parent(s, start, p), p, rmdir)

\* On Linux the private directories are mounts of their own.
MountOf(s, n) ==
    LET find(cs) == Resolve(s, "physical", RootNode, Abs(Root \o cs), TRUE).node
        up == Ancestors(s, n)
    IN  IF s.mac THEN 0
        ELSE IF find(<<"tmp">>) \in up THEN 1
        ELSE IF find(<<"var", "tmp">>) \in up THEN 2 ELSE 0

\* Where the moved node goes; on macOS a slash there looks through links, and
\* a name that does not exist accepts only a directory.
LandingTrail(s, place, t, fromDir) ==
    CASE t.is = "missing" /\ fromDir  -> place
      [] t.is = "dangling" /\ fromDir -> t.end
      [] OTHER                        -> ThroughSlash(s, place, t)
Landing(s, place, p, fromDir) ==
    IF s.mac /\ place.err = "ok" /\ place.slash
      THEN LandingTrail(s, place, Trail(s, Found(s.cwd, 0), place, p), fromDir) ELSE place

\* What the destination must not be; "same" when it is the source itself.
Collision(s, id, to) ==
    IF ~Has(s, to.node, to.name) THEN "ok"
    ELSE LET old == Kids(s, to.node)[to.name] IN
         IF old = id THEN "same"
         ELSE IF ~s.mac /\ IsDescendant(s, old, id) THEN "ENOTEMPTY"
         ELSE IF IsDir(s, id) /\ IsDir(s, old)
           THEN IF IsEmpty(s, old) THEN "ok" ELSE "ENOTEMPTY"
         ELSE IF IsDir(s, id) THEN "ENOTDIR"
         ELSE IF IsDir(s, old) THEN "EISDIR" ELSE "ok"

\* Mutant: the moved node keeps its parent.
MoveKeepsUp(s, from, to) ==
    LET id == Kids(s, from.node)[from.name] IN
    [Drop(s, from.node, from.name) EXCEPT
        !.nodes[to.node].kids = Entered(@, to.name, id)]
Move(s, from, to) ==
    LET id == Kids(s, from.node)[from.name]
        gone == Drop(s, from.node, from.name)
        free == IF Has(gone, to.node, to.name) THEN RemoveEntry(gone, to) ELSE gone
    IN  [free EXCEPT !.nodes[to.node].kids = Entered(@, to.name, id),
                     !.nodes[id].up = to.node]

MoveUnless(s, hit, from, to) ==
    IF hit = "same" THEN Done(s) ELSE IF hit = "ok" THEN Done(Move(s, from, to)) ELSE Fail(s, hit)
RenameTo(s, slash, from, to) ==
    LET id == Kids(s, from.node)[from.name] IN
    IF to.err # "ok" THEN Fail(s, to.err)
    ELSE IF MountOf(s, from.node) # MountOf(s, to.node) THEN Fail(s, "EXDEV")
    ELSE IF CheckLive(s, to.node) # "ok" THEN Fail(s, "ENOENT")
    ELSE IF ~s.mac /\ slash /\ ~IsDir(s, id) THEN Fail(s, "ENOTDIR")
    ELSE IF IsDescendant(s, id, to.node) THEN Fail(s, "EINVAL")
    ELSE MoveUnless(s, Collision(s, id, to), from, to)
RenameOnto(s, slash, from, place, q) ==
    IF from.err # "ok" THEN Fail(s, from.err)
    ELSE RenameTo(s, slash, from,
                  Landing(s, place, q, IsDir(s, Kids(s, from.node)[from.name])))
RenameNamed(s, named, place, p, q) ==
    IF named.err # "ok" THEN Fail(s, named.err)
    ELSE IF ~Has(s, named.node, named.name) THEN Fail(s, "ENOENT")
    ELSE RenameOnto(s, named.slash \/ place.slash,
                    IF s.mac /\ named.slash
                      THEN ThroughSlash(s, named, Trail(s, Found(s.cwd, 0), named, p)) ELSE named,
                    place, q)

\* The operand "/" is refused; Linux looks at the other one's parent first.
RenameRoot(s, places) ==
    IF s.mac THEN "EISDIR"
    ELSE IF \A place \in places : place.err = "ok" THEN "EBUSY"
    ELSE (CHOOSE place \in places : place.err # "ok").err
Rename(s, p, q) ==
    IF IsRootOperand(p) \/ IsRootOperand(q)
      THEN Fail(s, RenameRoot(s, {Parent(s, Found(s.cwd, 0), r) :
                                    r \in {r \in {p, q} : ~IsRootOperand(r)}}))
      ELSE RenameNamed(s, Parent(s, Found(s.cwd, 0), p), Parent(s, Found(s.cwd, 0), q), p, q)

-----------------------------------------------------------------------------
(* chdir and the operations that change nothing                            *)

MovedTo(s, r) == IF r.err = "ok" THEN Done([s EXCEPT !.cwd = r.node]) ELSE Fail(s, r.err)
Chdir(s, p) == MovedTo(s, ToDir(s, FromCwd(s, p, TRUE)))

Answer(e, x) == [err |-> e, is |-> x]

Getcwd(s) ==
    IF IsDetached(s, s.cwd) THEN Answer("ENOENT", <<>>)
    ELSE Answer("ok", FullPath(s, "virtual", s.cwd))
\* libc starts a relative path from getcwd.
Realpath(s, p) ==
    LET r == FromCwd(s, p, TRUE) IN
    IF ~p.abs /\ IsDetached(s, s.cwd) THEN Answer("ENOENT", <<>>)
    ELSE IF r.err # "ok" THEN Answer(r.err, <<>>)
    ELSE Answer("ok", FullPath(s, "virtual", r.node))
Stat(s, p, follow) ==
    LET r == FromCwd(s, p, follow) IN
    Answer(r.err, IF r.err = "ok" THEN s.nodes[r.node].kind ELSE "")
Readlink(s, p) ==
    LET r == FromCwd(s, p, FALSE) IN
    IF r.err # "ok" THEN Answer(r.err, NoPath)
    ELSE IF s.nodes[r.node].kind # "link" THEN Answer("EINVAL", NoPath)
    ELSE Answer("ok", s.nodes[r.node].link)
List(s, p) ==
    LET r == FromCwd(s, p, TRUE) IN
    IF r.err # "ok" THEN Answer(r.err, {})
    ELSE IF IsDir(s, r.node) THEN Answer("ok", DOMAIN Kids(s, r.node)) ELSE Answer("ENOTDIR", {})

\* A server is reached only through a socket; the last name and a slash must
\* fit the address.
Connect(s, p) ==
    LET dir == [p EXCEPT !.comps = Front(@), !.slash = FALSE]
        parent == IF IsEmptyPath(dir) THEN Found(s.cwd, 0) ELSE FromCwd(s, dir, TRUE)
        r == FromCwd(s, p, TRUE)
    IN  IF IsRootOperand(p) THEN IF s.mac THEN "ENOTSOCK" ELSE "EACCES"
        ELSE IF IsEmptyPath(p) THEN "ENOENT"
        ELSE IF parent.err # "ok" THEN parent.err
        ELSE IF ~IsDir(s, parent.node) THEN "ENOTDIR"
        ELSE IF p.comps[Len(p.comps)] \in WideNames THEN "ENAMETOOLONG"
        ELSE IF r.err # "ok" THEN r.err
        ELSE IF s.nodes[r.node].kind = "socket" THEN "ok"
        ELSE IF s.mac THEN "ENOTSOCK" ELSE "ECONNREFUSED"
=============================================================================
