------------------------------- MODULE TmpPath -------------------------------
(***************************************************************************)
(* The mapping of the host's temp paths below a workspace's temp root that *)
(* the macOS interposers apply to every path argument                      *)
(* (crates/world-tmp-path/src/lib.rs).  Paths are those of FsModel.  The   *)
(* leading components decide; only a `..` that may cross a symlink is put  *)
(* to the kernel.  Buffers and path lengths are left out.                  *)
(***************************************************************************)
EXTENDS FsOps

-----------------------------------------------------------------------------
(* The scan.  at: where the prefix read so far stands.  "root", "private"  *)
(* and "privvar" are the aliased directories that lead into a temp root;   *)
(* "temp" is below one, sub its place under Root, from the components in   *)
(* front of its remainder; "other" is anywhere else; "escape" is a `..` at *)
(* from whose effect only the kernel knows.                                *)

Scan(at) == [at |-> at, base |-> at, sub |-> <<>>, from |-> 0, depth |-> 0,
             named |-> FALSE, dotdot |-> 0]

BaseParent(b) == IF b = "privvar" THEN "private" ELSE "root"

AtBase(b, c, i) ==
    CASE c = ".." -> Scan(BaseParent(b))
      [] c = "private" /\ b = "root" -> Scan("private")
      [] c = "var" /\ b # "privvar" -> Scan("privvar")
      [] c = "tmp" -> [Scan("temp") EXCEPT
                         !.base = IF b = "privvar" THEN b ELSE "private",
                         !.sub = IF b = "privvar" THEN <<"var", "tmp">> ELSE <<"tmp">>,
                         !.from = i]
      [] OTHER -> [Scan("other") EXCEPT !.base = b, !.depth = 1]

\* A `..` out of the temp root after a name may be crossing a symlink.
AtTemp(st, c, i) ==
    IF c # ".." THEN [st EXCEPT !.depth = @ + 1, !.named = TRUE]
    ELSE IF st.depth # 0 THEN [st EXCEPT !.depth = @ - 1]
    ELSE IF st.named THEN [st EXCEPT !.at = "escape", !.dotdot = i]
    ELSE Scan(st.base)

\* A `..` that pops a name elsewhere matters only when a "tmp" still follows.
AtOther(st, c, i, rest) ==
    IF c # ".." THEN [st EXCEPT !.depth = @ + 1]
    ELSE IF "tmp" \in ToSet(rest) THEN [st EXCEPT !.at = "escape", !.dotdot = i]
    ELSE IF st.depth = 1 THEN Scan(st.base)
    ELSE [st EXCEPT !.depth = @ - 1]

ScanTo(cs, i, st) ==
    IF cs[i] = "." \/ st.at = "escape" THEN st
    ELSE IF st.at = "temp" THEN AtTemp(st, cs[i], i)
    ELSE IF st.at = "other" THEN AtOther(st, cs[i], i, SubSeq(cs, i + 1, Len(cs)))
    ELSE AtBase(st.at, cs[i], i)
Scanned(cs) ==
    LET after[i \in 0..Len(cs)] == IF i = 0 THEN Scan("root") ELSE ScanTo(cs, i, after[i - 1])
    IN  after[Len(cs)]

-----------------------------------------------------------------------------
(* unmap_in_place: the name reported for a physical one.                   *)

Unmap(cs) ==
    LET below(pre) == IsPrefix(pre, cs)
        rest(pre) == SubSeq(cs, Len(pre) + 1, Len(cs))
        inVar == Root \o <<"var", "tmp">>
        inTmp == Root \o <<"tmp">>
    IN  CASE below(inVar) -> [mapped |-> TRUE, comps |-> <<"private", "var", "tmp">> \o rest(inVar)]
          [] below(inTmp) -> [mapped |-> TRUE, comps |-> <<"private", "tmp">> \o rest(inTmp)]
          [] OTHER -> [mapped |-> FALSE, comps |-> cs]

-----------------------------------------------------------------------------
(* map_with: [is, path]; is = "same": use the path as it is written,       *)
(* "to": use path, or the errno of the kernel's answer.                    *)

\* kernel_full_path: the canonical name of a physical directory.  A caller that
\* may not ask gets no answer.
KernelFullPath(s, ask, cs) ==
    LET r == Resolve(s, "physical", RootNode, [Abs(cs) EXCEPT !.slash = TRUE], TRUE) IN
    IF ~ask THEN [err |-> "unresolved", comps |-> <<>>]
    ELSE [err |-> r.err,
          comps |-> IF r.err = "ok" THEN FullPath(s, "physical", r.node) ELSE <<>>]

Result(is, p) == [is |-> is, path |-> p]
DotDots(cs) == Cardinality({i \in DOMAIN cs : cs[i] = ".."})

\* The text in front of a `..` and the `..` itself become the parent of what the
\* kernel resolved (names), by its reported name.
Restarted(p, names, rest) ==
    LET up == Unmap(names).comps
        parent == IF up = <<>> THEN <<>> ELSE Front(up)
    IN  [abs |-> TRUE, comps |-> parent \o rest,
         slash |-> IF rest = <<>> THEN parent # <<>> ELSE p.slash]

\* A scan: of the path q, again after each `..` that was put to the kernel;
\* rewritten: the text as given would walk the host's temp root.
Scans == [q : Path, rewritten : BOOLEAN]
ScanOf(q, rewritten) == [q |-> q, rewritten |-> rewritten]
Mapped(s, ask, x, on) ==
    LET cs == x.q.comps
        st == Scanned(cs)
        below == IF st.from > 0 THEN Root \o st.sub ELSE <<>>
        r == KernelFullPath(s, ask, below \o SubSeq(cs, st.from + 1, st.dotdot - 1))
        next == Restarted(x.q, r.comps, SubSeq(cs, st.dotdot + 1, Len(cs)))
    IN  CASE st.at = "temp" ->
               Result("to", [x.q EXCEPT !.comps = below \o SubSeq(cs, st.from + 1, Len(cs))])
          [] st.at \notin {"temp", "escape"} -> Result(IF x.rewritten THEN "to" ELSE "same", x.q)
          [] st.at = "escape" ->
               IF r.err # "ok" THEN Result(r.err, x.q)
               ELSE IF DotDots(next.comps) >= DotDots(cs) THEN Result("ELOOP", x.q)
               ELSE on[ScanOf(next, x.rewritten \/ st.from > 0)]
MapFrom(s, ask, p) ==
    LET on[x \in Scans] == Mapped(s, ask, x, on) IN on[ScanOf(p, FALSE)]

MapWith(s, ask, p) == IF ~p.abs THEN Result("same", p) ELSE MapFrom(s, ask, p)
Map(s, p) == MapWith(s, TRUE, p)

\* Mutant: a link target is stored as it is written.
MapTargetNot(s, p) == Result("same", p)
\* map_target: what only the kernel could decide is stored as it is written.
MapTarget(s, p) ==
    LET known(r) == IF r.is = "unresolved" THEN Result("same", p) ELSE r IN
    known(MapWith(s, FALSE, p))

-----------------------------------------------------------------------------
(* map_at_with: a path relative to the directory base names physically.    *)

FirstReal(cs) == LET real == SelectSeq(cs, LAMBDA c : c # ".") IN
                 IF real = <<>> THEN "" ELSE Head(real)

\* Leading "." and ".." are taken off textually.
Leading(cs) == Max({k \in 0..Len(cs) : \A i \in 1..k : cs[i] \in {".", ".."}})
Pop(cs, n) == SubSeq(cs, 1, IF n < Len(cs) THEN Len(cs) - n ELSE 0)

\* A base inside the private tree goes by its host name: a `..` from there
\* lands on the reported parent.
BaseName(base) == Unmap(base)

\* The text mapped in place of p, and its outcome.
JoinedOr(p, under, joined, r) ==
    IF r.is = "same" THEN IF under.mapped THEN Result("to", joined) ELSE Result("same", p)
    ELSE r
MapJoined(s, p, under) ==
    LET k == Leading(p.comps)
        rest == SubSeq(p.comps, k + 1, Len(p.comps))
        joined == [abs |-> TRUE, slash |-> rest # <<>> /\ p.slash,
                   comps |-> Pop(under.comps, DotDots(SubSeq(p.comps, 1, k))) \o rest]
    IN  JoinedOr(p, under, joined, Map(s, joined))
MapAt(s, p, base) ==
    IF p.abs THEN Map(s, p)
    ELSE IF ".." \in ToSet(p.comps) \/ FirstReal(p.comps) \in {"tmp", "private", "var"}
      THEN MapJoined(s, p, BaseName(base))
      ELSE Result("same", p)
=============================================================================
