------------------------------- MODULE FsTree -------------------------------
(***************************************************************************)
(* What the file-system model promises of its nodes (Model.nodes of        *)
(* crates/world-fsmodel/src/lib.rs), whatever paths, links and slashes     *)
(* lead to them: they are one tree below Top.  A call makes a node in a    *)
(* live directory, removes a name, or moves one to where it is not above   *)
(* itself; nothing else changes the tree.                                  *)
(*                                                                         *)
(* A tree is [count, dirs, up, entries, dead, above]:                      *)
(*   nodes 1..count, in the order they were made; those that are           *)
(*   directories; the parent of each, 0 for Top; the names; directories    *)
(*   that were removed; the ancestors of each, itself among them.          *)
(*                                                                         *)
(* Names are entries: a directory, a name, a node.  A node that lost its   *)
(* name keeps its parent; a directory that lost it is dead.  above is what *)
(* the parents lead to, which the code reads off them (is_descendant,      *)
(* is_detached).                                                           *)
(***************************************************************************)
EXTENDS Naturals

VARIABLE tree

Top == 1
Entry(d, c, n) == [dir |-> d, name |-> c, node |-> n]
At(t, d, c) == {e \in t.entries : e.dir = d /\ e.name = c}
Under(t, n) == {e \in t.entries : e.dir = n}
Live(t, d) == d \in t.dirs /\ t.above[d] \cap t.dead = {}

-----------------------------------------------------------------------------
(* One tree                                                                *)

TreeTypeOK(t) ==
    /\ t.count \in Nat \ {0}
    /\ t.dirs \subseteq 1..t.count /\ t.dead \subseteq t.dirs
    /\ t.up \in [1..t.count -> 0..t.count]
    /\ \A e \in t.entries :
        e.dir \in t.dirs /\ e.node \in 1..t.count /\ e = Entry(e.dir, e.name, e.node)
    /\ t.above \in [1..t.count -> SUBSET (1..t.count)]

\* From every node the parents lead to Top, and never back to the node.
RootedBy(k, dirs, up, above) ==
    /\ up[Top] = 0 /\ above[Top] = {Top}
    /\ \A n \in 2..k :
        /\ up[n] \in dirs /\ n \notin above[up[n]]
        /\ above[n] = {n} \cup above[up[n]] /\ Top \in above[n]
    /\ \A a, b \in 1..k : a \in above[b] => above[a] \subseteq above[b]
Rooted(t) == RootedBy(t.count, t.dirs, t.up, t.above)

\* A node's name is in its parent, and it has no other.
Named(t) ==
    /\ \A e \in t.entries : e.node # Top /\ t.up[e.node] = e.dir
    /\ \A e, f \in t.entries :
        e.node = f.node \/ (e.dir = f.dir /\ e.name = f.name) => e = f

\* A directory without a name was removed, and it stays empty.
RemovedAreEmpty(t) ==
    /\ \A n \in t.dirs \ {Top} : n \in t.dead <=> \A e \in t.entries : e.node # n
    /\ Top \notin t.dead
    /\ \A e \in t.entries : e.dir \notin t.dead

OneTree(t) == TreeTypeOK(t) /\ Rooted(t) /\ Named(t) /\ RemovedAreEmpty(t)

-----------------------------------------------------------------------------
(* The steps, from a tree t to a tree u                                    *)

\* push_node below a directory that check_live accepts.
NodeMade(t, u, d, c) ==
    LET n == u.count IN
    /\ Live(t, d) /\ At(t, d, c) = {}
    /\ n = t.count + 1
    /\ u.entries = t.entries \cup {Entry(d, c, n)}
    /\ u.dirs \in {t.dirs, t.dirs \cup {n}}
    /\ u.up = [x \in 1..n |-> IF x = n THEN d ELSE t.up[x]]
    /\ u.above = [x \in 1..n |-> IF x = n THEN t.above[d] \cup {n} ELSE t.above[x]]
    /\ u.dead = t.dead

\* unlink, and rmdir of a directory that is empty.
NameRemoved(t, u, e) ==
    /\ Under(t, e.node) = {}
    /\ u.entries = t.entries \ {e}
    /\ u.dead = t.dead \cup ({e.node} \cap t.dirs)
    /\ u.count = t.count /\ u.dirs = t.dirs /\ u.up = t.up /\ u.above = t.above

\* A file replaces a file, a directory one that is empty.
Replaces(t, n, old) == n # old /\ (n \in t.dirs <=> old \in t.dirs) /\ Under(t, old) = {}

\* What is above each node once node n has gone to directory d.
AboveMoved(k, above, n, d) ==
    [x \in 1..k |-> IF n \in above[x] THEN {a \in above[x] : n \in above[a]} \cup above[d]
                    ELSE above[x]]

\* rename: never into the moved directory itself.
NodeMoved(t, u, e, d, c) ==
    /\ Live(t, d) /\ e.node \notin t.above[d]
    /\ \A old \in At(t, d, c) : Replaces(t, e.node, old.node)
    /\ u.entries = (t.entries \ ({e} \cup At(t, d, c))) \cup {Entry(d, c, e.node)}
    /\ u.dead = t.dead \cup ({old.node : old \in At(t, d, c)} \cap t.dirs)
    /\ u.count = t.count /\ u.dirs = t.dirs
    /\ u.up = [t.up EXCEPT ![e.node] = d]
    /\ u.above = AboveMoved(t.count, t.above, e.node, d)

\* A step gives one new name, or takes one away.
Edit(t, u) ==
    \/ \E f \in u.entries \ t.entries : NodeMade(t, u, f.dir, f.name)
    \/ \E e \in t.entries \ u.entries : NameRemoved(t, u, e)
    \/ \E e \in t.entries \ u.entries, f \in u.entries \ t.entries :
         NodeMoved(t, u, e, f.dir, f.name)

\* Model::new: some tree, and nothing was removed yet.
TreeInit == OneTree(tree) /\ tree.dead = {}
TreeNext == Edit(tree, tree')

TreeSpec == TreeInit /\ [][TreeNext]_tree

=============================================================================
