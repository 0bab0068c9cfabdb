----------------------------- MODULE RolloutDag -----------------------------
(***************************************************************************)
(* The dependency graph of a rollout, derived from what the board holds of *)
(* its items (services/rollout_dag.py): who blocks whom, and which items   *)
(* mean to change the same files.                                          *)
(*                                                                         *)
(* A path is the sequence of its components.  An entry of files_to_modify  *)
(* is what it names after braces and prose are expanded, and its shape: a  *)
(* file (the last component has a dot, no slash follows it), a directory   *)
(* (a slash follows, or no dot), or a glob for all that is below a path.   *)
(* The order of the edges is not modelled: a set has them once.            *)
(***************************************************************************)
EXTENDS Naturals, Sequences, FiniteSets

Shape == {"file", "dir", "glob"}

\* Is path p the path q or an ancestor of it?
Within(p, q) == Len(p) <= Len(q) /\ SubSeq(q, 1, Len(p)) = p
OnOneLine(p, q) == Within(p, q) \/ Within(q, p)

Candidates(entry) == {[at |-> name, is |-> entry.is] : name \in entry.names}
ItemPaths(files) == UNION {Candidates(entry) : entry \in files}

-----------------------------------------------------------------------------
(* Overlap of two items *)

MutantLiteralPathsOverlap(a, b) ==
  a.at = b.at \/ (a.is = "dir" /\ Within(a.at, b.at))

\* Two files, a file and a directory, or two directories.
LiteralPathsOverlap(a, b) ==
  \/ a.at = b.at
  \/ a.is = "dir" /\ Within(a.at, b.at)
  \/ b.is = "dir" /\ Within(b.at, a.at)

\* fnmatch: the star of the glob g crosses slashes.
Matches(g, a) == Within(g.at, a.at) /\ g.at # a.at

\* A glob that meets a glob or a directory overlaps when the fixed prefixes
\* lie on one path: it fails closed.
CandidatesOverlap(a, b) ==
  \/ "glob" \notin {a.is, b.is} /\ LiteralPathsOverlap(a, b)
  \/ a.is = "glob" /\ b.is = "file" /\ Matches(a, b)
  \/ b.is = "glob" /\ a.is = "file" /\ Matches(b, a)
  \/ "glob" \in {a.is, b.is} /\ "file" \notin {a.is, b.is} /\ OnOneLine(a.at, b.at)

PathsOverlap(filesA, filesB) ==
  \E a \in ItemPaths(filesA), b \in ItemPaths(filesB) : CandidatesOverlap(a, b)

-----------------------------------------------------------------------------
(* Edges, of a caller's order of items *)

Members(order) == {order[k] : k \in DOMAIN order}

\* fetch_dependency_pairs: <<blocked, blocker>>, both of them in the rollout.
DependencyPairs(blockers, order) == blockers \cap (Members(order) \X Members(order))

BlockerEdges(blockers, order) ==
  {<<pair[2], pair[1]>> : pair \in DependencyPairs(blockers, order)}

\* Every earlier item before every later one that overlaps it.
OverlapEdges(files, order) ==
  {<<order[jk[1]], order[jk[2]]>> :
      jk \in {p \in (DOMAIN order) \X (DOMAIN order) :
                p[1] < p[2] /\ PathsOverlap(files[order[p[1]]], files[order[p[2]]])}}

MergeEdges(files, blockers, order) ==
  BlockerEdges(blockers, order) \cup OverlapEdges(files, order)

Preds(edges, i) == {e[1] : e \in {d \in edges : d[2] = i}}

-----------------------------------------------------------------------------
(* assert_acyclic: Kahn's algorithm, as the positions of the order whose   *)
(* items it takes from its queue.  An item without predecessors is queued  *)
(* once for each of its positions, any other once, when its count reaches  *)
(* zero.                                                                   *)

FirstOf(order, k) == \A j \in 1..(k - 1) : order[j] # order[k]

MutantReleased(edges, order, popped, k) ==
  LET preds == Preds(edges, order[k]) IN
  preds = {} \/ \E j \in popped : order[j] \in preds

Released(edges, order, popped, k) ==
  LET preds == Preds(edges, order[k]) IN
  \/ preds = {}
  \/ /\ FirstOf(order, k)
     /\ Cardinality({j \in popped : order[j] \in preds}) >= Cardinality(preds)

\* What the queue has given out after n rounds; no more come after as many
\* rounds as there are positions.
Rounds(edges, order) ==
  LET round[n \in 0..Len(order)] ==
        IF n = 0 THEN {}
        ELSE {k \in DOMAIN order : Released(edges, order, round[n - 1], k)}
  IN round

Popped(edges, order) == Rounds(edges, order)[Len(order)]

AssertAcyclic(edges, order) == Cardinality(Popped(edges, order)) = Len(order)
=============================================================================
