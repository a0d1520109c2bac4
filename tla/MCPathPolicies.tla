---------------------------- MODULE MCPathPolicies ----------------------------
(***************************************************************************)
(* PathPolicies on two paths, a file that may be a directory and a file in *)
(* it, and patterns that operators get right and wrong.                    *)
(***************************************************************************)
EXTENDS PathPolicies, TLC
CONSTANTS small, big

file == <<"a">>
inside == <<"a", "b">>
MCPaths == {file, inside}
MCPatterns == {<<"", "", "a", "b", "">>, <<"a", "", "b">>, <<"", "">>}
Tree(p, b) == [x \in MCPaths |-> IF x = p THEN b ELSE None]
MCClientTrees == {Tree(inside, small), Tree(file, big)}
\* Bound: a push of two lines moves two branches to different commits.
BoundLines ==
  \A c \in Pushes : Stands(c, "hook") =>
    LET u == calls[c].updates IN
    \A r, x \in DOMAIN u : r # x => u[r] # u[x] /\ u[r] # None
\* Bound: no commit leaves the tree of its only parent as it is, and not all
\* three are roots.
BoundHistory ==
  /\ \A i, j \in Made : commits[i].parents = {j} => commits[i].tree # commits[j].tree
  /\ Cardinality({i \in Made : commits[i].parents = {}}) <= 2
Symmetry == Permutations(Refs)
===============================================================================
