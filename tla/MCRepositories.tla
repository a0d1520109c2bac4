---------------------------- MODULE MCRepositories ----------------------------
(* Repositories on an instance of two names and three rows; names and calls *)
(* are interchangeable.                                                     *)
EXTENDS Repositories, FiniteSetsExt, TLC
Symmetry == Permutations(Names) \cup Permutations(Calls)

\* Bound: on what has been written and inserted for all repositories together.
CONSTANT MaxMarks
BoundMarks == MapThenSumSet(LAMBDA n : Cardinality(store[n]), Names)
              + MapThenSumSet(LAMBDA i : Cardinality(deps[i]), Ids) <= MaxMarks
===============================================================================
