---------------------------- MODULE MCCommitOps -----------------------------
(* Small instances of CommitOps: two names, directories one level deep.     *)
EXTENDS CommitOps, TLC

CONSTANTS h, b, at, q

MCPaths == {<<"a">>, <<"x">>, <<"a", "x">>, <<"x", "x">>, <<"g">>, <<"g", "x">>}
MCAttrPath == <<"g">>
MCBlocked == {<<"g", "x">>}
MCNoneBlocked == {}
\* q is a pointer already; the attributes track the files in x and a.
MCPointerTo == [x \in {h, b, at, q} |-> q]
MCTracks == (h :> {}) @@ (b :> {}) @@ (q :> {}) @@ (at :> {<<"a">>, <<"x">>, <<"x", "x">>})
MCTree(m) == [p \in MCPaths |-> IF p \in DOMAIN m THEN m[p] ELSE None]
MCHeadTrees == {
  MCTree(<<>>),
  MCTree((<<"x", "x">> :> h) @@ (<<"g">> :> at)),
  MCTree((<<"a">> :> h) @@ (<<"x">> :> b)),
  MCTree((<<"a", "x">> :> h) @@ (<<"x", "x">> :> q))}
===============================================================================
