---------------------------- MODULE MCLfsObjects -----------------------------
(* Small instances of LfsObjects: two contents of one size, one or two sizes *)
(* to declare, calls that are interchangeable.                               *)
EXTENDS LfsObjects, TLC

CONSTANTS a, b

MCSizeOf == (a :> 1) @@ (b :> 1)
MCCalls == Permutations(Calls)
===============================================================================
