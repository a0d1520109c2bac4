------------------------------ MODULE MCObjectGC ------------------------------
(* ObjectGC on an instance of two repositories. *)
EXTENDS ObjectGC
CONSTANTS x, y
MCRepos == <<x, y>>
===============================================================================
