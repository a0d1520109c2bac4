----------------------------- MODULE MCWebhooks -----------------------------
(* A small instance of Webhooks: an event of one repository, one of another. *)
EXTENDS Webhooks, TLC

CONSTANTS e1, e2, r1, r2

MCRepoOf == (e1 :> r1) @@ (e2 :> r2)
===============================================================================
