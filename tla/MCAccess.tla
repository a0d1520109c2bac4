------------------------------ MODULE MCAccess -------------------------------
(* A small instance of Access: an owner, a guest and the admin account, one  *)
(* repository, one key, one drawn token and two values of ADMIN_TOKEN.       *)
EXTENDS Access, TLC

CONSTANTS owner, r

MCOwnerOf == r :> owner
===============================================================================
