----------------------------- MODULE MCRealtime -----------------------------
(* The instance of Realtime that TLC checks: users are interchangeable. *)
EXTENDS Realtime, TLC

Perms == Permutations(Users)
=============================================================================
