----------------------------- MODULE MCAdminRoles ----------------------------
(***************************************************************************)
(* Three accounts, two of them Admins at the start.  The order of the ids  *)
(* matters, so only the requests are symmetric.                            *)
(***************************************************************************)
EXTENDS AdminRoles, TLC

RequestSymmetry == Permutations(Requests)
=============================================================================
