------------------------------ MODULE MCAccounts -----------------------------
(***************************************************************************)
(* One account and the requests that race on it.                           *)
(***************************************************************************)
EXTENDS Accounts, TLC

Symmetry ==
    Permutations(Passwords) \cup Permutations(Tokens)
        \cup Permutations(Sessions) \cup Permutations(Requests)
=============================================================================
