----------------------------- MODULE MCSessions -----------------------------
(* Small instances of Sessions: users, tokens and calls are interchangeable. *)
EXTENDS Sessions, TLC

Interchangeable == Permutations(Users) \cup Permutations(Tokens) \cup Permutations(Calls)
=============================================================================
