---------------------------- MODULE SessionChain ----------------------------
(***************************************************************************)
(* What refresh tokens promise: a sign-in starts a chain of tokens, of     *)
(* which one at most can be exchanged at any time.  An exchange spends it  *)
(* for a new one; a log-out ends the chain, and a token once spent or      *)
(* revoked is never good again.                                            *)
(***************************************************************************)
CONSTANT Tokens

VARIABLES
  issued,   \* the tokens given out so far
  current   \* what can be exchanged, by the token the chain began with

Init ==
  /\ issued = {}
  /\ current = [r \in Tokens |-> {}]

SignIn(r) ==
  /\ r \notin issued
  /\ issued'  = issued \cup {r}
  /\ current' = [current EXCEPT ![r] = {r}]

Exchange(r, u) ==
  /\ \E t \in issued : current[r] = {t}
  /\ u \notin issued
  /\ issued'  = issued \cup {u}
  /\ current' = [current EXCEPT ![r] = {u}]

Revoke(r) ==
  /\ current' = [current EXCEPT ![r] = {}]
  /\ UNCHANGED issued

Next ==
  \/ \E r \in Tokens : SignIn(r) \/ Revoke(r)
  \/ \E r, u \in Tokens : Exchange(r, u)

Spec == Init /\ [][Next]_<<issued, current>>
=============================================================================
