---------------------------- MODULE MCGameServer ----------------------------
(* Small instances of GameServer: who plays whom, and what clients may do. *)
EXTENDS GameServer, TLC

CONSTANTS m1, m2, alice, bob

(* One match between two players, who each hold their own ticket. *)
OnePairing == [m \in Matches |-> [c \in Colors |-> IF c = "white" THEN alice ELSE bob]]

(* Two matches between the same players, with the colours swapped. *)
TwoPairings ==
  [m \in Matches |-> [c \in Colors |->
     IF (m = m1) = (c = "white") THEN alice ELSE bob]]

HonestClaims == {[match |-> m, user |-> Pairing[m][c], color |-> c] :
                   m \in Matches, c \in Colors}

Disciplined == {}
Overlapping == {"overlap"}
Crossing    == {"overlap", "reuse"}
Rebinding   == {"rebind"}

Interchangeable ==
  Permutations(Sockets) \cup Permutations(Workers) \cup Permutations(Tokens)
=============================================================================
