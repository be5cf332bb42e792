--------------------------- MODULE MCMatchmaking ---------------------------
(* Instances of Matchmaking: who makes which request. *)
EXTENDS Matchmaking, TLC

CONSTANTS r1, r2, r3, r4, ann, ben, cem, dia

(* Players who each ask once; what is asked again is what Redis lost. *)
ThreePlayers == r1 :> ann @@ r2 :> ben @@ r3 :> cem
FourPlayers  == ThreePlayers @@ r4 :> dia
=============================================================================
