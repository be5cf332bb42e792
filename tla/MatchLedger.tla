----------------------------- MODULE MatchLedger -----------------------------
(***************************************************************************)
(* What the game server and the tables promise about a match: it is played *)
(* until it has a result or is given up, has one result at most, and that  *)
(* result is what is stored, at most once.                                 *)
(***************************************************************************)
EXTENDS Sequences

CONSTANTS Matches, Results

VARIABLES
  playing,    \* the matches on a board
  announced,  \* the results their players were told
  rows        \* the results stored

Init ==
  /\ playing = {}
  /\ announced = [m \in Matches |-> << >>]
  /\ rows = [m \in Matches |-> << >>]

Begin(m) ==
  /\ announced[m] = << >>
  /\ playing' = playing \cup {m}
  /\ UNCHANGED <<announced, rows>>

GiveUp(S) ==
  /\ playing' = playing \ S
  /\ UNCHANGED <<announced, rows>>

Finish(m, result) ==
  /\ m \in playing
  /\ announced[m] = << >>
  /\ playing' = playing \ {m}
  /\ announced' = [announced EXCEPT ![m] = <<result>>]
  /\ UNCHANGED rows

Store(m) ==
  /\ announced[m] # << >>
  /\ rows[m] = << >>
  /\ rows' = [rows EXCEPT ![m] = announced[m]]
  /\ UNCHANGED <<playing, announced>>

Next ==
  \/ \E m \in Matches : Begin(m) \/ Store(m)
  \/ \E S \in SUBSET playing : GiveUp(S)
  \/ \E m \in Matches, result \in Results : Finish(m, result)

Spec == Init /\ [][Next]_<<playing, announced, rows>>
=============================================================================
