---------------------------- MODULE GameControl ----------------------------
(***************************************************************************)
(* The GameControl gRPC service (services/api/rpc/servicer.py): resume     *)
(* tokens kept in Redis, and the finished games kept in Postgres.  Each    *)
(* handler is one action here; GameServer composes them with the workers   *)
(* that call them and with the loss of their answers.                      *)
(***************************************************************************)
EXTENDS Integers, Sequences, FiniteSets

CONSTANTS
  Matches,   \* match ids, rows of table matches
  Users,     \* user ids
  Pairing,   \* who plays a match: [Matches -> [Colors -> Users]]
  Claims,    \* the (match, user, color) a client may ask a seat for
  Tokens,    \* resume tokens, the values secrets.token_urlsafe may draw
  None       \* nullptr, the empty string, no value

Colors  == {"white", "black"}
Results == Colors \cup {"draw", "abandoned"}

Seating == [match : Matches, user : Users, color : Colors]

ASSUME ControlAssumption ==
  /\ Pairing \in [Matches -> [Colors -> Users]]
  /\ Claims \subseteq Seating
  /\ None \notin Matches \cup Users \cup Tokens \cup Seating

VARIABLES
  store,     \* Redis: the life of the key resume:<token>
  grant,     \* the value stored under a token: the seat it restores
  rows,      \* table games: the results inserted for a match, oldest first
  status     \* table matches: column status

controlVars == <<store, grant, rows, status>>

ControlTypeOK ==
  /\ store  \in [Tokens -> {"unissued", "live", "gone"}]
  /\ grant  \in [Tokens -> Claims \cup {None}]
  /\ \A t \in Tokens : store[t] # "unissued" => grant[t] # None
  /\ rows   \in [Matches -> Seq(Results)]
  /\ status \in [Matches -> {"pending", "completed"}]

ControlInit ==
  /\ store  = [t \in Tokens |-> "unissued"]
  /\ grant  = [t \in Tokens |-> None]
  /\ rows   = [m \in Matches |-> << >>]
  /\ status = [m \in Matches |-> "pending"]

-----------------------------------------------------------------------------
(* CreateResumeToken: a fresh random key holding match:user:color. *)
CreateResumeToken(c, t) ==
  /\ store[t] = "unissued"
  /\ store' = [store EXCEPT ![t] = "live"]
  /\ grant' = [grant EXCEPT ![t] = c]
  /\ UNCHANGED <<rows, status>>

(* ResolveResumeToken: GETDEL, so the key is read and removed at once. *)
Redeemable(t) == store[t] = "live"

(* Slip: GET, with the DEL left out. *)
PeekResumeToken(t) == UNCHANGED <<store, grant, rows, status>>

ResolveResumeToken(t) ==
  /\ store' = [store EXCEPT ![t] = "gone"]
  /\ UNCHANGED <<grant, rows, status>>

(* The key expires RESUME_TOKEN_TTL seconds after CreateResumeToken. *)
ExpireResumeToken(t) ==
  /\ store[t] = "live"
  /\ store' = [store EXCEPT ![t] = "gone"]
  /\ UNCHANGED <<grant, rows, status>>

(* The column result, from the winner the game server names. *)
ResultOf(m, winner) ==
  CASE winner = None                  -> "draw"
    [] winner = Pairing[m]["white"]   -> "white"
    [] winner = Pairing[m]["black"]   -> "black"
    [] OTHER                          -> "abandoned"

(* ReportGameEnd: one transaction that inserts a game and closes the match. *)
ReportGameEnd(m, winner) ==
  /\ rows'   = [rows EXCEPT ![m] = Append(@, ResultOf(m, winner))]
  /\ status' = [status EXCEPT ![m] = "completed"]
  /\ UNCHANGED <<store, grant>>
=============================================================================
