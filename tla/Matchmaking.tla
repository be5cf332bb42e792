---------------------------- MODULE Matchmaking ----------------------------
(***************************************************************************)
(* Matchmaking (services/api/matchmaking/routes.py): POST /request queues  *)
(* a player in a Redis list and tries to pair the first two, GET /ticket   *)
(* polls for the ticket of a match somebody else's request made.           *)
(*                                                                         *)
(* One event loop runs all handlers; each await on Redis lets the others   *)
(* run.  So a handler is a process whose steps are its Redis commands, and *)
(* create_match, which blocks the loop, one step more.                     *)
(*                                                                         *)
(* A command fails without effect (Fail, FailRead), or takes effect and    *)
(* its answer is lost (the actions named Unheard): the handler is where it *)
(* was, the client library sends the command again or the handler fails.   *)
(***************************************************************************)
EXTENDS Integers, Sequences, FiniteSets

CONSTANTS
  Requests,  \* calls of POST /request for one time control and increment
  Users,
  Owner,     \* who makes a request: [Requests -> Users]
  MayFail,   \* whether Redis and Postgres may fail
  MaxUnheard, \* bound: answers lost of commands that took effect
  None

ASSUME MatchmakingAssumption ==
  /\ Owner \in [Requests -> Users]
  /\ MayFail \in BOOLEAN
  /\ MaxUnheard \in Nat
  /\ None \notin Requests

VARIABLES
  queue,     \* the list mm:queue:<time_control>:<increment>
  pc,        \* where the handler of a request is, or how it answered
  popped,    \* its local variable players
  match,     \* the match it made, as the entries of white and black
  stored,    \* the key mm:ticket:<user>: the request whose match it is for
  reading,   \* the ticket a GET /ticket handler read and must still delete
  tickets,   \* the tickets a user was given, by the request that made them
  arrived,   \* history: the entries that were queued
  dropped,   \* history: the entries that a failure took out of the queue
  unheard,   \* history: how many answers were lost
  fresh      \* the matches whose kept ticket is younger than 60 seconds, as
             \* long as no GET /ticket delivered it or failed over it

requestVars == <<queue, pc, popped, match, arrived, dropped, unheard>>
ticketVars  == <<stored, reading, tickets, fresh>>
vars == <<requestVars, ticketVars>>

Places  == {"new", "pushing", "pushed", "popping", "requeueing", "matching", "storing"}
Answers == {"queued", "matched", "failed"}

(* The string a request puts in the list.  Copies of it are equal strings, *)
(* told apart here by the number of the lost answer that made them; 0 is   *)
(* the one that was answered.                                              *)
Entries == Requests \X Nat

Player(e) == Owner[e[1]]

EntriesOf(list) == {list[i] : i \in DOMAIN list}

TypeOK ==
  /\ queue   \in Seq(Entries)
  /\ pc      \in [Requests -> Places \cup Answers]
  /\ popped  \in [Requests -> Seq(Entries)]
  /\ match   \in [Requests -> Seq(Entries)]
  /\ stored  \in [Users -> Requests \cup {None}]
  /\ reading \in [Users -> Requests \cup {None}]
  /\ tickets \in [Users -> SUBSET Requests]
  /\ arrived \subseteq Entries
  /\ dropped \subseteq Entries
  /\ unheard \in Nat
  /\ fresh   \subseteq Requests

Init ==
  /\ queue   = << >>
  /\ pc      = [q \in Requests |-> "new"]
  /\ popped  = [q \in Requests |-> << >>]
  /\ match   = [q \in Requests |-> << >>]
  /\ stored  = [u \in Users |-> None]
  /\ reading = [u \in Users |-> None]
  /\ tickets = [u \in Users |-> {}]
  /\ arrived = {}
  /\ dropped = {}
  /\ unheard = 0
  /\ fresh   = {}

-----------------------------------------------------------------------------
(* POST /request *)

Goto(q, place) == pc' = [pc EXCEPT ![q] = place]

(* A command took effect and its answer is lost. *)
Unheard ==
  /\ MayFail
  /\ unheard < MaxUnheard
  /\ unheard' = unheard + 1

(* RPUSH *)
Push(q) ==
  /\ pc[q] \in {"new", "pushing"}
  /\ Goto(q, "pushed")
  /\ queue'   = Append(queue, <<q, 0>>)
  /\ arrived' = arrived \cup {<<q, 0>>}
  /\ UNCHANGED <<popped, match, dropped, unheard, ticketVars>>

PushUnheard(q) ==
  /\ pc[q] \in {"new", "pushing"}
  /\ Unheard
  /\ Goto(q, "pushing")
  /\ queue'   = Append(queue, <<q, unheard'>>)
  /\ arrived' = arrived \cup {<<q, unheard'>>}
  /\ UNCHANGED <<popped, match, dropped, ticketVars>>

(* LLEN decides whether this request tries to make a match. *)
Count(q) ==
  /\ pc[q] = "pushed"
  /\ Goto(q, IF Len(queue) < 2 THEN "queued" ELSE "popping")
  /\ UNCHANGED <<queue, popped, match, arrived, dropped, unheard, ticketVars>>

(* An LLEN for the position answered, which may fail. *)
Answer(q) == Goto(q, "queued") \/ (MayFail /\ Goto(q, "failed"))

(* LPOP queue 2 takes what there is, up to two entries. *)
Taken == SubSeq(queue, 1, IF Len(queue) < 2 THEN Len(queue) ELSE 2)

(* Slip: LRANGE, which leaves the entries in the list. *)
LeftAll == queue

Left == SubSeq(queue, 3, Len(queue))

Pop(q) ==
  /\ pc[q] = "popping"
  /\ popped' = [popped EXCEPT ![q] = Taken]
  /\ queue'  = Left
  /\ \/ Len(Taken) = 2 /\ Goto(q, "matching")
     \/ Len(Taken) = 1 /\ Goto(q, "requeueing")
     \/ Len(Taken) = 0 /\ Answer(q)
  /\ UNCHANGED <<match, arrived, dropped, unheard, ticketVars>>

(* What it took is nowhere; sent again, it takes the next. *)
PopUnheard(q) ==
  /\ pc[q] = "popping"
  /\ Unheard
  /\ queue'   = Left
  /\ dropped' = dropped \cup EntriesOf(Taken)
  /\ UNCHANGED <<pc, popped, match, arrived, ticketVars>>

(* Slip: the list of players is pushed as one entry. *)
RequeueAll(q) ==
  /\ pc[q] = "requeueing"
  /\ queue'  = <<popped[q]>> \o queue
  /\ popped' = [popped EXCEPT ![q] = << >>]
  /\ Goto(q, "queued")
  /\ UNCHANGED <<match, arrived, dropped, unheard, ticketVars>>

(* The defensive requeue: LPUSH puts a lone player back in front. *)
Requeue(q) ==
  /\ pc[q] = "requeueing"
  /\ queue'  = popped[q] \o queue
  /\ popped' = [popped EXCEPT ![q] = << >>]
  /\ Answer(q)
  /\ UNCHANGED <<match, arrived, dropped, unheard, ticketVars>>

(* A copy of what it still holds is back in the list. *)
RequeueUnheard(q) ==
  /\ pc[q] = "requeueing"
  /\ Unheard
  /\ LET copy == <<popped[q][1][1], unheard'>> IN
     /\ queue'   = <<copy>> \o queue
     /\ arrived' = arrived \cup {copy}
  /\ UNCHANGED <<pc, popped, match, dropped, ticketVars>>

(* create_match, after which both tickets are signed.  It refuses a player *)
(* paired with itself; both entries are gone.                              *)
CreateMatch(q) ==
  /\ pc[q] = "matching"
  /\ Player(popped[q][1]) # Player(popped[q][2])
  /\ match'  = [match EXCEPT ![q] = popped[q]]
  /\ popped' = [popped EXCEPT ![q] = << >>]
  /\ Goto(q, "storing")
  /\ fresh'  = fresh \cup {q}
  /\ UNCHANGED <<queue, arrived, dropped, unheard, stored, reading, tickets>>

(* The handler ends, and with it what it popped. *)
Drop(q) ==
  /\ dropped' = dropped \cup EntriesOf(popped[q])
  /\ popped'  = [popped EXCEPT ![q] = << >>]

(* Slip: the refusal is answered like a request that is still queued. *)
RefuseQuietly(q) ==
  /\ pc[q] = "matching"
  /\ Player(popped[q][1]) = Player(popped[q][2])
  /\ Goto(q, "queued")
  /\ Drop(q)
  /\ UNCHANGED <<queue, match, arrived, unheard, ticketVars>>

RefuseSelfMatch(q) ==
  /\ pc[q] = "matching"
  /\ Player(popped[q][1]) = Player(popped[q][2])
  /\ Goto(q, "failed")
  /\ Drop(q)
  /\ UNCHANGED <<queue, match, arrived, unheard, ticketVars>>

(* Slip: the ticket is kept for the requester itself. *)
SamePlayer(q) == Owner[q]

(* other_user_id: the player of the match that is not the requester, or    *)
(* the first if the requester is neither.                                  *)
OtherPlayer(q) ==
  IF Player(match[q][1]) = Owner[q] THEN Player(match[q][2]) ELSE Player(match[q][1])

(* SET mm:ticket:<other>, and the answer that gives the requester a ticket. *)
StoreTicket(q) ==
  /\ pc[q] = "storing"
  /\ Goto(q, "matched")
  /\ stored'  = [stored EXCEPT ![OtherPlayer(q)] = q]
  /\ tickets' = [tickets EXCEPT ![Owner[q]] = @ \cup {q}]
  /\ UNCHANGED <<queue, popped, match, arrived, dropped, unheard, reading, fresh>>

StoreUnheard(q) ==
  /\ pc[q] = "storing"
  /\ Unheard
  /\ stored' = [stored EXCEPT ![OtherPlayer(q)] = q]
  /\ UNCHANGED <<queue, pc, popped, match, arrived, dropped, reading, tickets, fresh>>

(* A command or create_match raises, and the request is answered with an   *)
(* error; nothing puts back what it popped.                                *)
Fail(q) ==
  /\ MayFail
  /\ pc[q] \in Places
  /\ Goto(q, "failed")
  /\ Drop(q)
  /\ UNCHANGED <<queue, match, arrived, unheard, ticketVars>>

-----------------------------------------------------------------------------
(* GET /ticket: a GET, then a DEL of whatever is there by then. *)
ReadTicket(u) ==
  /\ reading[u] = None
  /\ stored[u] # None
  /\ reading' = [reading EXCEPT ![u] = stored[u]]
  /\ UNCHANGED <<requestVars, stored, tickets, fresh>>

DeleteTicket(u) ==
  /\ reading[u] # None
  /\ stored'  = [stored EXCEPT ![u] = None]
  /\ tickets' = [tickets EXCEPT ![u] = @ \cup {reading[u]}]
  /\ fresh'   = fresh \ {reading[u]}
  /\ reading' = [reading EXCEPT ![u] = None]
  /\ UNCHANGED requestVars

(* Sent again, the DEL takes whatever was stored in between. *)
DeleteUnheard(u) ==
  /\ reading[u] # None
  /\ Unheard
  /\ stored' = [stored EXCEPT ![u] = None]
  /\ UNCHANGED <<queue, pc, popped, match, arrived, dropped, reading, tickets, fresh>>

(* The DEL raises: no ticket is answered. *)
FailRead(u) ==
  /\ MayFail
  /\ reading[u] # None
  /\ fresh'   = fresh \ {reading[u]}
  /\ reading' = [reading EXCEPT ![u] = None]
  /\ UNCHANGED <<requestVars, stored, tickets>>

(* create_match_ticket signs for 60 seconds: the tickets of q grow old. *)
GrowOld(q) ==
  /\ q \in fresh
  /\ fresh' = fresh \ {q}
  /\ UNCHANGED <<requestVars, stored, reading, tickets>>

(* Slip: the key is kept for less than the ticket is good. *)
ExpireTicketEarly(u) ==
  /\ stored[u] # None
  /\ stored' = [stored EXCEPT ![u] = None]
  /\ UNCHANGED <<requestVars, reading, tickets, fresh>>

(* The key expires 90 seconds after the SET, which follows the signature. *)
ExpireTicket(u) ==
  /\ stored[u] # None
  /\ stored[u] \notin fresh
  /\ stored' = [stored EXCEPT ![u] = None]
  /\ UNCHANGED <<requestVars, reading, tickets, fresh>>

Next ==
  \/ \E q \in Requests :
       \/ Push(q) \/ PushUnheard(q) \/ Count(q) \/ Pop(q) \/ PopUnheard(q)
       \/ Requeue(q) \/ RequeueUnheard(q) \/ CreateMatch(q) \/ RefuseSelfMatch(q)
       \/ StoreTicket(q) \/ StoreUnheard(q) \/ Fail(q) \/ GrowOld(q)
  \/ \E u \in Users :
       \/ ReadTicket(u) \/ DeleteTicket(u) \/ DeleteUnheard(u) \/ FailRead(u)
       \/ ExpireTicket(u)

Spec == Init /\ [][Next]_vars

-----------------------------------------------------------------------------
(* Safety *)

(* While handlers pop, put back and pair concurrently, each entry queued   *)
(* and not dropped is in the list, or in the hands of one handler that is  *)
(* still at it, or in one match, and in one position there: none is paired *)
(* twice, and none disappears but where a failure drops it.                *)
EntriesConserved ==
  \A e \in arrived :
    LET spots == {<<"queue", i>> : i \in {j \in DOMAIN queue : queue[j] = e}}
          \cup {spot \in Requests \X {1, 2} :
                  \E entries \in {popped[spot[1]], match[spot[1]]} :
                    spot[2] \in DOMAIN entries /\ entries[spot[2]] = e}
    IN Cardinality(spots) = IF e \in dropped THEN 0 ELSE 1

(* Failures do drop entries, whose players were told that they are queued  *)
(* and are not told more.  How many is bounded by what went wrong: two for *)
(* each request that was answered with an error, and two for each answer   *)
(* of Redis that was lost and did not make a copy instead.                 *)
Copies == {e \in arrived : e[2] # 0}

Failed == {q \in Requests : pc[q] = "failed"}

LossesHaveFailures ==
  Cardinality(dropped) <= 2 * (Cardinality(Failed) + unheard - Cardinality(Copies))

Plays(u, q) == \E i \in DOMAIN match[q] : Player(match[q][i]) = u

(* A ticket kept for polling, or being read, is for its user's own match.  *)
StoredTicketsAreForPlayers ==
  \A u \in Users : {stored[u], reading[u]} \subseteq
                     {None} \cup {q \in Requests : Plays(u, q)}

(* While it is good for anything, the ticket of a match made can be polled *)
(* until it is delivered, through concurrent polls and expiries; unless a  *)
(* poll failed over it, or a second match of the same player displaced it  *)
(* (SET over it, or DEL after a GET of the older one).                     *)
FreshTicketsCanBePolled ==
  \A q \in fresh : pc[q] = "matched" =>
    LET u == OtherPlayer(q) IN
    \/ q \in {stored[u], reading[u]}
    \/ \E r \in Requests \ {q} : match[r] # << >> /\ OtherPlayer(r) = u

(* "issue the ticket for the requesting user": a ticket a user was given   *)
(* is for a match that user plays in.                                      *)
TicketsAreForPlayers ==
  \A u \in Users : \A q \in tickets[u] : Plays(u, q)

(* Two players never wait side by side: once every request so far has been *)
(* answered, fewer than two are left in the list.                          *)
Answered == \A q \in Requests : pc[q] \in Answers \cup {"new"}

NobodyWaitsBesideAnother == Answered => Len(queue) < 2
=============================================================================
