----------------------------- MODULE GameServer -----------------------------
(***************************************************************************)
(* The WebSocket game server (services/gameserver/src/server.cpp).         *)
(*                                                                         *)
(* One uWS loop thread runs the handlers .open, .message and .close and    *)
(* the closures passed to loop->defer; rooms_, sockets_ and the gauges     *)
(* belong to it.  A pool of workers takes jobs from grpc_jobs_, calls the  *)
(* GameControl service, and defers what it learnt back to the loop.  While *)
(* a job is away the loop goes on: sockets close, rooms come and go.       *)
(*                                                                         *)
(* A message that only gets an error reply (too large, too many, bad JSON, *)
(* not your turn, illegal move, unknown type) changes no state modelled    *)
(* here and is a stuttering step.                                          *)
(***************************************************************************)
EXTENDS GameControl

CONSTANTS
  Sockets,     \* connections, in the order-free sense of socket_id
  Workers,     \* the GRPC_WORKER_COUNT threads
  ClientMay,   \* what clients do beyond asking once, in turn (see JoinMessage)
  MinPlies,    \* the shortest game: each side has moved
  MaxPlies,    \* bound: no game is longer
  MaxAsks,     \* bound: join_match and resume_match messages
  MaxRestarts  \* bound: process crashes

ASSUME ServerAssumption ==
  /\ None \notin Sockets
  /\ ClientMay \subseteq {"rebind", "overlap", "reuse"}
  /\ {MinPlies, MaxPlies, MaxAsks, MaxRestarts} \subseteq Nat
  /\ 2 <= MinPlies

VARIABLES
  sock,        \* the connection, as the server knows it
  bound,       \* PerSocketData: game_id, user_id and color
  live,        \* the keys of rooms_
  seat,        \* MatchRoom.white and MatchRoom.black
  plies,       \* MatchRoom.board: how many moves have been made on it
  activeGames, \* gauge chess_active_games
  connected,   \* gauge chess_connected_sockets
  jobs,        \* grpc_jobs_
  work,        \* what each worker holds
  deferred,    \* closures handed to uWS::Loop::defer, run in order
  asked,       \* clients: the seat a connection last asked for
  asks,        \* clients: how many times a seat was asked for
  used,        \* clients: the tickets presented so far
  known,       \* clients: the resume tokens that reached them
  view,        \* clients: the ply their board shows, -1 before any
  announced,   \* clients: the results of the game_over messages of a match
  restarts     \* crashes so far

loopVars   == <<sock, bound, live, seat, plies, activeGames, connected>>
poolVars   == <<jobs, work, deferred>>
askVars    == <<asked, asks, used>>
clientVars == <<askVars, known, view, announced>>
vars == <<loopVars, poolVars, clientVars, restarts, controlVars>>

Idle == [kind |-> "idle"]

Jobs == [kind : {"join"},   sock : Sockets, claim : Claims]
   \cup [kind : {"resume"}, sock : Sockets, token : Tokens]
   \cup [kind : {"report"}, match : Matches, winner : Users \cup {None}]

Mints == [kind : {"mint"}, sock : Sockets, claim : Claims,
          reply : {"joined", "resumed"}]

Replies == [kind : {"refused"}, sock : Sockets]
      \cup [kind : {"joined", "resumed"}, sock : Sockets, claim : Claims,
            token : Tokens \cup {None}]

TypeOK ==
  /\ sock        \in [Sockets -> {"new", "open", "closed"}]
  /\ bound       \in [Sockets -> Claims \cup {None}]
  /\ live        \subseteq Matches
  /\ seat        \in [Matches -> [Colors -> Sockets \cup {None}]]
  /\ plies       \in [Matches -> 0 .. MaxPlies]
  /\ activeGames \in Int
  /\ connected   \in Int
  /\ jobs        \in Seq(Jobs)
  /\ work        \in [Workers -> {Idle} \cup Jobs \cup Mints]
  /\ deferred    \in Seq(Replies)
  /\ asked       \in [Sockets -> Claims \cup {None}]
  /\ asks        \in 0 .. MaxAsks
  /\ used        \subseteq Claims
  /\ known       \subseteq Tokens
  /\ view        \in [Sockets -> -1 .. MaxPlies]
  /\ announced   \in [Matches -> Seq(Results)]
  /\ restarts    \in 0 .. MaxRestarts
  /\ ControlTypeOK

Vacant == [c \in Colors |-> None]

Init ==
  /\ sock  = [s \in Sockets |-> "new"]
  /\ bound = [s \in Sockets |-> None]
  /\ live  = {}
  /\ seat  = [m \in Matches |-> Vacant]
  /\ plies = [m \in Matches |-> 0]
  /\ activeGames = 0
  /\ connected   = 0
  /\ jobs     = << >>
  /\ work     = [w \in Workers |-> Idle]
  /\ deferred = << >>
  /\ asked = [s \in Sockets |-> None]
  /\ asks  = 0
  /\ used  = {}
  /\ known = {}
  /\ view  = [s \in Sockets |-> -1]
  /\ announced = [m \in Matches |-> << >>]
  /\ restarts  = 0
  /\ ControlInit

-----------------------------------------------------------------------------
(* What a client with the seat c in hand may do.  Asking once on each      *)
(* connection, over a connection opened after the server closed the last   *)
(* one, with a ticket shown once, is always allowed.                       *)
(*   "rebind"   asks again on a connection that already asked;             *)
(*   "overlap"  reconnects before the server noticed the old one is gone;  *)
(*   "reuse"    shows a ticket again within its 60 seconds.                *)
MayAsk(s, c) ==
  /\ sock[s] = "open"
  /\ asks < MaxAsks
  /\ "rebind" \in ClientMay \/ asked[s] = None
  /\ "overlap" \in ClientMay
     \/ \A r \in Sockets \ {s} : sock[r] = "open" => asked[r] # c

Enqueue(job) == jobs' = Append(jobs, job)

Defer(reply) == deferred' = Append(deferred, reply)

(* .open *)
Open(s) ==
  /\ sock[s] = "new"
  /\ sock' = [sock EXCEPT ![s] = "open"]
  /\ connected' = connected + 1
  /\ UNCHANGED <<bound, live, seat, plies, activeGames, poolVars, clientVars,
                 restarts, controlVars>>

(* .message join_match: the ticket is verified by a worker. *)
JoinMessage(s, c) ==
  /\ MayAsk(s, c)
  /\ "reuse" \in ClientMay \/ c \notin used
  /\ Enqueue([kind |-> "join", sock |-> s, claim |-> c])
  /\ asked' = [asked EXCEPT ![s] = c]
  /\ asks'  = asks + 1
  /\ used'  = used \cup {c}
  /\ UNCHANGED <<loopVars, work, deferred, known, view, announced, restarts,
                 controlVars>>

(* .message resume_match, with a token some earlier reply delivered. *)
ResumeMessage(s, t) ==
  /\ t \in known
  /\ MayAsk(s, grant[t])
  /\ Enqueue([kind |-> "resume", sock |-> s, token |-> t])
  /\ asked' = [asked EXCEPT ![s] = grant[t]]
  /\ asks'  = asks + 1
  /\ UNCHANGED <<loopVars, work, deferred, used, known, view, announced,
                 restarts, controlVars>>

-----------------------------------------------------------------------------
(* A move on the board of the sender's room. *)
Room(s) == bound[s].match

ToMove(m) == IF plies[m] % 2 = 0 THEN "white" ELSE "black"

(* Slip: "else if" between the two sends. *)
BroadcastToOne(m, ply) ==
  LET first == IF seat[m]["white"] # None THEN "white" ELSE "black" IN
  [s \in Sockets |-> IF sock[s] = "open" /\ seat[m][first] = s
                     THEN ply ELSE view[s]]

(* broadcastToRoom: the board after a move reaches whoever is seated. *)
Broadcast(m, ply) ==
  [s \in Sockets |-> IF sock[s] = "open" /\ \E c \in Colors : seat[m][c] = s
                     THEN ply ELSE view[s]]

(* Slip: LOSE read as the side that just moved. *)
LoserIds(m, result) ==
  IF result = "draw" THEN {None}
  ELSE LET s == seat[m][CHOOSE c \in Colors : c # result] IN
       IF s = None THEN {None}
       ELSE IF sock[s] = "open" /\ bound[s] # None THEN {bound[s].user}
       ELSE Users \cup {None}

(* The user_id read through the winner's seat.  An empty seat gives "";    *)
(* reading through a seat whose socket was freed gives anything (that it   *)
(* may also crash is a Restart).                                           *)
WinnerIds(m, result) ==
  IF result = "draw" THEN {None}
  ELSE LET s == seat[m][result] IN
       IF s = None THEN {None}
       ELSE IF sock[s] = "open" /\ bound[s] # None THEN {bound[s].user}
       ELSE Users \cup {None}

CanMove(s) ==
  /\ sock[s] = "open"
  /\ bound[s] # None
  /\ Room(s) \in live
  /\ bound[s].color = ToMove(Room(s))
  /\ plies[Room(s)] < MaxPlies

(* Slip: the room stays in rooms_ after game over. *)
EraseNoRoom(m) == UNCHANGED <<live, seat, activeGames>>

(* rooms_.erase, which frees the board and both seat pointers. *)
EraseRoom(m) ==
  /\ live'  = live \ {m}
  /\ seat'  = [seat EXCEPT ![m] = Vacant]
  /\ activeGames' = activeGames - 1

(* .message move, legal and not the end of the game *)
MoveMessage(s) ==
  /\ CanMove(s)
  /\ LET ply == plies[Room(s)] + 1 IN
     /\ plies' = [plies EXCEPT ![Room(s)] = ply]
     /\ view'  = Broadcast(Room(s), ply)
  /\ UNCHANGED <<sock, bound, live, seat, activeGames, connected, poolVars,
                 askVars, known, announced, restarts, controlVars>>

(* .message move, legal and ending the game: mate by the mover, or a draw *)
FinalMove(s, result, winner) ==
  LET m == Room(s)  ply == plies[m] + 1 IN
  /\ CanMove(s)
  /\ ply >= MinPlies
  /\ result \in {"draw", bound[s].color}
  /\ winner \in WinnerIds(m, result)
  /\ plies' = [plies EXCEPT ![m] = ply]
  /\ view'  = Broadcast(m, ply)
  /\ announced' = [announced EXCEPT ![m] = Append(@, result)]
  /\ Enqueue([kind |-> "report", match |-> m, winner |-> winner])
  /\ EraseRoom(m)
  /\ UNCHANGED <<sock, bound, connected, work, deferred, askVars, known,
                 restarts, controlVars>>

-----------------------------------------------------------------------------
(* .close, which ws->close() also runs before it returns *)
(* Slips: the close handler clears the opponent's seat, or no seat. *)
Other(c) == IF c = "white" THEN "black" ELSE "white"

SeatsWithoutOther(s) ==
  IF bound[s] # None /\ Room(s) \in live
  THEN [seat EXCEPT ![Room(s)][Other(bound[s].color)] = None]
  ELSE seat

SeatsUntouched(s) == seat

SeatsWithout(s) ==
  IF bound[s] # None /\ Room(s) \in live
  THEN [seat EXCEPT ![Room(s)][bound[s].color] = None]
  ELSE seat

(* Slips: one player gone is enough to erase the room, or never enough. *)
LeavesRoom(s) == bound[s] # None /\ Room(s) \in live
NeverLeavesEmpty(s) == FALSE

LeavesEmpty(s) ==
  /\ bound[s] # None
  /\ Room(s) \in live
  /\ SeatsWithout(s)[Room(s)] = Vacant

(* Slip: the early return for a socket without a room skips the gauge. *)
CloseHandlerSkippingGauge(s) ==
  /\ sock'  = [sock EXCEPT ![s] = "closed"]
  /\ bound' = [bound EXCEPT ![s] = None]
  /\ connected' = connected - (IF LeavesRoom(s) THEN 1 ELSE 0)
  /\ seat' = SeatsWithout(s)
  /\ IF LeavesEmpty(s)
     THEN /\ live' = live \ {Room(s)}
          /\ activeGames' = activeGames - 1
     ELSE UNCHANGED <<live, activeGames>>
  /\ UNCHANGED <<plies, view>>

CloseHandler(s) ==
  /\ sock'  = [sock EXCEPT ![s] = "closed"]
  /\ bound' = [bound EXCEPT ![s] = None]
  /\ connected' = connected - 1
  /\ seat' = SeatsWithout(s)
  /\ IF LeavesEmpty(s)
     THEN /\ live' = live \ {Room(s)}
          /\ activeGames' = activeGames - 1
     ELSE UNCHANGED <<live, activeGames>>
  /\ UNCHANGED <<plies, view>>

(* The peer leaves, its connection breaks, or uWS drops it for idleness. *)
Close(s) ==
  /\ sock[s] = "open"
  /\ CloseHandler(s)
  /\ UNCHANGED <<poolVars, askVars, known, announced, restarts, controlVars>>

-----------------------------------------------------------------------------
(* Worker threads: one job at a time, two calls for a join or a resume. *)
Take(w) ==
  /\ work[w] = Idle
  /\ jobs # << >>
  /\ work' = [work EXCEPT ![w] = Head(jobs)]
  /\ jobs' = Tail(jobs)
  /\ UNCHANGED <<loopVars, deferred, clientVars, restarts, controlVars>>

(* Slip: a job that failed returns without answering its socket. *)
RefuseSilently(w) ==
  /\ work' = [work EXCEPT ![w] = Idle]
  /\ UNCHANGED deferred

Refuse(w) ==
  /\ work' = [work EXCEPT ![w] = Idle]
  /\ Defer([kind |-> "refused", sock |-> work[w].sock])

(* Slip: the reply carries the type of the request. *)
AcceptEchoing(w, c, reply) ==
  /\ work' = [work EXCEPT ![w] = [kind |-> "mint", sock |-> work[w].sock,
                                 claim |-> c, reply |-> work[w].kind]]
  /\ UNCHANGED deferred

Accept(w, c, reply) ==
  /\ work' = [work EXCEPT ![w] =
                [kind |-> "mint", sock |-> work[w].sock, claim |-> c,
                 reply |-> reply]]
  /\ UNCHANGED deferred

(* verifyMatchTicket: signed, unexpired tickets are valid as often as they *)
(* are shown; an expired one and a failed call are both refused.           *)
VerifyMatchTicket(w) ==
  /\ work[w].kind = "join"
  /\ Accept(w, work[w].claim, "joined") \/ Refuse(w)
  /\ UNCHANGED <<loopVars, jobs, clientVars, restarts, controlVars>>

(* resolveResumeToken: the answer of a call that did redeem may be lost. *)
Resolve(w) ==
  /\ work[w].kind = "resume"
  /\ LET t == work[w].token IN
     \/ Redeemable(t) /\ ResolveResumeToken(t)
        /\ (Accept(w, grant[t], "resumed") \/ Refuse(w))
     \/ Refuse(w) /\ UNCHANGED controlVars
  /\ UNCHANGED <<loopVars, jobs, clientVars, restarts>>

(* createResumeToken, then loop->defer.  A failed call gives the token "",  *)
(* and a token it may have stored is known to nobody.                      *)
Mint(w, t) ==
  /\ work[w].kind = "mint"
  /\ work' = [work EXCEPT ![w] = Idle]
  /\ Defer([kind |-> work[w].reply, sock |-> work[w].sock,
            claim |-> work[w].claim, token |-> t])
  /\ IF t = None THEN UNCHANGED controlVars
                 ELSE CreateResumeToken(work[w].claim, t)
  /\ UNCHANGED <<loopVars, jobs, clientVars, restarts>>

(* reportGameEnd: its result is ignored, so a failed call is forgotten. *)
Report(w) ==
  /\ work[w].kind = "report"
  /\ work' = [work EXCEPT ![w] = Idle]
  /\ ReportGameEnd(work[w].match, work[w].winner) \/ UNCHANGED controlVars
  /\ UNCHANGED <<loopVars, jobs, deferred, clientVars, restarts>>

-----------------------------------------------------------------------------
(* The deferred closures, run by the loop in the order they were deferred. *)

(* Both a join and a resume bind the socket, seat it and send it the board. *)
SeatSocket(s, c, t) ==
  /\ bound' = [bound EXCEPT ![s] = c]
  /\ seat'  = [seat EXCEPT ![c.match][c.color] = s]
  /\ view'  = [view EXCEPT ![s] = plies'[c.match]]
  /\ known' = IF t = None THEN known ELSE known \cup {t}
  /\ UNCHANGED <<sock, connected, askVars, announced>>

(* Slip: every join starts a new board. *)
DeferredJoinAfresh(s, c, t) ==
  /\ plies' = [plies EXCEPT ![c.match] = 0]
  /\ IF c.match \in live
     THEN UNCHANGED <<live, activeGames>>
     ELSE /\ live' = live \cup {c.match}
          /\ activeGames' = activeGames + 1
  /\ SeatSocket(s, c, t)

DeferredJoin(s, c, t) ==
  /\ IF c.match \in live
     THEN UNCHANGED <<live, plies, activeGames>>
     ELSE /\ live'  = live \cup {c.match}
          /\ plies' = [plies EXCEPT ![c.match] = 0]
          /\ activeGames' = activeGames + 1
  /\ SeatSocket(s, c, t)

DeferredResume(s, c, t) ==
  IF c.match \in live
  THEN UNCHANGED <<live, plies, activeGames>> /\ SeatSocket(s, c, t)
  ELSE CloseHandler(s) /\ UNCHANGED <<askVars, known, announced>>

RunDeferred ==
  /\ deferred # << >>
  /\ deferred' = Tail(deferred)
  /\ LET r == Head(deferred)  s == r.sock IN
     \/ sock[s] # "open" /\ UNCHANGED <<loopVars, clientVars>>
     \/ /\ sock[s] = "open"
        /\ \/ r.kind = "refused" /\ CloseHandler(s)
              /\ UNCHANGED <<askVars, known, announced>>
           \/ r.kind = "joined"  /\ DeferredJoin(s, r.claim, r.token)
           \/ r.kind = "resumed" /\ DeferredResume(s, r.claim, r.token)
  /\ UNCHANGED <<jobs, work, restarts, controlVars>>

-----------------------------------------------------------------------------
(* The process dies and is started again: every room, socket, job and      *)
(* closure is lost, and the service it calls keeps what it has.            *)
Restart ==
  /\ restarts < MaxRestarts
  /\ restarts' = restarts + 1
  /\ sock'  = [s \in Sockets |->
                 IF sock[s] = "open" THEN "closed" ELSE sock[s]]
  /\ bound' = [s \in Sockets |-> None]
  /\ live'  = {}
  /\ seat'  = [m \in Matches |-> Vacant]
  /\ plies' = [m \in Matches |-> 0]
  /\ activeGames' = 0
  /\ connected'   = 0
  /\ jobs'     = << >>
  /\ work'     = [w \in Workers |-> Idle]
  /\ deferred' = << >>
  /\ UNCHANGED <<clientVars, controlVars>>

ExpireToken(t) ==
  /\ ExpireResumeToken(t)
  /\ UNCHANGED <<loopVars, poolVars, clientVars, restarts>>

WorkerStep(w) ==
  \/ VerifyMatchTicket(w)
  \/ Resolve(w)
  \/ \E t \in Tokens \cup {None} : Mint(w, t)
  \/ Report(w)

Next ==
  \/ \E s \in Sockets : Open(s)
  \/ \E s \in Sockets, c \in Claims : JoinMessage(s, c)
  \/ \E s \in Sockets, t \in Tokens : ResumeMessage(s, t)
  \/ \E s \in Sockets : MoveMessage(s)
  \/ \E s \in Sockets, result \in Results, winner \in Users \cup {None} :
        FinalMove(s, result, winner)
  \/ \E s \in Sockets : Close(s)
  \/ \E w \in Workers : Take(w) \/ WorkerStep(w)
  \/ RunDeferred
  \/ Restart
  \/ \E t \in Tokens : ExpireToken(t)

Spec == Init /\ [][Next]_vars

(* A worker blocked on a non-empty queue is woken, a call returns, and the *)
(* loop runs what was deferred to it.                                      *)
FairSpec ==
  /\ Spec
  /\ \A w \in Workers : WF_vars(Take(w)) /\ WF_vars(WorkerStep(w))
  /\ WF_vars(RunDeferred)
-----------------------------------------------------------------------------
(* Safety *)

Seated(s, m, c) == seat[m][c] = s

(* Metrics: chess_connected_sockets counts the open connections and        *)
(* chess_active_games the rooms, across closes by the peer, by a refusal   *)
(* and by a crash (close handler, game-over branch, deferred closures).    *)
GaugesMatchState ==
  /\ connected = Cardinality({s \in Sockets : sock[s] = "open"})
  /\ activeGames = Cardinality(live)

(* Rooms are freed with their last player: a room always has somebody in a *)
(* seat, so none leaks, and no seat is held in a room that is gone.        *)
NoAbandonedRoom == \A m \in Matches : m \in live <=> seat[m] # Vacant

(* A seat never points to a freed socket, nor to a socket that plays for   *)
(* another seat: what broadcastToRoom and the winner lookup dereference.   *)
SeatsHoldOpenSockets ==
  \A m \in Matches, c \in Colors, s \in Sockets :
    Seated(s, m, c) =>
      /\ sock[s] = "open"
      /\ bound[s] # None
      /\ bound[s].match = m /\ bound[s].color = c

(* Whoever is seated shows the board of the server: the joined and resumed *)
(* replies and the move broadcasts, in the order sent, leave none behind.  *)
SeatedViewsInSync ==
  \A m \in Matches, c \in Colors, s \in Sockets :
    Seated(s, m, c) => view[s] = plies[m]

(* A resume token works once, whichever connections present it and however *)
(* many workers redeem at once: each resume on its way to a seat has spent *)
(* a token of its own.                                                     *)
ResumesUnderWay ==
  Cardinality({w \in Workers :
                 work[w].kind = "mint" /\ work[w].reply = "resumed"})
  + Cardinality({i \in DOMAIN deferred : deferred[i].kind = "resumed"})

ResumesSpendTokens ==
  ResumesUnderWay <= Cardinality({t \in Tokens : store[t] = "gone"})

(* A player the server bound to a running game holds its seat, so that the *)
(* server hears its moves and it hears the opponent's.                     *)
BoundSocketsAreSeated ==
  \A s \in Sockets :
    bound[s] # None /\ Room(s) \in live => Seated(s, Room(s), bound[s].color)

(* A stored game has the result its players were told: the report, queued  *)
(* behind other jobs and run by another thread, names the right winner.    *)
RowsFollowAnnouncements ==
  \A m \in Matches : \A i \in DOMAIN rows[m] :
    \E j \in DOMAIN announced[m] : rows[m][i] = announced[m][j]

(* A stored win is one its players were told.  A winner who reconnected    *)
(* over a connection that closes late loses the seat and the win, and a    *)
(* draw is stored; but no report ever names the player who did not win.    *)
StoredWinsAnnounced ==
  \A m \in Matches : \A i \in DOMAIN rows[m] :
    rows[m][i] # "draw" => \E j \in DOMAIN announced[m] : rows[m][i] = announced[m][j]

(* A match is played once: one result is announced, and stored at most     *)
(* once, however joins, resumes, crashes and reports interleave.           *)
OneResultPerMatch ==
  \A m \in Matches : Len(announced[m]) <= 1 /\ Len(rows[m]) <= 1

(* matches.status says 'completed' only of a match that is not being played. *)
CompletedMeansOver ==
  \A m \in Matches : status[m] = "completed" => m \notin live

(* Every finished game ends up in Postgres: once nothing is left to do for *)
(* a match its announced results have rows.                                *)
ReportPending(m) ==
  \/ \E i \in DOMAIN jobs : jobs[i].kind = "report" /\ jobs[i].match = m
  \/ \E w \in Workers : work[w].kind = "report" /\ work[w].match = m

FinishedGamesPersisted ==
  \A m \in Matches : Len(announced[m]) > Len(rows[m]) => ReportPending(m)

-----------------------------------------------------------------------------
(* Action properties *)

(* A running game is never set back: while its room lives no join, resume  *)
(* or close takes a move off its board.                                    *)
GamesOnlyAdvance ==
  [][\A m \in live \cap live' : plies'[m] >= plies[m]]_vars

(* A room goes when its game ends, when the process dies, or when nobody   *)
(* bound to it is connected any more; not under a player who is there.     *)
RoomOutlivesItsPlayers ==
  [][\A m \in live \ live' :
        \/ announced'[m] # announced[m]
        \/ restarts' # restarts
        \/ \A s \in Sockets : bound'[s] # None => bound'[s].match # m]_vars

-----------------------------------------------------------------------------
(* The rooms, the announcements and the table games together keep a ledger *)
(* of matches: each is played to one result at most, stored at most once   *)
(* and as announced, through rebuilt rooms, crashes and lost calls.        *)
Ledger == INSTANCE MatchLedger WITH playing <- live

ImplementsMatchLedger == Ledger!Spec

-----------------------------------------------------------------------------
(* Liveness *)

(* Every client that asked for a seat is answered: it is bound to the seat *)
(* or its connection is closed, behind however many jobs of others.        *)
EveryAskIsAnswered ==
  \A s \in Sockets : asked[s] # None /\ sock[s] = "open"
                     ~> bound[s] # None \/ sock[s] # "open"
=============================================================================
