# Secure-Chess in TLA+

Specifications of the concurrent parts of Secure-Chess, with the instances TLC
checks and the theorems TLAPS proves. Paths are relative to the repository:
`server.cpp` and `grpc_client.cpp` are under `services/gameserver/src/`, the
Python files under `services/api/`.

## The system

| part | state | operations | talks to |
|---|---|---|---|
| WebSocket game server (`server.cpp`) | `rooms_` (board, two seat pointers), `sockets_`, the data of each socket (game, user, color), two gauges | `.open`, `join_match`, `move`, `resume_match`, `.close`, deferred closures | enqueues jobs for the workers; runs what they defer; sends to clients |
| gRPC worker pool (`server.cpp`) | queue, mutex, condition variable, `stopping_grpc_workers_` | `enqueueGrpcJob`, worker loop, `stopGrpcWorkers` | called by the loop and by `~Server` |
| gRPC client (`grpc_client.cpp`) | none | `verifyMatchTicket`, `createResumeToken`, `resolveResumeToken`, `reportGameEnd` | the GameControl service, no deadline, no retry |
| GameControl service (`rpc/servicer.py`) | Redis `resume:<token>`; tables `matches`, `games` | four handlers | Redis, Postgres |
| Matchmaking (`matchmaking/`) | Redis lists `mm:queue:*`, keys `mm:ticket:<user>`; table `matches` | `POST /request`, `GET /ticket` | Redis, Postgres, tickets |
| Authentication (`auth/`) | tables `users`, `refresh_tokens`, `audit_logs` | sign-up, sign-in, refresh, logout | Postgres, behind the rate limiter |
| Rate limiters (`middleware/rate_limit.py`; per socket in `server.cpp`) | Redis counters; a window per socket | count, reset, refuse | Redis |
| Configuration, wiring, frontend, scripts | start-up values | | |

What is hard in it:

* **Closures in flight.** A join or resume is four steps: the message, a job in
  a queue, one or two calls on a worker, and a closure back on the loop. Between
  them sockets close, rooms end, other jobs overtake. Correctness rests on what
  the closure looks up again (`sockets_.find`, `rooms_.find`).
* **Pointers in two directions.** A socket names a game and a color; a room
  points to two sockets. Bind, close, game over and refusal must keep the two
  consistent, and two gauges with them.
* **Failure.** A call may fail before or after it took effect, its answer may be
  lost, a token may expire, the process may die with rooms, jobs and closures.
* **Reconnecting.** The server may hold the old connection when the new one asks.
* **Await points.** The matchmaking handlers and the rate limiter suspend at every
  Redis command. The authentication handlers take no lock in Postgres and are
  kept apart only by suspending nowhere in a transaction.

What makes each part correct: seats never dangle and agree with the sockets;
gauges agree with both; no room is leaked, reset or freed under a player; each
finished game is stored once with the result its players saw; every request for
a seat is answered; resume tokens are single use; the pool loses no job and no
wake-up; matchmaking pairs no entry twice and loses one only to a failure, gives
tickets to the players of a match and to nobody else, and keeps them while they are good; a sign-in has
one live refresh token, and no spent one is good again; the limiter bounds what
passes in any stretch of time and does not refuse for ever.

## Modules

| module | models | composed with |
|---|---|---|
| `GameControl` | the service: resume tokens, results, match status | extended by `GameServer` |
| `GameServer` | uWS loop, rooms, sockets, jobs, workers, calls, closures, crashes, clients | extends `GameControl` |
| `MCGameServer` | instances: who plays whom, what clients do, symmetry | |
| `GameServerProofs` | theorems about `GameServer` whatever clients do, and without `"rebind"` | |
| `LedgerProofs` | theorems about `GameServer` with clients that show a ticket once, or are disciplined, and its refinement | extends `GameServerProofs` |
| `JobPool` | abstract: jobs are started in order, once, and finished | instanced by `GrpcPool` |
| `GrpcPool` | the same pool as threads, a mutex and a condition variable | refines `JobPool` |
| `GrpcPoolProofs` | theorems about `GrpcPool` | |
| `MatchLedger` | abstract: a match is played to one result, stored once | implemented by `GameServer` with disciplined clients |
| `Matchmaking`, `MCMatchmaking` | the two endpoints, and instances | |
| `MatchmakingProofs` | theorems about `Matchmaking`: types and tickets | |
| `EntriesProofs` | theorems about the entries of its list: where they are, how many are lost | extends `MatchmakingProofs` |
| `Sessions`, `MCSessions` | the four authentication handlers, and instances | refines `SessionChain` |
| `SessionChain` | abstract: chains of tokens of which the last can be exchanged | |
| `SessionsProofs` | theorems about `Sessions`: types, chains, the audit log | |
| `StrandingProofs` | the theorem that nobody is signed out by accident | extends `SessionsProofs` |
| `RateLimit` | the limiter in front of them, with a clock | |
| `RateLimitProofs` | theorems about `RateLimit` | |

### GameServer

`bound[s]` is the socket's `game_id`, `user_id`, `color`; `live` the keys of
`rooms_`; `seat[m]` the pointers `white` and `black`; `plies[m]` the board, as a
number of moves; `jobs`, `work` and `deferred` the queue, what each worker holds
and the closures on their way back. `asked`, `used`, `known`, `view` and
`announced` belong to the clients: what they asked for, which tokens reached
them, the last board and the results they were sent.

Each handler and each closure is one action, because the loop runs it without
interruption: `Open`, `JoinMessage`, `ResumeMessage`, `MoveMessage`,
`FinalMove` (broadcast, report, erase), `Close`, and `RunDeferred`, which takes
the oldest closure and does nothing if its socket is gone, as the code does.
`CloseHandler` is also part of the closures that call `ws->close()`, since uWS
runs `.close` before that returns. A worker takes a job (`Take`), makes its first
call (`VerifyMatchTicket`, `Resolve`, `Report`) and for an accepted join or
resume a second one and the defer (`Mint`). Each call may fail; `Resolve` may
consume the token and lose the answer. `Restart` forgets the process's state and
may happen at any time, so it also stands for an exception in a handler.

A seat whose socket was freed makes the winner lookup undefined: `WinnerIds`
then allows any value. Messages that are only answered by an error are
stuttering steps. `Claims`, the seats clients ask for, is a parameter, and the
theorems hold for any: the server takes the color from the client. The instances use the
honest ones, in which each user asks for its own color.

The parameter `ClientMay` says what clients do beyond the minimum: `"overlap"`,
reconnect while the server still holds the old connection; `"rebind"`, ask again
on a connection that already asked; `"reuse"`, show a ticket a second time. All
three are allowed by the code. A property is checked with the most that it
stands, and those it does not stand are what the violations show:

| | disciplined | overlap | overlap, reuse | rebind too |
|---|---|---|---|---|
| gauges, no abandoned room, games only advance, resumes spend tokens, types | proved | proved | proved | proved |
| seats hold open sockets, views in sync | proved | proved | proved | fails (`rebind_dangles`) |
| stored wins announced | proved | proved | proved | not claimed |
| one result per match, completed means over | proved | proved, with rebind as well | fails | fails |
| bound sockets are seated, room outlives its players | proved | fails (`overlap_frees_room`) | fails | fails |
| stored rows follow announcements, draws included; ledger refined | proved | fails, see below | fails | fails |

Where the table says "fails" a client that the code allows breaks the property:
nothing in the server refuses it, and the theorem of that row is about the other
clients only. With `"overlap"` a stored row need not follow the announcement: a
late close empties the seat of the player who then mates, and `ReportGameEnd`
gets the empty winner that means a draw; a stored win is always an announced one.
With `"reuse"` a ticket shown again within its 60 seconds after the game ended
makes the room anew, of a match whose status is `completed`, and the match may
be played and stored twice.

### GrpcPool

One action per stretch of code under the mutex or outside it: a worker locks,
finds work, leaves or sleeps (releasing the mutex), wakes up (notified or
spuriously) and relocks. The loop thread enqueues (`BeginEnqueue`, `Push`,
`NotifyOne`: the notification is after the unlock, as in the code) and at last
stops (`BeginStop`, `SetStopping`, `NotifyAll`, `Join`). `JobPool` is what
`GameServer` assumes of it with `Enqueue` and `Take`.

### Matchmaking

A request is a process; its steps are RPUSH, LLEN, LPOP, LPUSH, `create_match`
(one step: the synchronous Postgres call blocks the event loop), and SET. When
`MayFail`, each of them may fail without effect (`Fail`, `FailRead`, and the LLEN of
`Answer`), and each Redis command that writes may also take effect and its answer be
lost (the actions named `Unheard`, at most `MaxUnheard` times in a behaviour).
After that the handler is where it was: the client library sends the command again,
or it raises and the handler fails. What each of these does to the list is not
the same:

* an RPUSH or LPUSH that took effect puts a copy of the entry in the list; the
  next attempt adds another. A copy is the same string, so an entry is a request
  and a number (0 for the one that was answered), of which only the model tells
  the copies apart. A player may thus be paired with itself, or twice.
* an LPOP that took effect leaves its two entries nowhere, and the next attempt
  takes two others. `dropped` records them, as it records what a handler that
  fails, or whose `create_match` refuses, had popped and never puts back.
* a SET is repeatable; a DEL sent again deletes a ticket stored in between.

So entries are lost, and `EntriesConserved` does not deny it: it says that an entry
is in the list, with a handler still at work on it, or in a match, exactly once, or
else was dropped and is nowhere. `LossesHaveFailures` bounds what is dropped: at
most two for each request answered with an error and each lost answer that made
no copy. A handler that answers "queued" or "matched" without a failure loses
nobody. The players of dropped entries were told that they are queued and hear
no more; the code has no remedy.

`GET /ticket` reads and deletes in two steps; a user polls one call at a time.
The requests are those of one queue; other time controls use other keys.

A ticket is signed for 60 seconds just before its key is set for 90, so time is
two actions in a fixed order: the tickets of a match grow old (`GrowOld`), and a
key expires (`ExpireTicket`) only when its ticket is old.

### Sessions

`users`, `row`, `owner` and `audit` are the tables; a refresh token stands for
itself, its hash and its `token_id`, which are fresh. `call` is what is in
flight, `known` the tokens that reached a user; a client may present any of them
again, on several calls at once. `origin` (the first token of the sign-in a
token descends from) and `parted` (sign-ins that lost an answer or asked to log
out) are history.

The API is one uvicorn process without `--workers` (`services/api/Dockerfile:24`),
psycopg is used synchronously, and after the limiter no handler awaits.
So a handler, once it runs, keeps the loop until it answers: `loop` names the
handler inside a transaction, and `MayRun` is the event loop. This is the whole
protection of `jwt_routes.py:167-207`, where SELECT, UPDATE and INSERT take no
row lock that the SELECT would respect: the slip `MayRunAtOnce`, what an await
or a second process would make of it, lets two refreshes fork a chain.
A transaction is two actions (`SignIn` or `Refresh`, then `Commit`,
`CommitUnheard` or `Rollback`) because tokens expire and the database fails in
between; `SignUp` and `Logout` are single statements. The limiter, the checks of
the body and an unreachable database all end in `Refuse`. An answer without
tokens ends the call at once (`Answer`); one with tokens has yet to arrive
(`Deliver`) or is lost (`Lose`).

What is seen and stated as it is: a log-out with a token already exchanged
answers "Logged out successfully" (`jwt_routes.py:251`) and leaves the current
token live; an answer lost after the commit strands the client
(`StrandedOnlyByLoss` says that nothing else does).

### RateLimit

One key. A request awaits INCR, then EXPIRE if it was told it is the first, then
TTL, then is judged; any of the three may raise, with or without effect, and
then the request passes (the `except` branch counts 0). `IncrResent` is the
client library sending INCR again after a lost answer, which it does on its own.
A `Tick` is the unit of `Window`, and Redis deletes the key with the last one.
`age`, `life` and `recent` are history: how long ago each request was counted,
how many lives of the key ended since, and which requests of the last `Window`
ticks passed; each passed with the number INCR gave it in its life of the key.
`orphaned` says that the EXPIRE of this life of the
counter was lost to a failure, a crash or a resend. Nothing then ever gives the
key an expiry: the exemption in `RefusalsEndUnlessOrphaned` is the case in which
"Try again in ... seconds" (`rate_limit.py:118`) is untrue for ever.

### Slips

A definition whose comment begins "Slip" is the code with a plausible mistake
in it. Nothing here uses them; a property is shown to notice the mistake by
putting the slip in the place of the definition after it (`mutants` in
PROJECT.json).

## Runs

All runs have deadlock checking off, except `grpc_pool` and `rate_limit`: a server whose bounded
supply of messages or tokens is used up, or whose clients all left, stops rightly.

| run | bounds | shows |
|---|---|---|
| `server_disciplined` | 1 match, 3 sockets, 2 workers, 3 tokens, 3 asks, 3 plies, 1 crash | `BoundSocketsAreSeated`, `RowsFollowAnnouncements`, `OneResultPerMatch`, `CompletedMeansOver`, `RoomOutlivesItsPlayers`, `ImplementsMatchLedger` |
| `server_crossing` | same, 2 plies, overlap and reuse | `SeatsHoldOpenSockets`, `SeatedViewsInSync`, `ResumesSpendTokens`, `GaugesMatchState`, `NoAbandonedRoom`, `StoredWinsAnnounced`, `GamesOnlyAdvance` |
| `server_answers` | 3 sockets, 1 worker, no symmetry, fairness | `EveryAskIsAnswered` |
| `overlap_frees_room`, `lost_report` | as above | what the code does against its documentation; see `findings` |
| `rebind_dangles` | 2 matches of the same users, 2 sockets, 1 worker, rebind | a seat that points to a freed socket |
| `grpc_pool` | 2 workers, 3 jobs, fairness | `NoLostWakeup`, `DrainedWhenJoined`, `ShutdownEnds`, `ImplementsJobPool` |
| `matchmaking` | 3 requests of 3 users, failures, 2 lost answers | `EntriesConserved`, `LossesHaveFailures`, `StoredTicketsAreForPlayers`, `FreshTicketsCanBePolled` |
| `third_request`, `waiting_pair` | 4 requests of 4 users, no failure | a ticket to somebody else's match; two players left waiting |
| `sessions` | 1 user, 3 tokens, 2 calls, failures, expiries | `OneLivePerSignIn`, `StrandedOnlyByLoss`, `AuditTellsTheTruth`, `ImplementsSessionChain` |
| `rate_limit` | 3 requests at once, limit 2, window 2, counter up to 4, failures, restarts, fairness | `AtMostTwoWindows`, `ExpiryFollows`, `RefusalsEndUnlessOrphaned` |

Why these bounds are enough. Three sockets are two players and one reconnect;
three asks are two joins and a resume or a repeated join, and three tokens give
each of them one. Two workers let two calls run at once; more workers add no
order of calls that the queue and the loss of answers do not. Two plies let each
side move, and the shortest game ends on the second; the third lets either side
make the last move. One crash separates two lives of the process. Two matches
matter only when a connection may move between rooms, which is the run with
`"rebind"`. Three tokens are a sign-in and two refreshes, or two sign-ins and a
refresh; two calls are all that overlap in a race for one token; tokens of
different users share nothing but the loop. In matchmaking three requests let a third one pop what the first two pushed; two lost
answers let one handler take and lose both others' entries and another requeue, or one
player be queued three times, paired with itself and left over. Limit 2 and window 2 separate the
first request from others, the last allowed from the first refused, and the last
tick from others; three requests fill one window and reach into the next (limit
1 with window 3 was tried too). The pool's case of interest is one worker
asleep, one about to sleep and a job arriving; three jobs keep both busy and one
waiting. Sockets, workers and tokens are interchangeable and are a symmetry set
in the safety runs; matches and users are not, being named by `Pairing`.

Not bounded away: `MaxPlies`, `MaxAsks` and `MaxRestarts` guard `CanMove`,
`MayAsk` and `Restart` only, and the theorems hold for all their values.

### Fairness

`GameServer!FairSpec` has weak fairness on each worker's `Take` and
`WorkerStep` and on `RunDeferred`. `Take` is what `grpc_pool` shows of the pool.
`WorkerStep` says that a call returns, by an answer or an error. This is an
assumption about the service: `ClientContext` has no deadline
(`grpc_client.cpp:19`), so a call to a peer that neither answers nor drops the
connection would hold a worker for ever. `RunDeferred` is the uWS loop, whose
handlers do not block. Nothing is assumed of clients.
`GrpcPool!FairSpec` has weak fairness on each worker and on the calls the loop
thread has begun; that it ever enqueues or stops, and spurious wake-ups, are
not assumed.
`RateLimit!FairSpec` has weak fairness on `Tick`, since time passes, and on the
EXPIRE of each request, since redis-py answers or raises; a request that waits
at TTL for ever does no harm, and need not be assumed not to.

## Theorems

For all values of the constants that satisfy the ASSUMEs of the module: any sockets, workers, matches, users,
claims and tokens, finite or not, except that the gauges' theorem carries the
finiteness of the counted sets in its invariant.

* `TypeCorrect`: `TypeOK` is inductive with one conjunct more, that a token in
  Redis names a seat. The work is that a job or reply has the fields
  its consumer reads, proved per kind of record (the mint between two
  calls, the two kinds of reply).
* `GaugesCorrect`, `RoomsCorrect` from `RoomsInv`: the gauges, the finiteness of
  `live` and of the open sockets, and that a match has a room exactly when
  somebody is in its seats. The first is not inductive alone: a close counts a
  room down when the seats it leaves are empty, which is right only if the
  room was not empty before, the second conjunct.
* `GamesAdvance` from `TypeCorrect`: only a join writes a new board, and only
  into a room that was not there.
* `SeatsCorrect`, `ViewsCorrect`, assuming `"rebind" \notin ClientMay`. They need
  two invariants. `AsksInv` follows a claim: every job, call and closure under
  way for a socket carries the seat that socket asked for, and a socket is bound
  to that seat or to none. `SeatsInv` then says that a seat and its socket name
  each other and that the socket shows the room's board; by `AsksInv` seating a
  socket again seats it in the same place, so nothing is left dangling. The
  assumption is needed: without it `rebind_dangles` is a counterexample.
* `ResumesCorrect` from `ResumesInv`, whatever clients do: the resumes on their
  way to a seat (in the hands of workers and in the queue of closures) are no
  more than the tokens spent. That is a count, so the invariant carries that the
  sets counted are finite; a resume enters it in the step in which `GETDEL`
  spends its token, moves from a worker to the queue, and leaves it when it is run
  or refused.
* `LedgerProofs` has three invariants under three hypotheses, each as weak as its
  theorems stand. All assume `HonestTickets`: a ticket is for the user that `Pairing`
  has in its seat, and the two users of a match differ. This is what
  `create_match` and `create_match_ticket` do: it refuses a player paired with
  itself and signs one ticket for each side.
* `OneResult`, `CompletedCorrect`, assuming `OneTicketEach` (besides,
  `"reuse" \notin ClientMay`; clients may overlap and rebind), from `PlayInv`. A
  ticket is on its way once, or its player has arrived, and then no join for that
  seat is anywhere in jobs, calls or closures; a result is reported once
  (`FlightOnce`). A game cannot be decided before both players arrived, since they
  alternate. So once a match is decided nothing under way can build its room again,
  except a resume, which needs a room that lives (`rooms_.find`).
* `WinsAnnounced`, assuming besides `"rebind" \notin ClientMay` (clients may overlap
  and reuse), from `WinsInv` and `SeatsCorrect`: a seat holds a socket that asked
  for it, so a report names the winner or nobody, and the color it is turned back
  into was announced.
* `BoundCorrect`, `RowsCorrect`, `RoomsOutlive` and the refinement `LedgerRefined`,
  assuming `FairPlay`: besides, `ClientMay = {}`. These are false for clients that
  the code lets in, as the table above shows; they are theorems about a server
  whose clients reconnect in turn. `LedgerInv` is `PlayInv` with the agreement of
  seats and sockets and of reports and announcements. The refinement maps a
  new room to `Begin`, an emptied room and a crash to `GiveUp`, the last move to
  `Finish`, a report that took effect to `Store`, and the rest to stutters.
* `WakeupsKept`, `ShutdownDrains`, `PoolRefines` and `TypeCorrect` of
  `GrpcPoolProofs`, from `PoolInv`: a worker holds a
  job exactly while it runs it, stopping is set only when the loop enqueues no
  more, and a worker leaves only an empty queue of a stopping pool. The
  refinement maps each step of the threads to `Submit`, `Start`, `Finish` or a
  stutter.
* `PollersGetTheirOwn`, `TicketsStayPollable` and `TypeCorrect` of
  `MatchmakingProofs`, from `TicketInv`. Whom a ticket is for is computed from
  the match of its request, so the proof needs that a request makes one match at
  most (`OneMatchEach`), and that the key and what a poll read of it are filed
  under the other player of that match (`FiledRight`). A `SET` over a fresh
  ticket, or the `DEL` of a poll that read an older one, is then the work of
  another match of the same player, which is the exception the property makes.
* `EntriesKept` (`EntriesConserved`) of `EntriesProofs`, from `EntriesInv`: the list
  has no entry twice, nor have the entries that handlers hold (popped, or made into
  a match), nor the two together, and together they have every entry queued so far
  and not dropped (`Apart`, `All`); copies carry numbers that were not used before
  (`Recorded`). Popping is the inverse of putting back: one lemma, `MoveEntries`,
  about moving a prefix between the list and empty hands, serves both. The property
  counts the places of an entry; the invariant says that there is one, and no other.
* `LossesBounded` (`LossesHaveFailures`), from `LossInv`, the same bound with the
  finiteness of the sets it counts: a handler that ends has popped two at most
  and is one more that failed; a lost answer costs two entries or makes a copy.
* `OneLive`, `ChainRefined` and `TypeCorrect` of `SessionsProofs`, from
  `SessionInv`. `OneLivePerSignIn` alone is not inductive: a commit revokes the
  token its SELECT saw, which helps only if that token is still the live one of
  its chain. `OneTransaction` says so: the one handler inside a transaction is
  the one that holds the loop, and its token is live. `CallsPresentRows` and
  `RowsHaveOrigins` say that what is presented has a row, and that a chain grows
  from its first token. A commit is then a `SignIn` or `Exchange` of
  `SessionChain`, a log-out with a live token a `Revoke`, anything else stutters.
  `AuditCorrect` adds that a commit writes the token and the "login" of one user.
* `StrandedCorrect` of `StrandingProofs`, from `HoldInv`: what a user knows,
  presents or is granted, and a sign-in with all its descendants, are that
  user's (`Owned`); a token on its way is live, in one answer only and known to
  nobody (`Undelivered`), so nobody can have spent it before it arrives; and who
  asks to log out is counted as gone from the call on (`LogoutsPart`).
* `ExpiriesFollow` and `TypeCorrect` of `RateLimitProofs`: a request that is
  about to set the expiry is alone in being so, and the counter it counted has
  no expiry yet; a counter of 0 has none.
* `TwoWindows` (`AtMostTwoWindows`), from `WindowInv`: who passed in this window
  was counted in the present life of the key or in the one before, and in the
  latter case before the EXPIRE of the present one (`Lives`), so that when the
  key is deleted, `Window` ticks after its EXPIRE, nobody older is left; INCR
  gives no number twice in a life (`RanksDiffer`) and only 1 to `Max` pass
  (`Ranks`). Life and number are then an injection into a set of `2 * Max`.

Every safety property of a passing run is proved, and so are the refinements of
`SessionChain` and `MatchLedger`. Each property was checked by TLC before
its proof, and most of the strengthened invariants were, on the instance of the run
or on one like it.

Only model-checked: the liveness properties (`EveryAskIsAnswered`,
`ShutdownEnds`, `RefusalsEndUnlessOrphaned`, and the fairness in
`ImplementsJobPool`, of which `PoolRefines` proves the safety part), which are
out of the prover's reach. The five violations are counterexamples, and
`rebind_dangles` and `overlap_frees_room` show that the assumptions of
`SeatsCorrect` and of `LedgerProofs` cannot be dropped.

## Not modelled

Chess rules (a library: the model takes only alternation, one ply a move, and
that a mated side is the side to move, so the mover wins); the text of
messages, FEN, PGN and error counters; the per-socket rate window and the size
limit, which only refuse messages; back-pressure (a client too slow to take its
messages is a client that closes); clocks, except in `RateLimit` (expiry is an
action that may happen at any time its order with other expiries allows);
the password policy and hashing; the choice of the limiter's identifier and
`reset_time`; the audit events of matches and games; configuration, start-up,
frontend, generated code, load tests.

Where the documentation and the code differ in what is not modelled, the models
follow the code: `rate_limit.py:2-6` gives limits of 5, 3, 20 and 20, the
decorators 5000, 5000, 100 and 100; `README.md:35` says refresh tokens are
stored as bcrypt hashes, the code stores SHA-256. `README.md:38` says that
players are paired in arrival order; they are paired in the order of the list,
which a player who was popped alone and put back has left for a while.

## Plan

Done: the game server, the service, the pool and matchmaking (first), then the
sessions, the limiter, the match ledger and the lifetimes of match tickets.
Models still worth writing: the start and stop of the API (`main.py`, the gRPC
server and the one Redis client) and of the game server (`main.cpp`,
`config.cpp`), and the message gate of a socket (size, window, JSON).
Theorems worth adding: how far `FairPlay` can be relaxed for `RoomsOutlive` and
`BoundCorrect` (whether they stand `"reuse"`),
and the safety part of the liveness properties (a request for a seat is never
dropped without an answer on its way).
