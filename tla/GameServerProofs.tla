-------------------------- MODULE GameServerProofs --------------------------
(***************************************************************************)
(* Theorems about GameServer, for every set of sockets, matches, users,    *)
(* tokens and workers, and whatever the clients do (ClientMay), unless the *)
(* theorem says otherwise.                                                 *)
(***************************************************************************)
EXTENDS GameServer, TLAPS, FiniteSetTheorems, SequenceTheorems

USE DEF Colors

-----------------------------------------------------------------------------
(* Queues *)

(* A queue stays a queue of the same things under what the code does to it. *)
LEMMA QueueSteps ==
  ASSUME NEW S, NEW q \in Seq(S)
  PROVE  /\ \A e \in S : Append(q, e) \in Seq(S)
         /\ q # << >> => Head(q) \in S /\ Tail(q) \in Seq(S)
BY HeadTailProperties, AppendProperties

(* The kind of a worker's record tells its fields. *)
LEMMA WorkFields ==
  ASSUME NEW x \in {Idle} \cup Jobs \cup Mints
  PROVE  /\ x.kind = "join"   => x.sock \in Sockets /\ x.claim \in Claims
         /\ x.kind = "resume" => x.sock \in Sockets /\ x.token \in Tokens
         /\ x.kind = "report" => x.match \in Matches /\ x.winner \in Users \cup {None}
         /\ x.kind = "mint"   => /\ x.sock \in Sockets /\ x.claim \in Claims
                                 /\ x.reply \in {"joined", "resumed"}
BY DEF Idle, Jobs, Mints

LEMMA ReplyFields ==
  ASSUME NEW r \in Replies
  PROVE  /\ r.sock \in Sockets
         /\ r.kind \in {"refused", "joined", "resumed"}
         /\ r.kind # "refused" => r.claim \in Claims /\ r.token \in Tokens \cup {None}
BY DEF Replies

(* A claim names a match, a user and a color, and is never None. *)
LEMMA ClaimFields ==
  ASSUME NEW c \in Claims
  PROVE  /\ c.match \in Matches /\ c.user \in Users /\ c.color \in Colors
         /\ c # None
BY ControlAssumption DEF Seating

-----------------------------------------------------------------------------
(* Type correctness *)

LEMMA TypeInit == Init => TypeOK
BY ServerAssumption DEF Init, TypeOK, ControlInit, ControlTypeOK, Vacant

(* A token in Redis restores a seat. *)
LEMMA LiveTokenGrants ==
  ASSUME TypeOK, NEW t \in Tokens, Redeemable(t)
  PROVE  grant[t] \in Claims
BY DEF TypeOK, ControlTypeOK, Redeemable

(* What the close handler writes has the right type. *)
LEMMA CloseTypes ==
  ASSUME TypeOK, NEW s \in Sockets, CloseHandler(s)
  PROVE  /\ sock'  \in [Sockets -> {"new", "open", "closed"}]
         /\ bound' \in [Sockets -> Claims \cup {None}]
         /\ seat'  \in [Matches -> [Colors -> Sockets \cup {None}]]
         /\ live' \subseteq Matches
         /\ activeGames' \in Int /\ connected' \in Int
         /\ plies' = plies /\ view' = view
<1>1. bound[s] # None => bound[s] \in Claims
  BY DEF TypeOK
<1>2. bound[s] # None => Room(s) \in Matches /\ bound[s].color \in Colors
  BY <1>1, ClaimFields DEF Room
<1>3. SeatsWithout(s) \in [Matches -> [Colors -> Sockets \cup {None}]]
  BY <1>2 DEF TypeOK, SeatsWithout
<1> QED
  BY <1>3 DEF TypeOK, CloseHandler

(* So has what a broadcast of a board writes. *)
LEMMA BroadcastTypes ==
  ASSUME TypeOK, NEW m \in Matches, NEW ply \in 0 .. MaxPlies
  PROVE  Broadcast(m, ply) \in [Sockets -> -1 .. MaxPlies]
BY ServerAssumption DEF TypeOK, Broadcast

(* So has what a join or a resume writes when it seats a socket. *)
LEMMA SeatTypes ==
  ASSUME TypeOK, NEW s \in Sockets, NEW c \in Claims, NEW t \in Tokens \cup {None},
         plies' \in [Matches -> 0 .. MaxPlies],
         SeatSocket(s, c, t)
  PROVE  /\ bound' \in [Sockets -> Claims \cup {None}]
         /\ seat'  \in [Matches -> [Colors -> Sockets \cup {None}]]
         /\ view'  \in [Sockets -> -1 .. MaxPlies]
         /\ known' \subseteq Tokens
<1>1. c.match \in Matches /\ c.color \in Colors
  BY ClaimFields
<1>2. plies'[c.match] \in -1 .. MaxPlies
  BY <1>1, ServerAssumption
<1> QED
  BY <1>1, <1>2 DEF TypeOK, SeatSocket

(* So has what a worker hands on after its first call. *)
LEMMA RefuseTypes ==
  ASSUME TypeOK, NEW w \in Workers, work[w].sock \in Sockets, Refuse(w)
  PROVE  /\ work' \in [Workers -> {Idle} \cup Jobs \cup Mints]
         /\ deferred' \in Seq(Replies)
<1>1. [kind |-> "refused", sock |-> work[w].sock] \in Replies
  BY DEF Replies
<1> QED
  BY <1>1, QueueSteps DEF TypeOK, Refuse, Defer

LEMMA AcceptTypes ==
  ASSUME TypeOK, NEW w \in Workers, work[w].sock \in Sockets, NEW c \in Claims,
         NEW reply \in {"joined", "resumed"}, Accept(w, c, reply)
  PROVE  /\ work' \in [Workers -> {Idle} \cup Jobs \cup Mints]
         /\ deferred' \in Seq(Replies)
<1>1. [kind |-> "mint", sock |-> work[w].sock, claim |-> c, reply |-> reply] \in Mints
  BY DEF Mints
<1> QED
  BY <1>1 DEF TypeOK, Accept

LEMMA EraseTypes ==
  ASSUME TypeOK, NEW m \in Matches, EraseRoom(m)
  PROVE  /\ live' \subseteq Matches
         /\ seat' \in [Matches -> [Colors -> Sockets \cup {None}]]
         /\ activeGames' \in Int
<1>1. Vacant \in [Colors -> Sockets \cup {None}]
  BY DEF Vacant
<1> QED
  BY <1>1 DEF TypeOK, EraseRoom

(* So has what a client's question writes. *)
LEMMA AskTypes ==
  ASSUME TypeOK, NEW s \in Sockets, NEW c \in Claims \cup {None}, MayAsk(s, c),
         asked' = [asked EXCEPT ![s] = c], asks' = asks + 1
  PROVE  /\ asked' \in [Sockets -> Claims \cup {None}]
         /\ asks'  \in 0 .. MaxAsks
<1>1. asked \in [Sockets -> Claims \cup {None}] /\ asks \in 0 .. MaxAsks
  BY DEF TypeOK
<1>2. asks < MaxAsks /\ MaxAsks \in Nat
  BY ServerAssumption DEF MayAsk
<1>3. asked' \in [Sockets -> Claims \cup {None}]
  BY <1>1
<1>4. asks' \in 0 .. MaxAsks
  BY <1>1, <1>2
<1> QED
  BY <1>3, <1>4

(* A step that leaves the service's variables alone keeps their types. *)
LEMMA ControlKept ==
  ASSUME TypeOK, UNCHANGED controlVars
  PROVE  ControlTypeOK'
BY DEF TypeOK, ControlTypeOK, controlVars

(* So does the making of a token. *)
LEMMA CreateTypes ==
  ASSUME TypeOK, NEW c \in Claims, NEW t \in Tokens, CreateResumeToken(c, t)
  PROVE  ControlTypeOK'
<1>1. /\ store' \in [Tokens -> {"unissued", "live", "gone"}]
      /\ grant' \in [Tokens -> Claims \cup {None}]
  BY DEF TypeOK, ControlTypeOK, CreateResumeToken
<1>2. c # None
  BY ClaimFields
<1>3. ASSUME NEW u \in Tokens, store'[u] # "unissued" PROVE grant'[u] # None
  <2>1. CASE u = t
    BY <1>2, <2>1 DEF TypeOK, ControlTypeOK, CreateResumeToken
  <2>2. CASE u # t
    BY <1>3, <2>2 DEF TypeOK, ControlTypeOK, CreateResumeToken
  <2> QED
    BY <2>1, <2>2
<1> QED
  BY <1>1, <1>3 DEF TypeOK, ControlTypeOK, CreateResumeToken

LEMMA TypeStep == TypeOK /\ [Next]_vars => TypeOK'
<1> SUFFICES ASSUME TypeOK, [Next]_vars PROVE TypeOK'
  OBVIOUS
<1> USE ServerAssumption
<1>1. ASSUME NEW s \in Sockets, Open(s) PROVE TypeOK'
  <2>1. sock' \in [Sockets -> {"new", "open", "closed"}] /\ connected' \in Int
    BY <1>1 DEF TypeOK, Open
  <2>2. ControlTypeOK'
    BY <1>1, ControlKept DEF Open
  <2> QED
    BY <1>1, <2>1, <2>2 DEF TypeOK, Open, poolVars, clientVars, askVars
<1>2. ASSUME NEW s \in Sockets, NEW c \in Claims, JoinMessage(s, c) PROVE TypeOK'
  <2>1. jobs' \in Seq(Jobs)
    BY <1>2, QueueSteps DEF TypeOK, JoinMessage, Enqueue, Jobs
  <2>2. asked' \in [Sockets -> Claims \cup {None}] /\ asks' \in 0 .. MaxAsks
    BY <1>2, AskTypes DEF JoinMessage
  <2>3. ControlTypeOK'
    BY <1>2, ControlKept DEF JoinMessage
  <2>4. used' \subseteq Claims
    BY <1>2 DEF TypeOK, JoinMessage
  <2> QED
    BY <1>2, <2>1, <2>2, <2>3, <2>4 DEF TypeOK, JoinMessage, loopVars
<1>3. ASSUME NEW s \in Sockets, NEW t \in Tokens, ResumeMessage(s, t) PROVE TypeOK'
  <2>1. jobs' \in Seq(Jobs)
    BY <1>3, QueueSteps DEF TypeOK, ResumeMessage, Enqueue, Jobs
  <2>2. grant[t] \in Claims \cup {None}
    BY <1>3 DEF TypeOK, ControlTypeOK
  <2>3. asked' \in [Sockets -> Claims \cup {None}] /\ asks' \in 0 .. MaxAsks
    BY <1>3, <2>2, AskTypes DEF ResumeMessage
  <2>4. ControlTypeOK'
    BY <1>3, ControlKept DEF ResumeMessage
  <2> QED
    BY <1>3, <2>1, <2>3, <2>4 DEF TypeOK, ResumeMessage, loopVars
<1>4. ASSUME NEW s \in Sockets, MoveMessage(s) PROVE TypeOK'
  <2>1. Room(s) \in Matches
    BY <1>4 DEF TypeOK, MoveMessage, CanMove
  <2>2. plies[Room(s)] + 1 \in 0 .. MaxPlies
    BY <1>4, <2>1 DEF TypeOK, MoveMessage, CanMove
  <2> QED
    BY <1>4, <2>1, <2>2, BroadcastTypes DEF TypeOK, ControlTypeOK, MoveMessage, poolVars,
       askVars, controlVars
<1>5. ASSUME NEW s \in Sockets, NEW result \in Results, NEW winner \in Users \cup {None},
             FinalMove(s, result, winner)
      PROVE  TypeOK'
  <2>1. Room(s) \in Matches
    BY <1>5 DEF TypeOK, FinalMove, CanMove
  <2>2. plies[Room(s)] + 1 \in 0 .. MaxPlies
    BY <1>5, <2>1 DEF TypeOK, FinalMove, CanMove
  <2>3. jobs' \in Seq(Jobs)
    BY <1>5, <2>1, QueueSteps DEF TypeOK, FinalMove, Enqueue, Jobs
  <2>4. announced' \in [Matches -> Seq(Results)]
    BY <1>5, QueueSteps DEF TypeOK, FinalMove
  <2> QED
    <3>1. view' \in [Sockets -> -1 .. MaxPlies]
      BY <1>5, <2>1, <2>2, BroadcastTypes DEF FinalMove
    <3>2. /\ live' \subseteq Matches
          /\ seat' \in [Matches -> [Colors -> Sockets \cup {None}]]
          /\ activeGames' \in Int
      BY <1>5, <2>1, EraseTypes DEF FinalMove
    <3> QED
      BY <1>5, <2>2, <2>3, <2>4, <3>1, <3>2 DEF TypeOK, ControlTypeOK, FinalMove,
         askVars, controlVars
<1>6. ASSUME NEW s \in Sockets, Close(s) PROVE TypeOK'
  BY <1>6, CloseTypes DEF TypeOK, ControlTypeOK, Close, poolVars, askVars, controlVars
<1>7. ASSUME NEW w \in Workers, Take(w) PROVE TypeOK'
  <2>1. Head(jobs) \in Jobs /\ jobs' \in Seq(Jobs)
    BY <1>7, QueueSteps DEF TypeOK, Take
  <2> QED
    BY <1>7, <2>1 DEF TypeOK, ControlTypeOK, Take, loopVars, clientVars, askVars, controlVars
<1>8. ASSUME NEW w \in Workers, VerifyMatchTicket(w) PROVE TypeOK'
  <2>1. work[w].sock \in Sockets /\ work[w].claim \in Claims
    BY <1>8, WorkFields DEF TypeOK, VerifyMatchTicket
  <2>2. /\ work' \in [Workers -> {Idle} \cup Jobs \cup Mints]
        /\ deferred' \in Seq(Replies)
    BY <1>8, <2>1, AcceptTypes, RefuseTypes DEF VerifyMatchTicket
  <2> QED
    BY <1>8, <2>2 DEF TypeOK, ControlTypeOK, VerifyMatchTicket, loopVars, clientVars,
       askVars, controlVars
<1>9. ASSUME NEW w \in Workers, Resolve(w) PROVE TypeOK'
  <2>1. work[w].sock \in Sockets /\ work[w].token \in Tokens
    BY <1>9, WorkFields DEF TypeOK, Resolve
  <2>2. /\ work' \in [Workers -> {Idle} \cup Jobs \cup Mints]
        /\ deferred' \in Seq(Replies)
    BY <1>9, <2>1, LiveTokenGrants, AcceptTypes, RefuseTypes DEF Resolve
  <2>3. ControlTypeOK'
    <3>1. CASE Redeemable(work[w].token) /\ ResolveResumeToken(work[w].token)
      BY <2>1, <3>1 DEF TypeOK, ControlTypeOK, Redeemable, ResolveResumeToken
    <3>2. CASE UNCHANGED controlVars
      BY <3>2 DEF TypeOK, ControlTypeOK, controlVars
    <3> QED
      BY <1>9, <3>1, <3>2 DEF Resolve
  <2> QED
    BY <1>9, <2>2, <2>3 DEF TypeOK, Resolve, loopVars, clientVars, askVars
<1>10. ASSUME NEW w \in Workers, NEW t \in Tokens \cup {None}, Mint(w, t) PROVE TypeOK'
  <2>1. /\ work[w].sock \in Sockets /\ work[w].claim \in Claims
        /\ work[w].reply \in {"joined", "resumed"}
    BY <1>10, WorkFields DEF TypeOK, Mint
  <2>2. deferred' \in Seq(Replies)
    BY <1>10, <2>1, QueueSteps DEF TypeOK, Mint, Defer, Replies
  <2>3. ControlTypeOK'
    <3>1. CASE t = None
      BY <1>10, <3>1, ControlKept DEF Mint
    <3>2. CASE t # None
      <4>1. t \in Tokens /\ CreateResumeToken(work[w].claim, t)
        BY <1>10, <3>2 DEF Mint
      <4> QED
        BY <2>1, <4>1, CreateTypes
    <3> QED
      BY <3>1, <3>2
  <2> QED
    BY <1>10, <2>2, <2>3 DEF TypeOK, Mint, loopVars, clientVars, askVars
<1>11. ASSUME NEW w \in Workers, Report(w) PROVE TypeOK'
  <2>1. work[w].match \in Matches
    BY <1>11, WorkFields DEF TypeOK, Report
  <2>2. ResultOf(work[w].match, work[w].winner) \in Results
    BY DEF ResultOf, Results
  <2>3. ControlTypeOK'
    <3>1. CASE ReportGameEnd(work[w].match, work[w].winner)
      <4>1. rows' \in [Matches -> Seq(Results)]
        BY <2>1, <2>2, <3>1, QueueSteps DEF TypeOK, ControlTypeOK, ReportGameEnd
      <4> QED
        BY <3>1, <4>1 DEF TypeOK, ControlTypeOK, ReportGameEnd
    <3>2. CASE UNCHANGED controlVars
      BY <3>2 DEF TypeOK, ControlTypeOK, controlVars
    <3> QED
      BY <1>11, <3>1, <3>2 DEF Report
  <2> QED
    BY <1>11, <2>3 DEF TypeOK, Report, loopVars, clientVars, askVars
<1>12. ASSUME RunDeferred PROVE TypeOK'
  <2> DEFINE r == Head(deferred)
             s == r.sock
  <2>1. r \in Replies /\ deferred' \in Seq(Replies)
    BY <1>12, QueueSteps DEF TypeOK, RunDeferred
  <2>2. s \in Sockets
    BY <2>1, ReplyFields
  <2>3. CASE UNCHANGED <<loopVars, clientVars>>
    BY <1>12, <2>1, <2>3 DEF TypeOK, ControlTypeOK, RunDeferred, loopVars, clientVars,
       askVars, controlVars
  <2>4. CASE CloseHandler(s) /\ UNCHANGED <<askVars, known, announced>>
    BY <1>12, <2>1, <2>2, <2>4, CloseTypes DEF TypeOK, ControlTypeOK, RunDeferred, askVars,
       controlVars
  <2>5. ASSUME r.kind # "refused",
               plies' \in [Matches -> 0 .. MaxPlies], live' \subseteq Matches,
               activeGames' \in Int, SeatSocket(s, r.claim, r.token)
        PROVE  TypeOK'
    <3>1. r.claim \in Claims /\ r.token \in Tokens \cup {None}
      BY <2>1, <2>5, ReplyFields
    <3> HIDE DEF r, s
    <3> QED
      BY <1>12, <2>1, <2>2, <2>5, <3>1, SeatTypes DEF TypeOK, ControlTypeOK, RunDeferred,
         SeatSocket, askVars, controlVars
  <2>6. CASE r.kind = "joined" /\ DeferredJoin(s, r.claim, r.token)
    <3>1. r.claim.match \in Matches
      BY <2>1, <2>6, ReplyFields, ClaimFields
    <3>2. /\ plies' \in [Matches -> 0 .. MaxPlies]
          /\ live' \subseteq Matches /\ activeGames' \in Int
      <4>1. CASE r.claim.match \in live
        BY <2>6, <4>1 DEF TypeOK, DeferredJoin
      <4>2. CASE r.claim.match \notin live
        <5>1. /\ live' = live \cup {r.claim.match}
              /\ plies' = [plies EXCEPT ![r.claim.match] = 0]
              /\ activeGames' = activeGames + 1
          BY <2>6, <4>2 DEF DeferredJoin
        <5> QED
          BY <3>1, <5>1 DEF TypeOK
      <4> QED
        BY <4>1, <4>2
    <3> QED
      BY <2>5, <2>6, <3>2 DEF DeferredJoin
  <2>7. CASE r.kind = "resumed" /\ DeferredResume(s, r.claim, r.token)
    <3>1. CASE r.claim.match \in live
      BY <2>5, <2>7, <3>1 DEF TypeOK, DeferredResume
    <3>2. CASE r.claim.match \notin live
      BY <2>4, <2>7, <3>2 DEF DeferredResume
    <3> QED
      BY <3>1, <3>2
  <2> QED
    BY <1>12, <2>3, <2>4, <2>6, <2>7 DEF RunDeferred
<1>13. ASSUME Restart PROVE TypeOK'
  BY <1>13 DEF TypeOK, ControlTypeOK, Restart, Vacant, clientVars, askVars, controlVars
<1>14. ASSUME NEW t \in Tokens, ExpireToken(t) PROVE TypeOK'
  BY <1>14 DEF TypeOK, ControlTypeOK, ExpireToken, ExpireResumeToken, loopVars, poolVars,
     clientVars, askVars
<1>15. CASE UNCHANGED vars
  BY <1>15 DEF TypeOK, ControlTypeOK, vars, loopVars, poolVars, clientVars, askVars,
     controlVars
<1> QED
  BY <1>1, <1>2, <1>3, <1>4, <1>5, <1>6, <1>7, <1>8, <1>9, <1>10, <1>11, <1>12, <1>13,
     <1>14, <1>15
  DEF Next, WorkerStep

(* Every state of the server, of its clients and of the service is of the  *)
(* declared type: replies carry the fields their closures read, and no     *)
(* seat, queue or table holds anything else.                               *)
THEOREM TypeCorrect == Spec => []TypeOK
BY TypeInit, TypeStep, PTL DEF Spec

-----------------------------------------------------------------------------
(* Gauges and rooms *)

OpenSockets == {s \in Sockets : sock[s] = "open"}

(* The inductive invariant: the gauges are exact, of finite sets, and a    *)
(* match has somebody in a seat exactly when it has a room.                *)
RoomsInv ==
  /\ TypeOK
  /\ IsFiniteSet(OpenSockets) /\ IsFiniteSet(live)
  /\ GaugesMatchState
  /\ NoAbandonedRoom

LEMMA GaugesRead == GaugesMatchState <=> /\ connected = Cardinality(OpenSockets)
                                         /\ activeGames = Cardinality(live)
BY DEF GaugesMatchState, OpenSockets

(* One connection more, one room less: what a step may do to the gauges. *)
LEMMA SocketsStable ==
  ASSUME RoomsInv, sock' = sock, connected' = connected
  PROVE  IsFiniteSet(OpenSockets') /\ connected' = Cardinality(OpenSockets')
<1>1. OpenSockets' = OpenSockets
  BY DEF OpenSockets
<1> QED
  BY <1>1, GaugesRead DEF RoomsInv

LEMMA RoomErased ==
  ASSUME RoomsInv, NEW m \in live, live' = live \ {m}, activeGames' = activeGames - 1
  PROVE  IsFiniteSet(live') /\ activeGames' = Cardinality(live')
BY FS_RemoveElement, GaugesRead DEF RoomsInv

LEMMA RoomCreated ==
  ASSUME RoomsInv, NEW m \in Matches \ live, live' = live \cup {m},
         activeGames' = activeGames + 1
  PROVE  IsFiniteSet(live') /\ activeGames' = Cardinality(live')
BY FS_AddElement, GaugesRead DEF RoomsInv

LEMMA SocketClosed ==
  ASSUME RoomsInv, NEW s \in Sockets, sock[s] = "open",
         sock' = [sock EXCEPT ![s] = "closed"], connected' = connected - 1
  PROVE  IsFiniteSet(OpenSockets') /\ connected' = Cardinality(OpenSockets')
<1>1. OpenSockets' = OpenSockets \ {s} /\ s \in OpenSockets
  BY DEF RoomsInv, TypeOK, OpenSockets
<1> QED
  BY <1>1, FS_RemoveElement, GaugesRead DEF RoomsInv

LEMMA CloseRooms ==
  ASSUME RoomsInv, NEW s \in Sockets, sock[s] = "open", CloseHandler(s)
  PROVE  /\ IsFiniteSet(OpenSockets') /\ IsFiniteSet(live')
         /\ GaugesMatchState'
         /\ NoAbandonedRoom'
<1>1. IsFiniteSet(OpenSockets') /\ connected' = Cardinality(OpenSockets')
  BY SocketClosed DEF CloseHandler
<1>2. bound[s] # None => Room(s) \in Matches /\ bound[s].color \in Colors
  BY ClaimFields DEF RoomsInv, TypeOK, Room
<1>3. CASE LeavesEmpty(s)
  <2>1. IsFiniteSet(live') /\ activeGames' = Cardinality(live')
    BY <1>3, RoomErased DEF CloseHandler, LeavesEmpty
  <2>2. NoAbandonedRoom'
    BY <1>2, <1>3 DEF RoomsInv, TypeOK, NoAbandonedRoom, CloseHandler, LeavesEmpty,
       SeatsWithout
  <2> QED
    BY <1>1, <2>1, <2>2 DEF GaugesMatchState, OpenSockets
<1>4. CASE ~LeavesEmpty(s)
  <2>1. live' = live /\ activeGames' = activeGames
    BY <1>4 DEF CloseHandler
  <2>2. NoAbandonedRoom'
    BY <1>2, <1>4, <2>1 DEF RoomsInv, TypeOK, NoAbandonedRoom, CloseHandler, LeavesEmpty,
       SeatsWithout
  <2> QED
    BY <1>1, <2>1, <2>2 DEF RoomsInv, GaugesMatchState, OpenSockets
<1> QED
  BY <1>3, <1>4

LEMMA SeatingRooms ==
  ASSUME RoomsInv, NEW s \in Sockets, NEW c \in Claims, NEW t \in Tokens \cup {None},
         SeatSocket(s, c, t),
         \/ c.match \in live /\ UNCHANGED <<live, activeGames>>
         \/ /\ c.match \notin live
            /\ live' = live \cup {c.match} /\ activeGames' = activeGames + 1
  PROVE  /\ IsFiniteSet(OpenSockets') /\ IsFiniteSet(live')
         /\ GaugesMatchState'
         /\ NoAbandonedRoom'
<1>1. IsFiniteSet(OpenSockets') /\ connected' = Cardinality(OpenSockets')
  BY SocketsStable DEF SeatSocket
<1>2. c.match \in Matches /\ c.color \in Colors
  BY ClaimFields
<1>3. IsFiniteSet(live') /\ activeGames' = Cardinality(live')
  BY <1>2, RoomCreated, GaugesRead DEF RoomsInv
<1>4. seat'[c.match] # Vacant
  <2>1. seat'[c.match][c.color] = s
    BY <1>2 DEF RoomsInv, TypeOK, SeatSocket
  <2> QED
    BY <1>2, <2>1, ServerAssumption DEF Vacant
<1>5. NoAbandonedRoom'
  BY <1>2, <1>4 DEF RoomsInv, TypeOK, NoAbandonedRoom, SeatSocket
<1> QED
  BY <1>1, <1>3, <1>5 DEF GaugesMatchState, OpenSockets

LEMMA RoomsInit == Init => RoomsInv
<1> SUFFICES ASSUME Init PROVE RoomsInv
  OBVIOUS
<1>1. OpenSockets = {} /\ live = {}
  BY DEF Init, OpenSockets
<1>2. NoAbandonedRoom
  BY DEF Init, NoAbandonedRoom
<1> QED
  BY <1>1, <1>2, TypeInit, FS_EmptySet, GaugesRead DEF Init, RoomsInv

LEMMA RoomsStep == RoomsInv /\ [Next]_vars => RoomsInv'
<1> SUFFICES ASSUME RoomsInv, [Next]_vars PROVE RoomsInv'
  OBVIOUS
<1>0. TypeOK'
  BY TypeStep DEF RoomsInv
<1> DEFINE Rest == /\ IsFiniteSet(OpenSockets) /\ IsFiniteSet(live)
                   /\ GaugesMatchState
                   /\ NoAbandonedRoom
<1> SUFFICES Rest'
  BY <1>0 DEF RoomsInv
<1>1. ASSUME NEW s \in Sockets, Open(s) PROVE Rest'
  <2>1. OpenSockets' = OpenSockets \cup {s} /\ s \notin OpenSockets
    BY <1>1 DEF RoomsInv, TypeOK, Open, OpenSockets
  <2>2. IsFiniteSet(OpenSockets') /\ connected' = Cardinality(OpenSockets')
    BY <1>1, <2>1, FS_AddElement, GaugesRead DEF RoomsInv, Open
  <2> QED
    BY <1>1, <2>2 DEF RoomsInv, Open, GaugesMatchState, NoAbandonedRoom, OpenSockets
<1>2. ASSUME UNCHANGED <<sock, connected, live, seat, activeGames>> PROVE Rest'
  BY <1>2 DEF RoomsInv, GaugesMatchState, NoAbandonedRoom, OpenSockets
<1>3. ASSUME NEW s \in Sockets, NEW result \in Results, NEW winner \in Users \cup {None},
             FinalMove(s, result, winner)
      PROVE  Rest'
  <2>1. Room(s) \in live /\ EraseRoom(Room(s))
    BY <1>3 DEF FinalMove, CanMove
  <2>2. IsFiniteSet(live') /\ activeGames' = Cardinality(live')
    BY <2>1, RoomErased DEF EraseRoom
  <2>3. NoAbandonedRoom'
    BY <2>1 DEF RoomsInv, TypeOK, EraseRoom, NoAbandonedRoom
  <2>4. IsFiniteSet(OpenSockets') /\ connected' = Cardinality(OpenSockets')
    BY <1>3, SocketsStable DEF FinalMove
  <2> QED
    BY <2>2, <2>3, <2>4 DEF GaugesMatchState, OpenSockets
<1>4. ASSUME NEW s \in Sockets, Close(s) PROVE Rest'
  BY <1>4, CloseRooms DEF Close
<1>5. ASSUME RunDeferred PROVE Rest'
  <2> DEFINE r == Head(deferred)
             s == r.sock
  <2>1. r \in Replies /\ s \in Sockets
    BY <1>5, QueueSteps, ReplyFields DEF RoomsInv, TypeOK, RunDeferred
  <2>2. r.kind # "refused" => r.claim \in Claims /\ r.token \in Tokens \cup {None}
    BY <2>1, ReplyFields
  <2>3. CASE UNCHANGED <<loopVars, clientVars>>
    BY <1>2, <2>3 DEF loopVars
  <2>4. CASE sock[s] = "open" /\ CloseHandler(s)
    BY <2>1, <2>4, CloseRooms
  <2>5. CASE r.kind = "joined" /\ DeferredJoin(s, r.claim, r.token)
    <3> HIDE DEF r, s
    <3> QED
      BY <2>1, <2>2, <2>5, SeatingRooms DEF DeferredJoin
  <2>6. CASE r.kind = "resumed" /\ r.claim.match \in live
             /\ DeferredResume(s, r.claim, r.token)
    <3> HIDE DEF r, s
    <3> QED
      BY <2>1, <2>2, <2>6, SeatingRooms DEF DeferredResume
  <2> QED
    BY <1>5, <2>3, <2>4, <2>5, <2>6 DEF RunDeferred, DeferredResume
<1>6. ASSUME Restart PROVE Rest'
  <2>1. OpenSockets' = {} /\ live' = {}
    BY <1>6 DEF RoomsInv, TypeOK, Restart, OpenSockets
  <2> QED
    BY <1>6, <2>1, FS_EmptySet DEF Restart, GaugesMatchState, NoAbandonedRoom, OpenSockets
<1>7. ASSUME NEW w \in Workers, Take(w) \/ WorkerStep(w) PROVE Rest'
  <2>1. UNCHANGED loopVars
    BY <1>7 DEF Take, WorkerStep, VerifyMatchTicket, Resolve, Mint, Report
  <2> QED
    BY <1>2, <2>1 DEF loopVars
<1>8. ASSUME NEW s \in Sockets, \/ \E c \in Claims : JoinMessage(s, c)
                                \/ \E t \in Tokens : ResumeMessage(s, t)
                                \/ MoveMessage(s)
      PROVE  Rest'
  BY <1>2, <1>8 DEF JoinMessage, ResumeMessage, MoveMessage, loopVars
<1>9. ASSUME NEW t \in Tokens, ExpireToken(t) PROVE Rest'
  BY <1>2, <1>9 DEF ExpireToken, loopVars
<1>10. CASE UNCHANGED vars
  BY <1>2, <1>10 DEF vars, loopVars
<1> QED
  BY <1>1, <1>3, <1>4, <1>5, <1>6, <1>7, <1>8, <1>9, <1>10 DEF Next

(* The metrics never drift: however sockets and rooms come and go, the two *)
(* gauges are the number of open connections and of rooms.                 *)
THEOREM GaugesCorrect == Spec => []GaugesMatchState
<1>1. RoomsInv => GaugesMatchState
  BY DEF RoomsInv
<1> QED
  BY <1>1, RoomsInit, RoomsStep, PTL DEF Spec

(* No room outlives its players' seats and no seat outlives its room, so   *)
(* rooms_ holds no leaked game whatever order joins, moves and closes take. *)
THEOREM RoomsCorrect == Spec => []NoAbandonedRoom
<1>1. RoomsInv => NoAbandonedRoom
  BY DEF RoomsInv
<1> QED
  BY <1>1, RoomsInit, RoomsStep, PTL DEF Spec

-----------------------------------------------------------------------------
(* Boards *)

(* No join, resume or close sets a running game back. *)
THEOREM GamesAdvance == Spec => GamesOnlyAdvance
<1> DEFINE Advance == \A m \in live \cap live' : plies'[m] >= plies[m]
<1>1. TypeOK /\ [Next]_vars => [Advance]_vars
  <2> SUFFICES ASSUME TypeOK, Next PROVE Advance
    OBVIOUS
  <2>1. plies \in [Matches -> Int] /\ live \subseteq Matches
    BY ServerAssumption DEF TypeOK
  <2>2. ASSUME UNCHANGED plies PROVE Advance
    BY <2>1, <2>2
  <2>3. ASSUME NEW m \in Matches, plies' = [plies EXCEPT ![m] = plies[m] + 1] PROVE Advance
    BY <2>1, <2>3
  <2>4. ASSUME NEW m \in Matches \ live, plies' = [plies EXCEPT ![m] = 0] PROVE Advance
    BY <2>1, <2>4
  <2>5. ASSUME NEW s \in Sockets, \/ MoveMessage(s)
                                  \/ \E result \in Results, winner \in Users \cup {None} :
                                       FinalMove(s, result, winner)
        PROVE  Advance
    BY <2>1, <2>3, <2>5 DEF MoveMessage, FinalMove, CanMove
  <2>6. ASSUME RunDeferred PROVE Advance
    <3> DEFINE r == Head(deferred)
               s == r.sock
    <3>1. r \in Replies
      BY <2>6, QueueSteps DEF TypeOK, RunDeferred
    <3>2. CASE r.kind = "joined" /\ DeferredJoin(s, r.claim, r.token)
      <4>1. r.claim.match \in Matches
        BY <3>1, <3>2, ReplyFields, ClaimFields
      <4> QED
        BY <2>2, <2>4, <3>2, <4>1 DEF DeferredJoin
    <3>3. CASE r.kind # "joined"
      BY <2>2, <2>6, <3>1, <3>3, ReplyFields
      DEF RunDeferred, DeferredResume, CloseHandler, loopVars
    <3> QED
      BY <2>2, <2>6, <3>2, <3>3 DEF RunDeferred, loopVars
  <2>7. ASSUME NEW w \in Workers, Take(w) \/ WorkerStep(w) PROVE Advance
    BY <2>2, <2>7 DEF Take, WorkerStep, VerifyMatchTicket, Resolve, Mint, Report, loopVars
  <2>8. ASSUME NEW s \in Sockets, \/ Open(s) \/ Close(s)
                                  \/ \E c \in Claims : JoinMessage(s, c)
                                  \/ \E t \in Tokens : ResumeMessage(s, t)
        PROVE  Advance
    BY <2>2, <2>8 DEF Open, Close, CloseHandler, JoinMessage, ResumeMessage, loopVars
  <2>9. ASSUME Restart PROVE Advance
    BY <2>9 DEF Restart
  <2>10. ASSUME NEW t \in Tokens, ExpireToken(t) PROVE Advance
    BY <2>2, <2>10 DEF ExpireToken, loopVars
  <2> QED
    BY <2>5, <2>6, <2>7, <2>8, <2>9, <2>10 DEF Next
<1> QED
  BY <1>1, TypeCorrect, PTL DEF Spec, GamesOnlyAdvance

-----------------------------------------------------------------------------
(* Seats, when no connection asks twice *)

(* What is on its way for a connection is for the seat it asked for: the   *)
(* jobs, the workers' calls and the closures all carry the same claim.     *)
Elements(q) == {q[i] : i \in DOMAIN q}

InFlight == Elements(jobs) \cup {work[w] : w \in Workers} \cup Elements(deferred)

AskedFor(x) ==
  /\ x.kind \in {"join", "mint", "joined", "resumed"} => asked[x.sock] = x.claim
  /\ x.kind = "resume" => /\ store[x.token] # "unissued"
                          /\ asked[x.sock] = grant[x.token]
  /\ x.kind \in {"joined", "resumed"} /\ x.token # None => store[x.token] # "unissued"

AsksInv ==
  /\ TypeOK
  /\ \A x \in InFlight : AskedFor(x)
  /\ \A s \in Sockets : bound[s] # None => asked[s] = bound[s]
  /\ \A t \in known : store[t] # "unissued"

LEMMA ElementSteps ==
  ASSUME NEW S, NEW q \in Seq(S)
  PROVE  /\ Elements(q) \subseteq S
         /\ \A e \in S : Elements(Append(q, e)) = Elements(q) \cup {e}
         /\ q # << >> => Head(q) \in Elements(q) /\ Elements(Tail(q)) \subseteq Elements(q)
<1>1. ASSUME NEW e \in S PROVE Elements(Append(q, e)) = Elements(q) \cup {e}
  <2>1. DOMAIN q = 1 .. Len(q) /\ DOMAIN Append(q, e) = 1 .. Len(q) + 1 /\ Len(q) \in Nat
    BY AppendProperties, LenProperties
  <2>2. \A i \in 1 .. Len(q) : Append(q, e)[i] = q[i]
    BY AppendProperties
  <2>3. Append(q, e)[Len(q) + 1] = e
    BY AppendProperties
  <2>4. Elements(Append(q, e)) \subseteq Elements(q) \cup {e}
    BY <2>1, <2>2, <2>3 DEF Elements
  <2>5. Elements(q) \cup {e} \subseteq Elements(Append(q, e))
    BY <2>1, <2>2, <2>3 DEF Elements
  <2> QED
    BY <2>4, <2>5
<1>2. ASSUME q # << >>
      PROVE  Head(q) \in Elements(q) /\ Elements(Tail(q)) \subseteq Elements(q)
  BY <1>2 DEF Elements
<1>3. Elements(q) \subseteq S
  BY ElementOfSeq, LenProperties DEF Elements
<1> QED
  BY <1>1, <1>2, <1>3

(* A claim once asked for, and a token once issued, stay what they are. *)
AsksKept ==
  /\ \A s \in Sockets : asked[s] # None => asked'[s] = asked[s]
  /\ \A t \in Tokens : store[t] # "unissued" => /\ store'[t] # "unissued"
                                               /\ grant'[t] = grant[t]

LEMMA KeptStep ==
  ASSUME "rebind" \notin ClientMay, TypeOK, Next
  PROVE  AsksKept
<1> USE DEF TypeOK, ControlTypeOK, AsksKept
<1>1. ASSUME NEW s \in Sockets, \/ \E c \in Claims : JoinMessage(s, c)
                                \/ \E t \in Tokens : ResumeMessage(s, t)
      PROVE  AsksKept
  BY <1>1 DEF JoinMessage, ResumeMessage, MayAsk, controlVars
<1>2. ASSUME NEW w \in Workers, NEW t \in Tokens \cup {None}, Mint(w, t) PROVE AsksKept
  BY <1>2, ControlAssumption DEF Mint, CreateResumeToken, controlVars, clientVars, askVars
<1>3. ASSUME NEW w \in Workers, Resolve(w) PROVE AsksKept
  BY <1>3 DEF Resolve, ResolveResumeToken, controlVars, clientVars, askVars
<1>4. ASSUME NEW w \in Workers, Report(w) PROVE AsksKept
  BY <1>4 DEF Report, ReportGameEnd, controlVars, clientVars, askVars
<1>5. ASSUME NEW w \in Workers, Take(w) \/ VerifyMatchTicket(w) PROVE AsksKept
  BY <1>5 DEF Take, VerifyMatchTicket, controlVars, clientVars, askVars
<1>6. ASSUME NEW s \in Sockets, \/ Open(s) \/ Close(s) \/ MoveMessage(s)
                                \/ \E result \in Results, winner \in Users \cup {None} :
                                     FinalMove(s, result, winner)
      PROVE  AsksKept
  BY <1>6 DEF Open, Close, MoveMessage, FinalMove, controlVars, clientVars, askVars
<1>7. ASSUME RunDeferred \/ Restart PROVE AsksKept
  BY <1>7 DEF RunDeferred, DeferredJoin, DeferredResume, SeatSocket, Restart, controlVars,
     clientVars, askVars
<1>8. ASSUME NEW t \in Tokens, ExpireToken(t) PROVE AsksKept
  BY <1>8 DEF ExpireToken, ExpireResumeToken, clientVars, askVars
<1> QED
  BY <1>1, <1>2, <1>3, <1>4, <1>5, <1>6, <1>7, <1>8 DEF Next, WorkerStep

LEMMA KeptAsked ==
  ASSUME TypeOK, AsksKept, NEW x \in {Idle} \cup Jobs \cup Mints \cup Replies, AskedFor(x)
  PROVE  AskedFor(x)'
<1>1. x.kind \in {"join", "mint", "joined", "resumed"} =>
        x.sock \in Sockets /\ x.claim \in Claims
  BY WorkFields, ReplyFields DEF Idle, Jobs, Mints, Replies
<1>2. x.kind = "resume" => x.sock \in Sockets /\ x.token \in Tokens
  BY WorkFields DEF Idle, Jobs, Mints, Replies
<1>3. x.kind \in {"joined", "resumed"} => x.token \in Tokens \cup {None}
  BY ReplyFields DEF Idle, Jobs, Mints, Replies
<1>4. x.kind \in {"join", "mint", "joined", "resumed"} => asked'[x.sock] = x.claim
  BY <1>1, ClaimFields DEF AsksKept, AskedFor
<1>5. x.kind = "resume" => /\ store'[x.token] # "unissued"
                           /\ asked'[x.sock] = grant'[x.token]
  BY <1>2 DEF TypeOK, ControlTypeOK, AsksKept, AskedFor
<1>6. x.kind \in {"joined", "resumed"} /\ x.token # None => store'[x.token] # "unissued"
  BY <1>3 DEF AsksKept, AskedFor
<1> QED
  BY <1>4, <1>5, <1>6 DEF AskedFor

LEMMA InFlightTypes ==
  ASSUME TypeOK
  PROVE  InFlight \subseteq {Idle} \cup Jobs \cup Mints \cup Replies
BY ElementSteps DEF TypeOK, InFlight

LEMMA AcceptInFlight ==
  ASSUME TypeOK, NEW w \in Workers, NEW c, NEW reply, Accept(w, c, reply), UNCHANGED jobs
  PROVE  InFlight' \subseteq InFlight \cup
           {Idle, [kind |-> "mint", sock |-> work[w].sock, claim |-> c, reply |-> reply]}
BY DEF TypeOK, Accept, InFlight, Elements

LEMMA RefuseInFlight ==
  ASSUME TypeOK, NEW w \in Workers, work[w].sock \in Sockets, Refuse(w), UNCHANGED jobs
  PROVE  InFlight' \subseteq InFlight \cup
           {Idle, [kind |-> "refused", sock |-> work[w].sock]}
<1>1. [kind |-> "refused", sock |-> work[w].sock] \in Replies
  BY DEF Replies
<1>2. Elements(deferred') =
        Elements(deferred) \cup {[kind |-> "refused", sock |-> work[w].sock]}
  BY <1>1, ElementSteps DEF TypeOK, Refuse, Defer
<1> QED
  BY <1>2 DEF TypeOK, Refuse, InFlight, Elements

(* Queueing a job puts that job, and nothing else, in flight. *)
LEMMA QueuedInFlight ==
  ASSUME TypeOK, NEW x \in Jobs, jobs' = Append(jobs, x), UNCHANGED <<work, deferred>>
  PROVE  InFlight' \subseteq InFlight \cup {Idle, x}
<1>1. jobs \in Seq(Jobs)
  BY DEF TypeOK
<1>2. Elements(Append(jobs, x)) = Elements(jobs) \cup {x}
  BY <1>1, ElementSteps
<1>3. Elements(jobs') = Elements(jobs) \cup {x}
  BY <1>2
<1>4. Elements(deferred') = Elements(deferred)
  BY DEF Elements
<1> QED
  BY <1>3, <1>4 DEF InFlight

LEMMA AsksStep ==
  ASSUME "rebind" \notin ClientMay, AsksInv, [Next]_vars
  PROVE  AsksInv'
<1>1. TypeOK /\ TypeOK'
  BY TypeStep DEF AsksInv
<1>2. CASE UNCHANGED vars
  BY <1>1, <1>2 DEF AsksInv, InFlight, Elements, AskedFor, vars, loopVars, poolVars,
     clientVars, askVars, controlVars
<1>3. CASE Next
  <2>0. AsksKept
    BY <1>1, <1>3, KeptStep
  <2>1. \A x \in InFlight : AskedFor(x)'
    BY <1>1, <2>0, KeptAsked, InFlightTypes DEF AsksInv
  <2> DEFINE Bound == \A s \in Sockets : bound[s] # None => asked[s] = bound[s]
             Known == \A t \in known : store[t] # "unissued"
  <2>2. UNCHANGED bound => Bound'
    BY <1>1, <2>0 DEF AsksInv, TypeOK, AsksKept
  <2>3. UNCHANGED known => Known'
    BY <1>1, <2>0 DEF AsksInv, TypeOK, AsksKept
  <2>4. ASSUME NEW x, AskedFor(x)', InFlight' \subseteq InFlight \cup {Idle, x}
        PROVE  \A y \in InFlight' : AskedFor(y)'
    BY <2>1, <2>4 DEF AskedFor, Idle
  <2>5. ASSUME NEW s \in Sockets, NEW c \in Claims, JoinMessage(s, c) PROVE AsksInv'
    <3> DEFINE x == [kind |-> "join", sock |-> s, claim |-> c]
    <3>1. x \in Jobs
      BY DEF Jobs
    <3>2. jobs' = Append(jobs, x) /\ UNCHANGED <<work, deferred>>
      BY <2>5 DEF JoinMessage, Enqueue
    <3>3. AskedFor(x)'
      BY <1>1, <2>5 DEF TypeOK, JoinMessage, AskedFor
    <3> HIDE DEF x
    <3>5. InFlight' \subseteq InFlight \cup {Idle, x}
      BY <1>1, <3>1, <3>2, QueuedInFlight
    <3>4. \A y \in InFlight' : AskedFor(y)'
      BY <2>4, <3>3, <3>5
    <3> QED
      BY <1>1, <2>2, <2>3, <2>5, <3>4 DEF AsksInv, JoinMessage, loopVars
  <2>6. ASSUME NEW s \in Sockets, NEW t \in Tokens, ResumeMessage(s, t) PROVE AsksInv'
    <3> DEFINE x == [kind |-> "resume", sock |-> s, token |-> t]
    <3>1. x \in Jobs
      BY DEF Jobs
    <3>2. jobs' = Append(jobs, x) /\ UNCHANGED <<work, deferred>>
      BY <2>6 DEF ResumeMessage, Enqueue
    <3>3. AskedFor(x)'
      BY <1>1, <2>6 DEF AsksInv, TypeOK, ResumeMessage, AskedFor, controlVars
    <3> HIDE DEF x
    <3>5. InFlight' \subseteq InFlight \cup {Idle, x}
      BY <1>1, <3>1, <3>2, QueuedInFlight
    <3>4. \A y \in InFlight' : AskedFor(y)'
      BY <2>4, <3>3, <3>5
    <3> QED
      BY <1>1, <2>2, <2>3, <2>6, <3>4 DEF AsksInv, ResumeMessage, loopVars
  <2>7. ASSUME NEW s \in Sockets, Open(s) \/ MoveMessage(s) PROVE AsksInv'
    <3>1. InFlight' = InFlight /\ UNCHANGED <<bound, known>>
      BY <2>7 DEF Open, MoveMessage, InFlight, Elements, poolVars, clientVars, askVars
    <3> QED
      BY <1>1, <2>1, <2>2, <2>3, <3>1 DEF AsksInv
  <2>8. ASSUME NEW s \in Sockets, NEW result \in Results, NEW winner \in Users \cup {None},
               FinalMove(s, result, winner)
        PROVE  AsksInv'
    <3> DEFINE x == [kind |-> "report", match |-> Room(s), winner |-> winner]
    <3>1. x \in Jobs
      BY <1>1, <2>8 DEF TypeOK, FinalMove, CanMove, Jobs
    <3>2. jobs' = Append(jobs, x) /\ UNCHANGED <<work, deferred>>
      BY <2>8 DEF FinalMove, Enqueue
    <3>3. x.kind = "report"
      OBVIOUS
    <3> HIDE DEF x
    <3>4. InFlight' \subseteq InFlight \cup {Idle, x}
      BY <1>1, <3>1, <3>2, QueuedInFlight
    <3>5. \A y \in InFlight' : AskedFor(y)'
      BY <2>1, <3>3, <3>4 DEF AskedFor, Idle
    <3> QED
      BY <1>1, <2>2, <2>3, <2>8, <3>5 DEF AsksInv, FinalMove, loopVars
  <2>9. ASSUME NEW s \in Sockets, Close(s) PROVE AsksInv'
    <3>1. InFlight' = InFlight /\ UNCHANGED <<asked, known>>
      BY <2>9 DEF Close, InFlight, Elements, poolVars, askVars
    <3>2. Bound'
      BY <1>1, <2>9, <3>1 DEF AsksInv, TypeOK, Close, CloseHandler
    <3> QED
      BY <1>1, <2>1, <2>3, <3>1, <3>2 DEF AsksInv
  <2>10. ASSUME NEW w \in Workers, Take(w) PROVE AsksInv'
    <3>1. Head(jobs) \in Elements(jobs) /\ Elements(Tail(jobs)) \subseteq Elements(jobs)
      BY <1>1, <2>10, ElementSteps DEF TypeOK, Take
    <3>2. InFlight' \subseteq InFlight
      BY <1>1, <2>10, <3>1 DEF TypeOK, Take, InFlight, Elements
    <3> QED
      BY <1>1, <2>1, <2>2, <2>3, <2>10, <3>2 DEF AsksInv, Take, loopVars, clientVars
  <2>11. ASSUME NEW w \in Workers, VerifyMatchTicket(w) PROVE AsksInv'
    <3>1. work[w].sock \in Sockets /\ work[w] \in InFlight
      BY <1>1, <2>11, WorkFields DEF TypeOK, VerifyMatchTicket, InFlight
    <3>2. UNCHANGED <<jobs, asked, bound, known>>
      BY <2>11 DEF VerifyMatchTicket, loopVars, clientVars, askVars
    <3>3. asked[work[w].sock] = work[w].claim
      BY <2>11, <3>1 DEF AsksInv, AskedFor, VerifyMatchTicket
    <3>4. ASSUME Accept(w, work[w].claim, "joined") PROVE \A y \in InFlight' : AskedFor(y)'
      <4> DEFINE x == [kind |-> "mint", sock |-> work[w].sock, claim |-> work[w].claim,
                       reply |-> "joined"]
      <4>1. InFlight' \subseteq InFlight \cup {Idle, x}
        BY <1>1, <3>2, <3>4, AcceptInFlight
      <4>2. x.kind = "mint" /\ asked'[x.sock] = x.claim
        BY <3>2, <3>3
      <4> HIDE DEF x
      <4> QED
        BY <2>1, <4>1, <4>2 DEF AskedFor, Idle
    <3>5. ASSUME Refuse(w) PROVE \A y \in InFlight' : AskedFor(y)'
      <4> DEFINE x == [kind |-> "refused", sock |-> work[w].sock]
      <4>1. InFlight' \subseteq InFlight \cup {Idle, x}
        BY <1>1, <3>1, <3>2, <3>5, RefuseInFlight
      <4>2. x.kind = "refused"
        OBVIOUS
      <4> HIDE DEF x
      <4> QED
        BY <2>1, <4>1, <4>2 DEF AskedFor, Idle
    <3>6. \A y \in InFlight' : AskedFor(y)'
      BY <2>11, <3>4, <3>5 DEF VerifyMatchTicket
    <3> QED
      BY <1>1, <2>2, <2>3, <3>2, <3>6 DEF AsksInv
  <2>12. ASSUME NEW w \in Workers, Resolve(w) PROVE AsksInv'
    <3>1. work[w].sock \in Sockets /\ work[w] \in InFlight
      BY <1>1, <2>12, WorkFields DEF TypeOK, Resolve, InFlight
    <3>2. UNCHANGED <<jobs, asked, bound, known>>
      BY <2>12 DEF Resolve, loopVars, clientVars, askVars
    <3>3. asked[work[w].sock] = grant[work[w].token]
      BY <2>12, <3>1 DEF AsksInv, AskedFor, Resolve
    <3>4. ASSUME Accept(w, grant[work[w].token], "resumed") PROVE \A y \in InFlight' : AskedFor(y)'
      <4> DEFINE x == [kind |-> "mint", sock |-> work[w].sock, claim |-> grant[work[w].token],
                       reply |-> "resumed"]
      <4>1. InFlight' \subseteq InFlight \cup {Idle, x}
        BY <1>1, <3>2, <3>4, AcceptInFlight
      <4>2. x.kind = "mint" /\ asked'[x.sock] = x.claim
        BY <3>2, <3>3
      <4> HIDE DEF x
      <4> QED
        BY <2>1, <4>1, <4>2 DEF AskedFor, Idle
    <3>5. ASSUME Refuse(w) PROVE \A y \in InFlight' : AskedFor(y)'
      <4> DEFINE x == [kind |-> "refused", sock |-> work[w].sock]
      <4>1. InFlight' \subseteq InFlight \cup {Idle, x}
        BY <1>1, <3>1, <3>2, <3>5, RefuseInFlight
      <4>2. x.kind = "refused"
        OBVIOUS
      <4> HIDE DEF x
      <4> QED
        BY <2>1, <4>1, <4>2 DEF AskedFor, Idle
    <3>6. \A y \in InFlight' : AskedFor(y)'
      BY <2>12, <3>4, <3>5 DEF Resolve
    <3> QED
      BY <1>1, <2>2, <2>3, <3>2, <3>6 DEF AsksInv
  <2>13. ASSUME NEW w \in Workers, NEW t \in Tokens \cup {None}, Mint(w, t) PROVE AsksInv'
    <3> DEFINE x == [kind |-> work[w].reply, sock |-> work[w].sock,
                      claim |-> work[w].claim, token |-> t]
    <3>1. /\ work[w].sock \in Sockets /\ work[w].claim \in Claims
          /\ work[w].reply \in {"joined", "resumed"} /\ work[w] \in InFlight
      BY <1>1, <2>13, WorkFields DEF TypeOK, Mint, InFlight
    <3>2. x \in Replies
      BY <3>1 DEF Replies
    <3>3. Elements(deferred') = Elements(deferred) \cup {x}
      BY <1>1, <2>13, <3>2, ElementSteps DEF TypeOK, Mint, Defer
    <3>4. InFlight' \subseteq InFlight \cup {Idle, x}
      BY <1>1, <2>13, <3>3 DEF TypeOK, Mint, InFlight, Elements
    <3>5. asked'[x.sock] = x.claim
      BY <2>13, <3>1 DEF AsksInv, AskedFor, Mint, clientVars, askVars
    <3>6. x.token # None => store'[x.token] # "unissued"
      BY <1>1, <2>13 DEF TypeOK, ControlTypeOK, Mint, CreateResumeToken
    <3>7. x.kind \in {"joined", "resumed"}
      BY <3>1
    <3> HIDE DEF x
    <3>8. \A y \in InFlight' : AskedFor(y)'
      BY <2>1, <3>4, <3>5, <3>6, <3>7 DEF AskedFor, Idle
    <3> QED
      BY <1>1, <2>2, <2>3, <2>13, <3>8 DEF AsksInv, Mint, loopVars, clientVars
  <2>14. ASSUME NEW w \in Workers, Report(w) PROVE AsksInv'
    <3>1. InFlight' \subseteq InFlight \cup {Idle}
      BY <1>1, <2>14 DEF TypeOK, Report, InFlight, Elements
    <3>2. \A y \in InFlight' : AskedFor(y)'
      BY <2>1, <3>1 DEF AskedFor, Idle
    <3> QED
      BY <1>1, <2>2, <2>3, <2>14, <3>2 DEF AsksInv, Report, loopVars, clientVars
  <2>15. ASSUME RunDeferred PROVE AsksInv'
    <3> DEFINE r == Head(deferred)
               s == r.sock
    <3>1. r \in Replies /\ r \in InFlight
      BY <1>1, <2>15, QueueSteps, ElementSteps DEF TypeOK, RunDeferred, InFlight
    <3>2. s \in Sockets
      BY <3>1, ReplyFields
    <3>3. Elements(deferred') \subseteq Elements(deferred)
      BY <1>1, <2>15, ElementSteps DEF TypeOK, RunDeferred
    <3>4. InFlight' \subseteq InFlight
      BY <2>15, <3>3 DEF RunDeferred, InFlight, Elements
    <3>5. UNCHANGED <<asked, store>>
      BY <2>15 DEF RunDeferred, DeferredJoin, DeferredResume, SeatSocket, controlVars,
         clientVars, askVars
    <3>6. CASE UNCHANGED <<bound, known>>
      BY <1>1, <2>1, <2>2, <2>3, <3>4, <3>6 DEF AsksInv
    <3>7. CASE CloseHandler(s) /\ UNCHANGED known
      <4>1. Bound'
        BY <1>1, <3>5, <3>7 DEF AsksInv, TypeOK, CloseHandler
      <4> QED
        BY <1>1, <2>1, <2>3, <3>4, <3>7, <4>1 DEF AsksInv
    <3>8. CASE r.kind \in {"joined", "resumed"} /\ SeatSocket(s, r.claim, r.token)
      <4>1. asked[s] = r.claim /\ (r.token # None => store[r.token] # "unissued")
        BY <3>1, <3>8 DEF AsksInv, AskedFor
      <4> HIDE DEF r, s
      <4>2. Bound'
        BY <1>1, <3>2, <3>5, <3>8, <4>1 DEF AsksInv, TypeOK, SeatSocket
      <4>3. Known'
        BY <3>5, <3>8, <4>1 DEF AsksInv, SeatSocket
      <4> QED
        BY <1>1, <2>1, <3>4, <4>2, <4>3 DEF AsksInv
    <3> QED
      BY <2>15, <3>6, <3>7, <3>8 DEF RunDeferred, DeferredJoin, DeferredResume, loopVars,
         clientVars
  <2>16. ASSUME Restart PROVE AsksInv'
    <3>1. InFlight' \subseteq {Idle}
      BY <2>16 DEF Restart, InFlight, Elements
    <3>2. \A y \in InFlight' : AskedFor(y)'
      BY <3>1 DEF AskedFor, Idle
    <3> QED
      BY <1>1, <2>3, <2>16, <3>2 DEF AsksInv, Restart, clientVars
  <2>17. ASSUME NEW t \in Tokens, ExpireToken(t) PROVE AsksInv'
    <3>1. InFlight' = InFlight /\ UNCHANGED <<bound, known>>
      BY <2>17 DEF ExpireToken, InFlight, Elements, loopVars, poolVars, clientVars
    <3> QED
      BY <1>1, <2>1, <2>2, <2>3, <3>1 DEF AsksInv
  <2> QED
    BY <1>3, <2>5, <2>6, <2>7, <2>8, <2>9, <2>10, <2>11, <2>12, <2>13, <2>14, <2>15,
       <2>16, <2>17 DEF Next, WorkerStep
<1> QED
  BY <1>2, <1>3

(* The inductive invariant: with every claim in its lane, a seat and the   *)
(* socket in it name each other, and the socket shows the room's board.    *)
SeatsInv ==
  /\ RoomsInv
  /\ AsksInv
  /\ SeatsHoldOpenSockets
  /\ SeatedViewsInSync

(* What the invariant says of one seat. *)
LEMMA SeatFacts ==
  ASSUME SeatsInv, NEW m \in Matches, NEW d \in Colors, NEW r \in Sockets,
         seat[m][d] = r
  PROVE  /\ sock[r] = "open" /\ bound[r] # None
         /\ bound[r].match = m /\ bound[r].color = d
         /\ bound[r] = asked[r]
         /\ view[r] = plies[m]
         /\ m \in live
<1>1. /\ sock[r] = "open" /\ bound[r] # None
      /\ bound[r].match = m /\ bound[r].color = d
  BY DEF SeatsInv, SeatsHoldOpenSockets, Seated
<1>2. view[r] = plies[m]
  BY DEF SeatsInv, SeatedViewsInSync, Seated
<1>3. bound[r] = asked[r]
  BY <1>1 DEF SeatsInv, AsksInv
<1>4. seat[m] # Vacant
  BY ServerAssumption DEF Vacant
<1> QED
  BY <1>1, <1>2, <1>3, <1>4 DEF SeatsInv, RoomsInv, NoAbandonedRoom

LEMMA SeatTyped ==
  ASSUME SeatsInv
  PROVE  /\ sock \in [Sockets -> {"new", "open", "closed"}]
         /\ bound \in [Sockets -> Claims \cup {None}]
         /\ seat \in [Matches -> [Colors -> Sockets \cup {None}]]
         /\ plies \in [Matches -> 0 .. MaxPlies]
         /\ view \in [Sockets -> -1 .. MaxPlies]
BY DEF SeatsInv, RoomsInv, TypeOK

(* It is enough to look at the seats taken after the step. *)
LEMMA SeatsNext ==
  ASSUME \A m \in Matches, d \in Colors, r \in Sockets : seat'[m][d] = r =>
           /\ sock'[r] = "open" /\ bound'[r] # None
           /\ bound'[r].match = m /\ bound'[r].color = d
           /\ view'[r] = plies'[m]
  PROVE  SeatsHoldOpenSockets' /\ SeatedViewsInSync'
BY DEF SeatsHoldOpenSockets, SeatedViewsInSync, Seated

(* A socket takes one seat only: if it had one, it was this one. *)
LEMMA SeatingSeats ==
  ASSUME SeatsInv, NEW s \in Sockets, sock[s] = "open",
         NEW c \in Claims, asked[s] = c, NEW t \in Tokens \cup {None},
         SeatSocket(s, c, t),
         \/ UNCHANGED plies
         \/ c.match \notin live /\ plies' = [plies EXCEPT ![c.match] = 0]
  PROVE  SeatsHoldOpenSockets' /\ SeatedViewsInSync'
<1>1. c.match \in Matches /\ c.color \in Colors /\ c # None
  BY ClaimFields
<1>2. /\ bound' = [bound EXCEPT ![s] = c]
      /\ seat'  = [seat EXCEPT ![c.match][c.color] = s]
      /\ view'  = [view EXCEPT ![s] = plies'[c.match]]
      /\ sock' = sock
  BY DEF SeatSocket
<1> SUFFICES ASSUME NEW m \in Matches, NEW d \in Colors, NEW r \in Sockets, seat'[m][d] = r
             PROVE  /\ sock'[r] = "open" /\ bound'[r] # None
                    /\ bound'[r].match = m /\ bound'[r].color = d
                    /\ view'[r] = plies'[m]
  BY SeatsNext
<1>3. CASE m = c.match /\ d = c.color
  <2>1. r = s
    BY <1>1, <1>2, <1>3, SeatTyped
  <2> QED
    BY <1>1, <1>2, <1>3, <2>1, SeatTyped
<1>4. CASE m # c.match \/ d # c.color
  <2>1. seat[m][d] = r
    BY <1>1, <1>2, <1>4, SeatTyped
  <2>2. /\ sock[r] = "open" /\ bound[r] # None
        /\ bound[r].match = m /\ bound[r].color = d
        /\ bound[r] = asked[r] /\ view[r] = plies[m] /\ m \in live
    BY <2>1, SeatFacts
  <2>3. r # s
    BY <1>4, <2>2
  <2>4. plies'[m] = plies[m]
    BY <1>1, <2>2, SeatTyped
  <2> QED
    BY <1>2, <2>2, <2>3, <2>4, SeatTyped
<1> QED
  BY <1>3, <1>4

(* Nobody else's seat is touched by a close, and the closed socket has none. *)
LEMMA CloseSeats ==
  ASSUME SeatsInv, NEW s \in Sockets, CloseHandler(s)
  PROVE  SeatsHoldOpenSockets' /\ SeatedViewsInSync'
<1>1. /\ sock' = [sock EXCEPT ![s] = "closed"]
      /\ bound' = [bound EXCEPT ![s] = None]
      /\ seat' = SeatsWithout(s)
      /\ plies' = plies /\ view' = view
  BY DEF CloseHandler
<1> SUFFICES ASSUME NEW m \in Matches, NEW d \in Colors, NEW r \in Sockets, seat'[m][d] = r
             PROVE  /\ sock'[r] = "open" /\ bound'[r] # None
                    /\ bound'[r].match = m /\ bound'[r].color = d
                    /\ view'[r] = plies'[m]
  BY SeatsNext
<1>2. seat[m][d] = r
  BY <1>1, SeatTyped, ServerAssumption DEF SeatsWithout
<1>3. /\ sock[r] = "open" /\ bound[r] # None
      /\ bound[r].match = m /\ bound[r].color = d
      /\ view[r] = plies[m] /\ m \in live
  BY <1>2, SeatFacts
<1>4. r # s
  <2> SUFFICES ASSUME r = s PROVE FALSE
    OBVIOUS
  <2>1. SeatsWithout(s) = [seat EXCEPT ![m][d] = None]
    BY <1>3 DEF SeatsWithout, Room
  <2> QED
    BY <1>1, <2>1, SeatTyped, ServerAssumption
<1> QED
  BY <1>1, <1>3, <1>4, SeatTyped

(* A broadcast reaches all of a room, and nobody in another one. *)
LEMMA BroadcastSeats ==
  ASSUME SeatsInv, NEW m \in Matches, NEW ply \in 0 .. MaxPlies,
         plies' = [plies EXCEPT ![m] = ply], view' = Broadcast(m, ply),
         NEW n \in Matches, NEW d \in Colors, NEW r \in Sockets, seat[n][d] = r
  PROVE  view'[r] = plies'[n]
<1>1. sock[r] = "open" /\ bound[r].match = n /\ view[r] = plies[n]
  BY SeatFacts
<1>2. CASE n = m
  BY <1>1, <1>2, SeatTyped DEF Broadcast
<1>3. CASE n # m
  <2>1. \A c \in Colors : seat[m][c] # r
    BY <1>1, <1>3, SeatFacts
  <2> QED
    BY <1>1, <1>3, <2>1, SeatTyped DEF Broadcast
<1> QED
  BY <1>2, <1>3

LEMMA SeatsStep ==
  ASSUME "rebind" \notin ClientMay, SeatsInv, [Next]_vars
  PROVE  SeatsInv'
<1> DEFINE Good == SeatsHoldOpenSockets /\ SeatedViewsInSync
<1>1. RoomsInv' /\ AsksInv'
  BY RoomsStep, AsksStep DEF SeatsInv
<1> SUFFICES Good'
  BY <1>1 DEF SeatsInv
<1>2. ASSUME UNCHANGED <<seat, sock, bound, plies, view>> PROVE Good'
  BY <1>2 DEF SeatsInv, SeatsHoldOpenSockets, SeatedViewsInSync, Seated
<1>3. ASSUME NEW s \in Sockets, Open(s) PROVE Good'
  BY <1>3 DEF SeatsInv, AsksInv, TypeOK, Open, SeatsHoldOpenSockets, SeatedViewsInSync,
     Seated, clientVars
<1>4. ASSUME NEW s \in Sockets, MoveMessage(s) PROVE Good'
  <2>1. Room(s) \in Matches /\ plies[Room(s)] + 1 \in 0 .. MaxPlies
    BY <1>4, ServerAssumption DEF SeatsInv, AsksInv, TypeOK, MoveMessage, CanMove
  <2>2. SeatsHoldOpenSockets'
    BY <1>4 DEF SeatsInv, MoveMessage, SeatsHoldOpenSockets, Seated
  <2>3. /\ view' = Broadcast(Room(s), plies[Room(s)] + 1)
        /\ plies' = [plies EXCEPT ![Room(s)] = plies[Room(s)] + 1]
        /\ UNCHANGED seat
    BY <1>4 DEF MoveMessage
  <2>4. ASSUME NEW n \in Matches, NEW d \in Colors, NEW r \in Sockets, seat[n][d] = r
        PROVE  view'[r] = plies'[n]
    BY <2>1, <2>3, <2>4, BroadcastSeats
  <2>5. SeatedViewsInSync'
    BY <2>3, <2>4 DEF SeatedViewsInSync, Seated
  <2> QED
    BY <2>2, <2>5
<1>5. ASSUME NEW s \in Sockets, NEW result \in Results, NEW winner \in Users \cup {None},
             FinalMove(s, result, winner)
      PROVE  Good'
  <2>1. Room(s) \in Matches
    BY <1>5 DEF SeatsInv, AsksInv, TypeOK, FinalMove, CanMove
  <2>2. plies[Room(s)] + 1 \in 0 .. MaxPlies
    BY <1>5, <2>1, ServerAssumption DEF SeatsInv, AsksInv, TypeOK, FinalMove, CanMove
  <2>3. \A m \in Matches, d \in Colors, r \in Sockets : seat'[m][d] = r => seat[m][d] = r
    BY <1>5, <2>1, ServerAssumption
    DEF SeatsInv, AsksInv, TypeOK, FinalMove, EraseRoom, Vacant
  <2>4. /\ plies' = [plies EXCEPT ![Room(s)] = plies[Room(s)] + 1]
        /\ view' = Broadcast(Room(s), plies[Room(s)] + 1)
        /\ UNCHANGED <<sock, bound>>
    BY <1>5 DEF FinalMove
  <2> HIDE <1>5
  <2> SUFFICES ASSUME NEW m \in Matches, NEW d \in Colors, NEW r \in Sockets,
                      seat'[m][d] = r
               PROVE  /\ sock'[r] = "open" /\ bound'[r] # None
                      /\ bound'[r].match = m /\ bound'[r].color = d
                      /\ view'[r] = plies'[m]
    BY SeatsNext
  <2>5. seat[m][d] = r
    BY <2>3
  <2>6. view'[r] = plies'[m]
    BY <2>1, <2>2, <2>4, <2>5, BroadcastSeats
  <2> QED
    BY <2>4, <2>5, <2>6, SeatFacts
<1>6. ASSUME NEW s \in Sockets, Close(s) PROVE Good'
  BY <1>6, CloseSeats DEF Close
<1>7. ASSUME RunDeferred PROVE Good'
  <2> DEFINE r == Head(deferred)
             s == r.sock
  <2>1. r \in Replies /\ r \in InFlight
    BY <1>7, QueueSteps, ElementSteps DEF SeatsInv, AsksInv, TypeOK, RunDeferred, InFlight
  <2>2. s \in Sockets
    BY <2>1, ReplyFields
  <2>3. r.kind # "refused" =>
          /\ r.claim \in Claims /\ r.token \in Tokens \cup {None}
          /\ asked[s] = r.claim
    BY <2>1, ReplyFields DEF SeatsInv, AsksInv, AskedFor
  <2>4. CASE UNCHANGED <<loopVars, clientVars>>
    BY <1>2, <2>4 DEF loopVars, clientVars
  <2>5. CASE CloseHandler(s)
    BY <2>2, <2>5, CloseSeats
  <2>6. CASE sock[s] = "open" /\ r.kind = "joined" /\ DeferredJoin(s, r.claim, r.token)
    <3> HIDE DEF r, s
    <3> QED
      BY <2>2, <2>3, <2>6, SeatingSeats DEF DeferredJoin
  <2>7. CASE /\ sock[s] = "open" /\ r.kind = "resumed" /\ r.claim.match \in live
             /\ DeferredResume(s, r.claim, r.token)
    <3> HIDE DEF r, s
    <3> QED
      BY <2>2, <2>3, <2>7, SeatingSeats DEF DeferredResume
  <2> QED
    BY <1>7, <2>4, <2>5, <2>6, <2>7 DEF RunDeferred, DeferredResume
<1>8. ASSUME Restart PROVE Good'
  BY <1>8, ServerAssumption DEF Restart, Vacant, SeatsHoldOpenSockets, SeatedViewsInSync,
     Seated
<1>9. ASSUME NEW w \in Workers, Take(w) \/ WorkerStep(w) PROVE Good'
  BY <1>2, <1>9 DEF Take, WorkerStep, VerifyMatchTicket, Resolve, Mint, Report, loopVars,
     clientVars
<1>10. ASSUME NEW s \in Sockets, \/ \E c \in Claims : JoinMessage(s, c)
                                 \/ \E t \in Tokens : ResumeMessage(s, t)
       PROVE  Good'
  BY <1>2, <1>10 DEF JoinMessage, ResumeMessage, loopVars
<1>11. ASSUME NEW t \in Tokens, ExpireToken(t) PROVE Good'
  BY <1>2, <1>11 DEF ExpireToken, loopVars, clientVars
<1>12. CASE UNCHANGED vars
  BY <1>2, <1>12 DEF vars, loopVars, clientVars
<1> QED
  BY <1>3, <1>4, <1>5, <1>6, <1>7, <1>8, <1>9, <1>10, <1>11, <1>12 DEF Next

LEMMA SeatsInit == Init => SeatsInv
<1> SUFFICES ASSUME Init PROVE SeatsInv
  OBVIOUS
<1>1. AsksInv
  BY TypeInit DEF Init, AsksInv, InFlight, Elements, AskedFor, Idle
<1>2. SeatsHoldOpenSockets /\ SeatedViewsInSync
  BY ServerAssumption DEF Init, Vacant, SeatsHoldOpenSockets, SeatedViewsInSync, Seated
<1> QED
  BY <1>1, <1>2, RoomsInit DEF SeatsInv

(* As long as no connection asks for a second seat, a seat pointer is      *)
(* never dangling: it holds an open socket bound to that very seat, though *)
(* joins and resumes are answered long after they were asked.              *)
THEOREM SeatsCorrect ==
  ASSUME "rebind" \notin ClientMay
  PROVE  Spec => []SeatsHoldOpenSockets
<1>1. SeatsInv => SeatsHoldOpenSockets
  BY DEF SeatsInv
<1>2. SeatsInv /\ [Next]_vars => SeatsInv'
  BY SeatsStep
<1> QED
  BY <1>1, <1>2, SeatsInit, PTL DEF Spec

(* And then both players look at the same board, the server's, after every *)
(* step of any interleaving of joins, resumes, moves and closes.           *)
THEOREM ViewsCorrect ==
  ASSUME "rebind" \notin ClientMay
  PROVE  Spec => []SeatedViewsInSync
<1>1. SeatsInv => SeatedViewsInSync
  BY DEF SeatsInv
<1>2. SeatsInv /\ [Next]_vars => SeatsInv'
  BY SeatsStep
<1> QED
  BY <1>1, <1>2, SeatsInit, PTL DEF Spec

-----------------------------------------------------------------------------
(* Resumes, whatever the clients do *)

ResumedIn(q) == {i \in DOMAIN q : q[i].kind = "resumed"}

Resuming == {w \in Workers : work[w].kind = "mint" /\ work[w].reply = "resumed"}

Spent == {t \in Tokens : store[t] = "gone"}

(* The inductive invariant: as stated, of finite sets. *)
ResumesInv ==
  /\ TypeOK
  /\ IsFiniteSet(Resuming) /\ IsFiniteSet(Spent)
  /\ ResumesSpendTokens

LEMMA ResumesRead ==
  ResumesSpendTokens <=>
    Cardinality(Resuming) + Cardinality(ResumedIn(deferred)) <= Cardinality(Spent)
BY DEF ResumesSpendTokens, ResumesUnderWay, Resuming, ResumedIn, Spent

(* A queue of closures holds a finite number of resumes. *)
LEMMA ResumedFinite ==
  ASSUME NEW S, NEW q \in Seq(S)
  PROVE  IsFiniteSet(ResumedIn(q)) /\ Cardinality(ResumedIn(q)) \in Nat
<1>1. DOMAIN q = 1 .. Len(q) /\ Len(q) \in Nat
  BY LenProperties
<1>2. IsFiniteSet(1 .. Len(q)) /\ ResumedIn(q) \in SUBSET (1 .. Len(q))
  BY <1>1, FS_Interval DEF ResumedIn
<1>3. IsFiniteSet(ResumedIn(q))
  BY <1>2, FS_Subset
<1> QED
  BY <1>3, FS_CardinalityType

LEMMA ResumedAppended ==
  ASSUME NEW S, NEW q \in Seq(S), NEW e \in S
  PROVE  Cardinality(ResumedIn(Append(q, e))) =
           Cardinality(ResumedIn(q)) + (IF e.kind = "resumed" THEN 1 ELSE 0)
<1>1. DOMAIN q = 1 .. Len(q) /\ Len(q) \in Nat
  BY LenProperties
<1>2. /\ DOMAIN Append(q, e) = 1 .. Len(q) + 1
      /\ \A i \in 1 .. Len(q) : Append(q, e)[i] = q[i]
      /\ Append(q, e)[Len(q) + 1] = e
  BY <1>1, AppendProperties
<1>3. 1 .. Len(q) + 1 = (1 .. Len(q)) \cup {Len(q) + 1} /\ Len(q) + 1 \notin 1 .. Len(q)
  BY <1>1
<1>4. IsFiniteSet(ResumedIn(q)) /\ Cardinality(ResumedIn(q)) \in Nat
  BY ResumedFinite
<1>5. CASE e.kind = "resumed"
  <2>1. ResumedIn(Append(q, e)) = ResumedIn(q) \cup {Len(q) + 1}
    BY <1>1, <1>2, <1>3, <1>5 DEF ResumedIn
  <2>2. Len(q) + 1 \notin ResumedIn(q)
    BY <1>1, <1>3 DEF ResumedIn
  <2> QED
    BY <1>4, <1>5, <2>1, <2>2, FS_AddElement
<1>6. CASE e.kind # "resumed"
  <2>1. ResumedIn(Append(q, e)) = ResumedIn(q)
    BY <1>1, <1>2, <1>3, <1>6 DEF ResumedIn
  <2> QED
    BY <1>4, <1>6, <2>1
<1> QED
  BY <1>5, <1>6

(* What is left of a queue is shifted, and holds no more resumes. *)
LEMMA ResumedPopped ==
  ASSUME NEW S, NEW q \in Seq(S), q # << >>
  PROVE  Cardinality(ResumedIn(Tail(q))) <= Cardinality(ResumedIn(q))
<1>1. DOMAIN q = 1 .. Len(q) /\ Len(q) \in Nat
  BY LenProperties
<1>2. /\ DOMAIN Tail(q) = 1 .. Len(q) - 1
      /\ \A i \in 1 .. Len(q) - 1 : Tail(q)[i] = q[i + 1]
  BY <1>1, HeadTailProperties
<1> DEFINE f == [i \in ResumedIn(Tail(q)) |-> i + 1]
<1>3. \A i \in ResumedIn(Tail(q)) : i \in Nat /\ i + 1 \in ResumedIn(q)
  BY <1>1, <1>2 DEF ResumedIn
<1>4. f \in Injection(ResumedIn(Tail(q)), ResumedIn(q))
  <2>1. f \in [ResumedIn(Tail(q)) -> ResumedIn(q)]
    BY <1>3
  <2>2. \A i, j \in ResumedIn(Tail(q)) : f[i] = f[j] => i = j
    BY <1>3
  <2> QED
    BY <2>1, <2>2 DEF Injection, IsInjective
<1> QED
  BY <1>4, ResumedFinite, FS_Injection

LEMMA ResumesInit == Init => ResumesInv
<1> SUFFICES ASSUME Init PROVE ResumesInv
  OBVIOUS
<1>1. Resuming = {} /\ ResumedIn(deferred) = {} /\ Spent = {}
  BY DEF Init, ControlInit, Resuming, ResumedIn, Spent, Idle
<1> QED
  BY <1>1, TypeInit, FS_EmptySet, ResumesRead DEF ResumesInv

(* What is counted, before and after a step. *)
LEMMA ResumesNext ==
  ASSUME ResumesInv, TypeOK',
         IsFiniteSet(Resuming'), IsFiniteSet(Spent'),
         Cardinality(Resuming') + Cardinality(ResumedIn(deferred'))
           <= Cardinality(Spent')
  PROVE  ResumesInv'
BY DEF ResumesInv, ResumesSpendTokens, ResumesUnderWay, Resuming, ResumedIn, Spent

LEMMA ResumesCounts ==
  ASSUME ResumesInv
  PROVE  /\ IsFiniteSet(Resuming) /\ IsFiniteSet(Spent) /\ IsFiniteSet(ResumedIn(deferred))
         /\ Cardinality(Resuming) \in Nat /\ Cardinality(Spent) \in Nat
         /\ Cardinality(ResumedIn(deferred)) \in Nat
         /\ Cardinality(Resuming) + Cardinality(ResumedIn(deferred)) <= Cardinality(Spent)
<1>1. deferred \in Seq(Replies)
  BY DEF ResumesInv, TypeOK
<1> QED
  BY <1>1, ResumedFinite, FS_CardinalityType, ResumesRead DEF ResumesInv

(* No resume more, and no spent token less. *)
LEMMA ResumesFewer ==
  ASSUME ResumesInv, TypeOK', Resuming' = Resuming, Spent' = Spent,
         Cardinality(ResumedIn(deferred')) <= Cardinality(ResumedIn(deferred))
  PROVE  ResumesInv'
<1>1. Cardinality(ResumedIn(deferred')) \in Nat
  BY ResumedFinite DEF TypeOK
<1> QED
  BY <1>1, ResumesCounts, ResumesNext

LEMMA ResumesRefused ==
  ASSUME ResumesInv, NEW w \in Workers, work[w].sock \in Sockets,
         work[w].kind # "mint", Refuse(w)
  PROVE  /\ Resuming' = Resuming
         /\ Cardinality(ResumedIn(deferred')) = Cardinality(ResumedIn(deferred))
<1> DEFINE x == [kind |-> "refused", sock |-> work[w].sock]
<1>1. TypeOK /\ x \in Replies /\ x.kind # "resumed"
  BY DEF ResumesInv, Replies
<1>2. deferred' = Append(deferred, x) /\ work' = [work EXCEPT ![w] = Idle]
  BY DEF Refuse, Defer
<1> HIDE DEF x
<1>3. Cardinality(ResumedIn(deferred')) = Cardinality(ResumedIn(deferred)) + 0
  BY <1>1, <1>2, ResumedAppended DEF TypeOK
<1>4. Resuming' = Resuming
  BY <1>1, <1>2 DEF TypeOK, Resuming, Idle
<1> QED
  BY <1>3, <1>4, ResumesCounts

(* A resume begins to count when it redeems a token, which was not spent.  *)
LEMMA ResumesResolved ==
  ASSUME ResumesInv, TypeOK', NEW w \in Workers, Resolve(w)
  PROVE  ResumesInv'
<1> DEFINE t == work[w].token
<1>1. /\ TypeOK /\ work[w].kind = "resume" /\ work[w].sock \in Sockets /\ t \in Tokens
      /\ UNCHANGED jobs
  BY WorkFields DEF ResumesInv, TypeOK, Resolve
<1>2. CASE Refuse(w) /\ UNCHANGED controlVars
  <2>1. Spent' = Spent
    BY <1>2 DEF Spent, controlVars
  <2> QED
    BY <1>1, <1>2, <2>1, ResumesCounts, ResumesRefused, ResumesFewer
<1>3. CASE Redeemable(t) /\ ResolveResumeToken(t) /\ (Accept(w, grant[t], "resumed") \/ Refuse(w))
  <2>1. t \notin Spent /\ Spent' = Spent \cup {t}
    BY <1>1, <1>3 DEF Redeemable, ResolveResumeToken, Spent, TypeOK, ControlTypeOK
  <2>2. IsFiniteSet(Spent') /\ Cardinality(Spent') = Cardinality(Spent) + 1
    BY <2>1, ResumesCounts, FS_AddElement
  <2>3. CASE Refuse(w)
    BY <1>1, <2>2, <2>3, ResumesCounts, ResumesRefused, ResumesNext
  <2>4. CASE Accept(w, grant[t], "resumed")
    <3>1. w \notin Resuming
      BY <1>1 DEF Resuming
    <3>2. Resuming' = Resuming \cup {w} /\ deferred' = deferred
      BY <1>1, <2>4 DEF Accept, Resuming, TypeOK
    <3>3. IsFiniteSet(Resuming') /\ Cardinality(Resuming') = Cardinality(Resuming) + 1
      BY <3>1, <3>2, ResumesCounts, FS_AddElement
    <3>4. Cardinality(ResumedIn(deferred')) = Cardinality(ResumedIn(deferred))
      BY <3>2
    <3> QED
      BY <2>2, <3>3, <3>4, ResumesCounts, ResumesNext
  <2> QED
    BY <1>3, <2>3, <2>4
<1> QED
  BY <1>2, <1>3 DEF Resolve

(* Its answer is handed from the worker to the loop, and counted once. *)
LEMMA ResumesMinted ==
  ASSUME ResumesInv, TypeOK', NEW w \in Workers, NEW t \in Tokens \cup {None}, Mint(w, t)
  PROVE  ResumesInv'
<1> DEFINE x == [kind |-> work[w].reply, sock |-> work[w].sock,
                  claim |-> work[w].claim, token |-> t]
<1>1. /\ TypeOK /\ work[w].kind = "mint"
      /\ work[w].reply \in {"joined", "resumed"}
      /\ work[w].sock \in Sockets /\ work[w].claim \in Claims
  BY WorkFields DEF ResumesInv, TypeOK, Mint
<1>2. x \in Replies /\ x.kind = work[w].reply
  BY <1>1 DEF Replies
<1>3. deferred' = Append(deferred, x) /\ work' = [work EXCEPT ![w] = Idle]
  BY DEF Mint, Defer
<1>4. Spent' = Spent
  <2>1. CASE t = None
    BY <2>1 DEF Mint, Spent, controlVars
  <2>2. CASE t # None
    <3>1. t \in Tokens /\ store[t] = "unissued" /\ store' = [store EXCEPT ![t] = "live"]
      BY <2>2 DEF Mint, CreateResumeToken
    <3>2. store \in [Tokens -> {"unissued", "live", "gone"}]
      BY <1>1 DEF TypeOK, ControlTypeOK
    <3>3. store'[t] # "gone" /\ store[t] # "gone" /\ \A u \in Tokens \ {t} : store'[u] = store[u]
      BY <3>1, <3>2
    <3> QED
      BY <3>3 DEF Spent
  <2> QED
    BY <2>1, <2>2
<1> HIDE DEF x
<1>5. Cardinality(ResumedIn(deferred')) =
        Cardinality(ResumedIn(deferred)) + (IF x.kind = "resumed" THEN 1 ELSE 0)
  BY <1>1, <1>2, <1>3, ResumedAppended DEF TypeOK
<1>6. Resuming' = Resuming \ {w}
  BY <1>1, <1>3 DEF TypeOK, Resuming, Idle
<1>7. w \in Resuming <=> x.kind = "resumed"
  BY <1>1, <1>2 DEF Resuming
<1>8. /\ IsFiniteSet(Resuming')
      /\ Cardinality(Resuming') =
           IF w \in Resuming THEN Cardinality(Resuming) - 1 ELSE Cardinality(Resuming)
  BY <1>6, ResumesCounts, FS_RemoveElement
<1>9. Cardinality(Resuming') + Cardinality(ResumedIn(deferred')) =
        Cardinality(Resuming) + Cardinality(ResumedIn(deferred))
  BY <1>5, <1>7, <1>8, ResumesCounts
<1> QED
  BY <1>4, <1>8, <1>9, ResumesCounts, ResumesNext

LEMMA ResumesStep == ResumesInv /\ [Next]_vars => ResumesInv'
<1> SUFFICES ASSUME ResumesInv, [Next]_vars PROVE ResumesInv'
  OBVIOUS
<1> USE DEF poolVars, controlVars
<1>1. TypeOK /\ TypeOK'
  BY TypeStep DEF ResumesInv
<1>2. ASSUME UNCHANGED <<work, deferred, store>> PROVE ResumesInv'
  <2>1. Resuming' = Resuming /\ Spent' = Spent /\ deferred' = deferred
    BY <1>2 DEF Resuming, Spent
  <2> QED
    BY <1>1, <2>1, ResumesCounts, ResumesFewer
<1>3. ASSUME NEW s \in Sockets, \/ Open(s) \/ MoveMessage(s) \/ Close(s)
                                \/ \E c \in Claims : JoinMessage(s, c)
                                \/ \E t \in Tokens : ResumeMessage(s, t)
                                \/ \E result \in Results, winner \in Users \cup {None} :
                                     FinalMove(s, result, winner)
      PROVE  ResumesInv'
  BY <1>2, <1>3 DEF Open, MoveMessage, Close, JoinMessage, ResumeMessage, FinalMove
<1>4. ASSUME NEW w \in Workers, Take(w) PROVE ResumesInv'
  <2>1. Head(jobs) \in Jobs /\ work' = [work EXCEPT ![w] = Head(jobs)] /\ work[w] = Idle
        /\ deferred' = deferred /\ Spent' = Spent
    BY <1>1, <1>4, QueueSteps DEF TypeOK, Take, Spent
  <2>2. Head(jobs).kind # "mint"
    BY <2>1 DEF Jobs
  <2>3. Resuming' = Resuming
    BY <1>1, <2>1, <2>2 DEF TypeOK, Resuming, Idle
  <2> QED
    BY <1>1, <2>1, <2>3, ResumesCounts, ResumesFewer
<1>5. ASSUME NEW w \in Workers, VerifyMatchTicket(w) PROVE ResumesInv'
  <2>1. work[w].kind = "join" /\ work[w].sock \in Sockets /\ Spent' = Spent
    BY <1>1, <1>5, WorkFields DEF TypeOK, VerifyMatchTicket, Spent
  <2>2. CASE Refuse(w)
    BY <1>1, <2>1, <2>2, ResumesCounts, ResumesRefused, ResumesFewer
  <2>3. CASE Accept(w, work[w].claim, "joined")
    <3>1. Resuming' = Resuming /\ deferred' = deferred
      BY <1>1, <2>1, <2>3 DEF TypeOK, Accept, Resuming
    <3> QED
      BY <1>1, <2>1, <3>1, ResumesCounts, ResumesFewer
  <2> QED
    BY <1>5, <2>2, <2>3 DEF VerifyMatchTicket
<1>6. ASSUME NEW w \in Workers, Report(w) PROVE ResumesInv'
  <2>1. /\ work[w].kind = "report" /\ work' = [work EXCEPT ![w] = Idle]
        /\ deferred' = deferred /\ store' = store
    BY <1>6 DEF Report, ReportGameEnd
  <2>2. Resuming' = Resuming /\ Spent' = Spent
    BY <1>1, <2>1 DEF TypeOK, Resuming, Spent, Idle
  <2> QED
    BY <1>1, <2>1, <2>2, ResumesCounts, ResumesFewer
<1>7. ASSUME RunDeferred PROVE ResumesInv'
  <2>1. deferred # << >> /\ deferred' = Tail(deferred) /\ work' = work /\ store' = store
    BY <1>7 DEF RunDeferred
  <2>2. Resuming' = Resuming /\ Spent' = Spent
    BY <2>1 DEF Resuming, Spent
  <2>3. Cardinality(ResumedIn(deferred')) <= Cardinality(ResumedIn(deferred))
    BY <1>1, <2>1, ResumedPopped DEF TypeOK
  <2> QED
    BY <1>1, <2>2, <2>3, ResumesFewer
<1>8. ASSUME Restart PROVE ResumesInv'
  <2>1. Resuming' = {} /\ ResumedIn(deferred') = {} /\ Spent' = Spent
    BY <1>8 DEF Restart, Resuming, ResumedIn, Spent, Idle
  <2> QED
    BY <1>1, <2>1, ResumesCounts, ResumesNext, FS_EmptySet
<1>9. ASSUME NEW t \in Tokens, ExpireToken(t) PROVE ResumesInv'
  <2>1. Spent' = Spent \cup {t} /\ work' = work /\ deferred' = deferred
    BY <1>1, <1>9 DEF ExpireToken, ExpireResumeToken, Spent, TypeOK, ControlTypeOK
  <2>2. Resuming' = Resuming
    BY <2>1 DEF Resuming
  <2>3. IsFiniteSet(Spent') /\ Cardinality(Spent') >= Cardinality(Spent)
        /\ Cardinality(Spent') \in Nat
    <3>1. IsFiniteSet(Spent) /\ Cardinality(Spent) \in Nat
      BY ResumesCounts
    <3>2. t \notin Spent
      BY <1>9 DEF ExpireToken, ExpireResumeToken, Spent
    <3>3. IsFiniteSet(Spent \cup {t}) /\ Cardinality(Spent \cup {t}) = Cardinality(Spent) + 1
      BY <3>1, <3>2, FS_AddElement
    <3> QED
      BY <2>1, <3>1, <3>3
  <2>4. Cardinality(ResumedIn(deferred')) = Cardinality(ResumedIn(deferred))
    BY <2>1
  <2> QED
    BY <1>1, <2>2, <2>3, <2>4, ResumesCounts, ResumesNext
<1>10. CASE UNCHANGED vars
  BY <1>2, <1>10 DEF vars
<1> QED
  BY <1>1, <1>3, <1>4, <1>5, <1>6, <1>7, <1>8, <1>9, <1>10, ResumesResolved, ResumesMinted
  DEF Next, WorkerStep

(* A resume token works once, whatever clients present it on however many  *)
(* connections, and however many workers redeem at once: every resume that *)
(* is on its way to a seat has spent a token of its own (GETDEL).          *)
THEOREM ResumesCorrect == Spec => []ResumesSpendTokens
<1>1. ResumesInv => ResumesSpendTokens
  BY DEF ResumesInv
<1> QED
  BY <1>1, ResumesInit, ResumesStep, PTL DEF Spec
=============================================================================
