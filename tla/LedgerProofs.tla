---------------------------- MODULE LedgerProofs ----------------------------
(***************************************************************************)
(* Theorems about GameServer under assumptions about its clients, each     *)
(* stated with the theorem: the server enforces none of them.              *)
(*                                                                         *)
(* OneTicketEach: tickets are shown once.  Then a match has one result,    *)
(* however clients reconnect, overlap or ask again on a connection.        *)
(* FairPlay: besides, a client asks once on a connection, and reconnects   *)
(* only after the server closed the old one.  Then rooms, announcements    *)
(* and rows keep the MatchLedger.                                          *)
(*                                                                         *)
(* They hold for any sockets, workers, matches, users and tokens, through  *)
(* crashes, failed calls, expiries, and every order of joins, resumes,     *)
(* moves and closes.                                                       *)
(*                                                                         *)
(* The argument: a ticket is on its way once, or its player has arrived;   *)
(* a game cannot end before both players have arrived; so nothing is under *)
(* way any more that would build the room of a finished match again.       *)
(***************************************************************************)
EXTENDS GameServerProofs

(* create_match pairs two different users and signs a ticket for each.     *)
HonestTickets ==
  /\ \A c \in Claims : c.user = Pairing[c.match][c.color]
  /\ \A m \in Matches : Pairing[m]["white"] # Pairing[m]["black"]

OneTicketEach == "reuse" \notin ClientMay /\ HonestTickets

FairPlay == ClientMay = {} /\ HonestTickets

(* So a seat has one ticket. *)
LEMMA OneTicketPerSeat ==
  ASSUME HonestTickets, NEW c \in Claims, NEW d \in Claims,
         c.match = d.match, c.color = d.color
  PROVE  c = d
<1>1. c \in Seating /\ d \in Seating
  BY ControlAssumption
<1>2. c.user = d.user
  BY DEF HonestTickets
<1> QED
  BY <1>1, <1>2 DEF Seating

-----------------------------------------------------------------------------
(* What is on its way: joins of a ticket and reports of a match *)

IsJoin(x) ==
  x.kind \in {"join", "joined"} \/ (x.kind = "mint" /\ x.reply = "joined")

IsResumed(x) ==
  x.kind = "resumed" \/ (x.kind = "mint" /\ x.reply = "resumed")

Same(x, y) ==
  \/ x.kind = "report" /\ y.kind = "report" /\ x.match = y.match
  \/ IsJoin(x) /\ IsJoin(y) /\ x.claim = y.claim

(* A ticket, and the result of a match, are in one place at most. *)
OnceIn(q) == \A i, j \in DOMAIN q : Same(q[i], q[j]) => i = j

FlightOnce ==
  /\ OnceIn(jobs) /\ OnceIn(deferred)
  /\ \A v, w \in Workers : Same(work[v], work[w]) => v = w
  /\ \A x \in Elements(jobs), w \in Workers : ~Same(x, work[w])
  /\ \A x \in Elements(jobs), y \in Elements(deferred) : ~Same(x, y)
  /\ \A w \in Workers, y \in Elements(deferred) : ~Same(work[w], y)

LEMMA SameSymmetric ==
  ASSUME NEW x, NEW y, Same(x, y)
  PROVE  Same(y, x)
BY DEF Same

LEMMA OnceSteps ==
  ASSUME NEW S, NEW q \in Seq(S), OnceIn(q)
  PROVE  /\ \A e \in S : (\A y \in Elements(q) : ~Same(e, y)) => OnceIn(Append(q, e))
         /\ q # << >> => /\ OnceIn(Tail(q))
                         /\ \A y \in Elements(Tail(q)) : ~Same(Head(q), y)
<1>1. DOMAIN q = 1 .. Len(q) /\ Len(q) \in Nat
  BY LenProperties
<1>2. ASSUME NEW e \in S, \A y \in Elements(q) : ~Same(e, y)
      PROVE  OnceIn(Append(q, e))
  <2>1. /\ DOMAIN Append(q, e) = 1 .. Len(q) + 1
        /\ \A i \in 1 .. Len(q) : Append(q, e)[i] = q[i]
        /\ Append(q, e)[Len(q) + 1] = e
    BY AppendProperties, <1>1
  <2>2. \A i \in 1 .. Len(q) : ~Same(e, q[i]) /\ ~Same(q[i], e)
    BY <1>1, <1>2, SameSymmetric DEF Elements
  <2>3. ASSUME NEW i \in 1 .. Len(q) + 1, NEW j \in 1 .. Len(q) + 1,
               Same(Append(q, e)[i], Append(q, e)[j])
        PROVE  i = j
    <3>1. CASE i \in 1 .. Len(q) /\ j \in 1 .. Len(q)
      BY <1>1, <2>1, <2>3, <3>1 DEF OnceIn
    <3>2. CASE i = Len(q) + 1 /\ j \in 1 .. Len(q)
      BY <2>1, <2>2, <2>3, <3>2
    <3>3. CASE i \in 1 .. Len(q) /\ j = Len(q) + 1
      BY <2>1, <2>2, <2>3, <3>3
    <3> QED
      BY <1>1, <3>1, <3>2, <3>3
  <2> QED
    BY <2>1, <2>3 DEF OnceIn
<1>3. ASSUME q # << >>
      PROVE  OnceIn(Tail(q)) /\ \A y \in Elements(Tail(q)) : ~Same(Head(q), y)
  <2>1. /\ DOMAIN Tail(q) = 1 .. Len(q) - 1
        /\ \A i \in 1 .. Len(q) - 1 : Tail(q)[i] = q[i + 1]
        /\ Head(q) = q[1] /\ 1 \in 1 .. Len(q)
    BY <1>1, <1>3, HeadTailProperties
  <2>2. \A i \in 1 .. Len(q) - 1 : i + 1 \in 1 .. Len(q) /\ i + 1 # 1
    BY <1>1
  <2>3. OnceIn(Tail(q))
    <3>1. ASSUME NEW i \in 1 .. Len(q) - 1, NEW j \in 1 .. Len(q) - 1,
                 Same(Tail(q)[i], Tail(q)[j])
          PROVE  i = j
      <4>1. i + 1 = j + 1
        BY <1>1, <2>1, <2>2, <3>1 DEF OnceIn
      <4> QED
        BY <1>1, <4>1
    <3> QED
      BY <2>1, <3>1 DEF OnceIn
  <2>4. ASSUME NEW i \in 1 .. Len(q) - 1
        PROVE  ~Same(Head(q), Tail(q)[i])
    BY <1>1, <2>1, <2>2 DEF OnceIn
  <2> QED
    BY <2>1, <2>3, <2>4 DEF Elements
<1> QED
  BY <1>2, <1>3

(* A job that is not yet on its way is put on its way. *)
LEMMA OnceQueued ==
  ASSUME TypeOK, FlightOnce, NEW x \in Jobs, \A y \in InFlight : ~Same(x, y),
         jobs' = Append(jobs, x), UNCHANGED <<work, deferred>>
  PROVE  FlightOnce'
<1>1. jobs \in Seq(Jobs)
  BY DEF TypeOK
<1>2. /\ \A y \in Elements(jobs) : ~Same(x, y)
      /\ \A w \in Workers : ~Same(x, work[w])
      /\ \A y \in Elements(deferred) : ~Same(x, y)
  BY DEF InFlight
<1>3. OnceIn(jobs')
  BY <1>1, <1>2, OnceSteps DEF FlightOnce
<1>4. Elements(jobs') = Elements(jobs) \cup {x}
  BY <1>1, ElementSteps
<1>5. work' = work /\ deferred' = deferred
  OBVIOUS
<1> QED
  BY <1>2, <1>3, <1>4, <1>5 DEF FlightOnce, OnceIn, Elements

(* A worker takes the first job. *)
LEMMA OnceTaken ==
  ASSUME TypeOK, FlightOnce, NEW w \in Workers, Take(w)
  PROVE  FlightOnce'
<1>1. /\ jobs \in Seq(Jobs) /\ jobs # << >> /\ work[w] = Idle
      /\ jobs' = Tail(jobs) /\ deferred' = deferred
      /\ work' = [work EXCEPT ![w] = Head(jobs)]
  BY DEF TypeOK, Take
<1>2. OnceIn(jobs') /\ \A y \in Elements(jobs') : ~Same(Head(jobs), y) /\ ~Same(y, Head(jobs))
  BY <1>1, OnceSteps, SameSymmetric DEF FlightOnce
<1>3. Head(jobs) \in Elements(jobs) /\ Elements(jobs') \subseteq Elements(jobs)
  BY <1>1, ElementSteps
<1>4. work'[w] = Head(jobs) /\ \A v \in Workers \ {w} : work'[v] = work[v]
  BY <1>1 DEF TypeOK
<1>5. \A v \in Workers : ~Same(Head(jobs), work[v]) /\ ~Same(work[v], Head(jobs))
  BY <1>3, SameSymmetric DEF FlightOnce
<1>6. \A y \in Elements(deferred) : ~Same(Head(jobs), y)
  BY <1>3 DEF FlightOnce
<1>7. \A u, v \in Workers : Same(work'[u], work'[v]) => u = v
  BY <1>4, <1>5 DEF FlightOnce
<1>8. \A x \in Elements(jobs'), v \in Workers : ~Same(x, work'[v])
  BY <1>2, <1>3, <1>4 DEF FlightOnce
<1>9. /\ Elements(deferred') = Elements(deferred) /\ OnceIn(deferred')
      /\ \A x \in Elements(jobs'), y \in Elements(deferred') : ~Same(x, y)
      /\ \A v \in Workers, y \in Elements(deferred') : ~Same(work'[v], y)
  BY <1>1, <1>3, <1>4, <1>6 DEF FlightOnce
<1> QED
  BY <1>2, <1>7, <1>8, <1>9 DEF FlightOnce

(* What a worker holds next is what it held, or nothing that is counted.   *)
LEMMA OnceWorked ==
  ASSUME TypeOK, FlightOnce, NEW w \in Workers, NEW x, work' = [work EXCEPT ![w] = x],
         \A y : Same(x, y) => Same(work[w], y),
         UNCHANGED <<jobs, deferred>>
  PROVE  FlightOnce'
<1>1. work'[w] = x /\ \A v \in Workers \ {w} : work'[v] = work[v]
  BY DEF TypeOK
<1>2. \A v \in Workers : \A y : Same(work'[v], y) => Same(work[v], y)
  BY <1>1
<1>3. \A v \in Workers : \A y : Same(y, work'[v]) => Same(y, work[v])
  BY <1>2, SameSymmetric
<1>4. \A u, v \in Workers : Same(work'[u], work'[v]) => u = v
  <2> SUFFICES ASSUME NEW u \in Workers, NEW v \in Workers, Same(work'[u], work'[v])
               PROVE  u = v
    OBVIOUS
  <2>1. Same(work[u], work'[v])
    BY <1>2
  <2>2. Same(work[u], work[v])
    BY <1>3, <2>1
  <2> QED
    BY <2>2 DEF FlightOnce
<1>5. jobs' = jobs /\ deferred' = deferred
  OBVIOUS
<1> QED
  BY <1>2, <1>3, <1>4, <1>5 DEF FlightOnce, OnceIn, Elements

(* Or it hands what it held to the loop. *)
LEMMA OnceHanded ==
  ASSUME TypeOK, FlightOnce, NEW w \in Workers, NEW x \in Replies,
         \A y : Same(x, y) => Same(work[w], y),
         work' = [work EXCEPT ![w] = Idle], deferred' = Append(deferred, x),
         UNCHANGED jobs
  PROVE  FlightOnce'
<1>1. deferred \in Seq(Replies)
  BY DEF TypeOK
<1>2. work'[w] = Idle /\ \A v \in Workers \ {w} : work'[v] = work[v]
  BY DEF TypeOK
<1>3. \A y : ~Same(Idle, y) /\ ~Same(y, Idle)
  BY DEF Same, Idle, IsJoin
<1>4. \A y \in Elements(deferred) : ~Same(x, y)
  BY DEF FlightOnce
<1>5. OnceIn(deferred')
  BY <1>1, <1>4, OnceSteps DEF FlightOnce
<1>6. Elements(deferred') = Elements(deferred) \cup {x}
  BY <1>1, ElementSteps
<1>7. \A v \in Workers \ {w} : ~Same(work[v], x)
  BY SameSymmetric DEF FlightOnce
<1>8. \A y \in Elements(jobs) : ~Same(y, x)
  BY SameSymmetric DEF FlightOnce
<1>9. jobs' = jobs
  OBVIOUS
<1>10. \A u, v \in Workers : Same(work'[u], work'[v]) => u = v
  BY <1>2, <1>3 DEF FlightOnce
<1>11. \A y \in Elements(jobs), v \in Workers : ~Same(y, work'[v])
  BY <1>2, <1>3 DEF FlightOnce
<1>12. \A v \in Workers, y \in Elements(deferred') : ~Same(work'[v], y)
  BY <1>2, <1>3, <1>6, <1>7 DEF FlightOnce
<1>13. \A z \in Elements(jobs), y \in Elements(deferred') : ~Same(z, y)
  BY <1>6, <1>8 DEF FlightOnce
<1> QED
  BY <1>5, <1>9, <1>10, <1>11, <1>12, <1>13 DEF FlightOnce, OnceIn, Elements

(* The loop runs the first closure: its like is nowhere any more. *)
LEMMA OnceRun ==
  ASSUME TypeOK, FlightOnce, deferred # << >>, deferred' = Tail(deferred),
         UNCHANGED <<jobs, work>>
  PROVE  /\ FlightOnce'
         /\ InFlight' \subseteq InFlight
         /\ \A y \in InFlight' : ~Same(Head(deferred), y)
<1>1. deferred \in Seq(Replies)
  BY DEF TypeOK
<1>2. OnceIn(deferred') /\ \A y \in Elements(deferred') : ~Same(Head(deferred), y)
  BY <1>1, OnceSteps DEF FlightOnce
<1>3. Head(deferred) \in Elements(deferred) /\ Elements(deferred') \subseteq Elements(deferred)
  BY <1>1, ElementSteps
<1>4. jobs' = jobs /\ work' = work
  OBVIOUS
<1>5. Elements(jobs') = Elements(jobs) /\ OnceIn(jobs')
  BY <1>4 DEF FlightOnce, OnceIn, Elements
<1>6. InFlight' = Elements(jobs) \cup {work[w] : w \in Workers} \cup Elements(deferred')
  BY <1>4, <1>5 DEF InFlight
<1>7. FlightOnce'
  BY <1>2, <1>3, <1>4, <1>5 DEF FlightOnce
<1>8. \A y \in Elements(jobs) \cup {work[w] : w \in Workers} : ~Same(Head(deferred), y)
  BY <1>3, SameSymmetric DEF FlightOnce
<1> QED
  BY <1>2, <1>3, <1>6, <1>7, <1>8 DEF InFlight

-----------------------------------------------------------------------------
(* The inductive invariant *)

(* The join of a ticket was answered or lost: it will not come again. *)
Arrived(c) == c \in used /\ \A x \in InFlight : IsJoin(x) => x.claim # c

Restores(t, c) == store[t] # "unissued" /\ grant[t] = c
RestoresNext(t, c) == store'[t] # "unissued" /\ grant'[t] = c

(* What is on its way is for a ticket shown or, if a resume, arrived. *)
Honest(x) ==
  /\ IsJoin(x) => x.claim \in used
  /\ x.kind = "resume" => store[x.token] # "unissued" /\ Arrived(grant[x.token])
  /\ IsResumed(x) => Arrived(x.claim)
  /\ x.kind \in {"joined", "resumed"} /\ x.token # None => Restores(x.token, x.claim)

FlightHonest == \A x \in InFlight : Honest(x)

(* Whoever is seated, or can resume, has arrived; so have both players of  *)
(* a match that was decided, which has no room any more.                   *)
PlayersArrive ==
  /\ \A s \in Sockets : bound[s] # None => Arrived(bound[s])
  /\ \A t \in known : store[t] # "unissued" /\ Arrived(grant[t])

GamesArrive ==
  /\ \A m \in live, c \in Claims : c.match = m =>
       /\ plies[m] > 0 /\ c.color = "white" => Arrived(c)
       /\ plies[m] > 1 /\ c.color = "black" => Arrived(c)
  /\ \A m \in Matches : announced[m] # << >> =>
       m \notin live /\ \A c \in Claims : c.match = m => Arrived(c)

(* The report of a match is the only one, and comes after its end. *)
ReportsOnce ==
  \A x \in InFlight : x.kind = "report" => rows[x.match] = << >> /\ announced[x.match] # << >>

DecidedOnce ==
  /\ OneResultPerMatch
  /\ \A m \in Matches : rows[m] # << >> \/ status[m] = "completed" => announced[m] # << >>

(* What holds of a match as long as its tickets are shown once *)
PlayInv ==
  /\ TypeOK
  /\ FlightOnce
  /\ FlightHonest
  /\ PlayersArrive
  /\ GamesArrive
  /\ ReportsOnce
  /\ DecidedOnce

(* A seat is asked for over one open connection. *)
OneConnection ==
  /\ \A s \in Sockets : sock[s] = "new" => asked[s] = None
  /\ \A r, s \in Sockets :
       sock[r] = "open" /\ sock[s] = "open" /\ asked[r] = asked[s] /\ asked[r] # None
         => r = s

BoundToRooms ==
  \A s \in Sockets : bound[s] # None => Room(s) \in live \/ announced[Room(s)] # << >>

(* A report says what was announced, and so does a row. *)
ReportsTrue ==
  \A x \in InFlight : x.kind = "report" =>
    announced[x.match] = <<ResultOf(x.match, x.winner)>>

Ledgers == \A m \in Matches : rows[m] = << >> \/ rows[m] = announced[m]

LedgerInv ==
  /\ PlayInv
  /\ SeatsInv
  /\ OneConnection
  /\ BoundSocketsAreSeated
  /\ BoundToRooms
  /\ ReportsTrue
  /\ Ledgers

LEMMA LedgerTypes ==
  ASSUME LedgerInv
  PROVE  PlayInv /\ TypeOK /\ GamesArrive /\ AsksInv /\ RoomsInv
BY DEF LedgerInv, PlayInv, SeatsInv, AsksInv

LEMMA PlayInit == Init => PlayInv
<1> SUFFICES ASSUME Init PROVE PlayInv
  OBVIOUS
<1>1. TypeOK
  BY TypeInit
<1>2. Elements(jobs) = {} /\ Elements(deferred) = {} /\ \A w \in Workers : work[w] = Idle
  BY DEF Init, Elements
<1>3. \A x \in InFlight : x = Idle
  BY <1>2 DEF InFlight
<1>4. FlightOnce
  BY <1>2 DEF Init, FlightOnce, OnceIn, Same, Idle, IsJoin
<1>5. FlightHonest /\ ReportsOnce
  BY <1>3 DEF FlightHonest, Honest, ReportsOnce, Idle, IsJoin, IsResumed
<1>6. PlayersArrive /\ GamesArrive
  BY DEF Init, PlayersArrive, GamesArrive
<1>7. DecidedOnce
  BY DEF Init, ControlInit, DecidedOnce, OneResultPerMatch
<1> QED
  BY <1>1, <1>4, <1>5, <1>6, <1>7 DEF PlayInv

LEMMA LedgerInit == Init => LedgerInv
<1> SUFFICES ASSUME Init PROVE LedgerInv
  OBVIOUS
<1>1. Elements(jobs) = {} /\ Elements(deferred) = {} /\ \A w \in Workers : work[w] = Idle
  BY DEF Init, Elements
<1>2. ReportsTrue
  BY <1>1 DEF InFlight, ReportsTrue, Idle
<1>3. OneConnection /\ BoundSocketsAreSeated /\ BoundToRooms
  BY DEF Init, OneConnection, BoundSocketsAreSeated, BoundToRooms
<1>4. Ledgers
  BY DEF Init, ControlInit, Ledgers
<1> QED
  BY <1>2, <1>3, <1>4, PlayInit, SeatsInit DEF LedgerInv

-----------------------------------------------------------------------------
(* Where what is on its way comes from *)

Origin(x) ==
  \/ x.kind \in {"idle", "refused"}
  \/ x.kind = "report" /\ announced' # announced
  \/ x.kind = "join" /\ x.claim \notin used /\ x.claim \in used'
  \/ x.kind = "resume" /\ x.token \in known
  \/ /\ x.kind \in {"mint", "joined", "resumed"}
     /\ \E y \in InFlight : \/ IsJoin(x) /\ IsJoin(y) /\ y.claim = x.claim
                            \/ IsResumed(x) /\ IsResumed(y) /\ y.claim = x.claim
                            \/ IsResumed(x) /\ y.kind = "resume" /\ grant[y.token] = x.claim
     /\ x.kind # "mint" /\ x.token # None => RestoresNext(x.token, x.claim)

(* One thing at most is new in flight, and it has an origin. *)
Grows == \E x : Origin(x) /\ InFlight' \subseteq InFlight \cup {Idle, x}

LEMMA NothingNew ==
  ASSUME InFlight' \subseteq InFlight \cup {Idle}
  PROVE  Grows
<1>1. Origin(Idle) /\ InFlight' \subseteq InFlight \cup {Idle, Idle}
  BY DEF Origin, Idle
<1> QED
  BY <1>1 DEF Grows

LEMMA AskFlight ==
  ASSUME OneTicketEach, PlayInv, NEW s \in Sockets,
         \/ \E c \in Claims : JoinMessage(s, c)
         \/ \E t \in Tokens : ResumeMessage(s, t)
  PROVE  FlightOnce' /\ Grows
<1>1. TypeOK /\ FlightOnce /\ FlightHonest
  BY DEF PlayInv
<1>2. ASSUME NEW c \in Claims, JoinMessage(s, c) PROVE FlightOnce' /\ Grows
  <2> DEFINE x == [kind |-> "join", sock |-> s, claim |-> c]
  <2>1. x \in Jobs
    BY DEF Jobs
  <2>2. jobs' = Append(jobs, x) /\ UNCHANGED <<work, deferred>>
    BY <1>2 DEF JoinMessage, Enqueue
  <2>3. c \notin used /\ used' = used \cup {c}
    BY <1>2 DEF JoinMessage, OneTicketEach
  <2>4. x.kind = "join" /\ x.claim = c
    OBVIOUS
  <2> HIDE DEF x
  <2>5. \A y \in InFlight : ~Same(x, y)
    BY <1>1, <2>3, <2>4 DEF Same, FlightHonest, Honest
  <2>6. FlightOnce'
    BY <1>1, <2>1, <2>2, <2>5, OnceQueued
  <2>7. InFlight' \subseteq InFlight \cup {Idle, x}
    BY <1>1, <2>1, <2>2, QueuedInFlight
  <2>8. Origin(x)
    BY <2>3, <2>4 DEF Origin
  <2> QED
    BY <2>6, <2>7, <2>8 DEF Grows
<1>3. ASSUME NEW t \in Tokens, ResumeMessage(s, t) PROVE FlightOnce' /\ Grows
  <2> DEFINE x == [kind |-> "resume", sock |-> s, token |-> t]
  <2>1. x \in Jobs
    BY DEF Jobs
  <2>2. jobs' = Append(jobs, x) /\ UNCHANGED <<work, deferred>>
    BY <1>3 DEF ResumeMessage, Enqueue
  <2>3. t \in known
    BY <1>3 DEF ResumeMessage
  <2>4. x.kind = "resume" /\ x.token = t
    OBVIOUS
  <2> HIDE DEF x
  <2>5. \A y \in InFlight : ~Same(x, y)
    BY <2>4 DEF Same, IsJoin
  <2>6. FlightOnce'
    BY <1>1, <2>1, <2>2, <2>5, OnceQueued
  <2>7. InFlight' \subseteq InFlight \cup {Idle, x}
    BY <1>1, <2>1, <2>2, QueuedInFlight
  <2>8. Origin(x)
    BY <2>3, <2>4 DEF Origin
  <2> QED
    BY <2>6, <2>7, <2>8 DEF Grows
<1> QED
  BY <1>2, <1>3

(* A decided match has no room, so a room's match has no report on its way. *)
LEMMA FinalFlight ==
  ASSUME PlayInv, NEW s \in Sockets, NEW result \in Results,
         NEW winner \in Users \cup {None}, FinalMove(s, result, winner)
  PROVE  /\ FlightOnce' /\ Grows
         /\ InFlight' \subseteq InFlight \cup
              {Idle, [kind |-> "report", match |-> Room(s), winner |-> winner]}
<1>1. TypeOK /\ FlightOnce /\ ReportsOnce /\ GamesArrive
  BY DEF PlayInv
<1> DEFINE x == [kind |-> "report", match |-> Room(s), winner |-> winner]
<1>2. Room(s) \in Matches /\ Room(s) \in live
  BY <1>1 DEF TypeOK, FinalMove, CanMove
<1>3. x \in Jobs
  BY <1>2 DEF Jobs
<1>4. jobs' = Append(jobs, x) /\ UNCHANGED <<work, deferred>>
  BY DEF FinalMove, Enqueue
<1>5. x.kind = "report" /\ x.match = Room(s)
  OBVIOUS
<1>6. announced[Room(s)] = << >>
  BY <1>1, <1>2 DEF GamesArrive
<1>7. \A y \in InFlight : y.kind = "report" => announced[y.match] # << >>
  BY <1>1 DEF ReportsOnce
<1>8. InFlight' \subseteq InFlight \cup {Idle, x}
  <2> HIDE DEF x
  <2> QED
    BY <1>1, <1>3, <1>4, QueuedInFlight
<1>9. FlightOnce'
  <2> HIDE DEF x
  <2>1. \A y \in InFlight : ~Same(x, y)
    BY <1>5, <1>6, <1>7 DEF Same, IsJoin
  <2> QED
    BY <1>1, <1>3, <1>4, <2>1, OnceQueued
<1>10. Origin(x)
  <2>1. announced'[Room(s)] = Append(announced[Room(s)], result)
    BY <1>1, <1>2 DEF TypeOK, FinalMove
  <2>2. announced' # announced
    BY <1>6, <2>1
  <2> QED
    BY <1>5, <2>2 DEF Origin
<1> QED
  BY <1>8, <1>9, <1>10 DEF Grows

(* A worker that refuses puts the refusal on its way, and nothing counted. *)
LEMMA RefuseFlight ==
  ASSUME TypeOK, FlightOnce, NEW w \in Workers, work[w].sock \in Sockets, Refuse(w),
         UNCHANGED jobs
  PROVE  FlightOnce' /\ Grows
<1> DEFINE x == [kind |-> "refused", sock |-> work[w].sock]
<1>1. x \in Replies
  BY DEF Replies
<1>2. work' = [work EXCEPT ![w] = Idle] /\ deferred' = Append(deferred, x)
  BY DEF Refuse, Defer
<1>3. x.kind = "refused"
  OBVIOUS
<1>4. InFlight' \subseteq InFlight \cup {Idle, x}
  BY RefuseInFlight
<1> HIDE DEF x
<1>5. \A y : ~Same(x, y)
  BY <1>3 DEF Same, IsJoin
<1>6. FlightOnce'
  BY <1>1, <1>2, <1>5, OnceHanded
<1>7. Origin(x)
  BY <1>3 DEF Origin
<1> QED
  BY <1>4, <1>6, <1>7 DEF Grows

(* One that accepts goes on with the ticket it holds. *)
LEMMA AcceptFlight ==
  ASSUME TypeOK, FlightOnce, NEW w \in Workers, NEW c \in Claims,
         NEW reply \in {"joined", "resumed"}, Accept(w, c, reply), UNCHANGED jobs,
         \/ reply = "joined" /\ work[w].kind = "join" /\ work[w].claim = c
         \/ reply = "resumed" /\ work[w].kind = "resume" /\ grant[work[w].token] = c
  PROVE  FlightOnce' /\ Grows
<1> DEFINE x == [kind |-> "mint", sock |-> work[w].sock, claim |-> c, reply |-> reply]
<1>1. work' = [work EXCEPT ![w] = x] /\ UNCHANGED deferred
  BY DEF Accept
<1>2. x.kind = "mint" /\ x.claim = c /\ x.reply = reply
  OBVIOUS
<1>3. InFlight' \subseteq InFlight \cup {Idle, x}
  BY AcceptInFlight
<1> HIDE DEF x
<1>4. \A y : Same(x, y) => Same(work[w], y)
  BY <1>2 DEF Same, IsJoin
<1>5. FlightOnce'
  BY <1>1, <1>4, OnceWorked
<1>6. work[w] \in InFlight
  BY DEF InFlight
<1>7. Origin(x)
  BY <1>2, <1>6 DEF Origin, IsJoin, IsResumed
<1> QED
  BY <1>3, <1>5, <1>7 DEF Grows

(* A worker that minted hands the ticket to the loop, with the new token. *)
LEMMA MintFlight ==
  ASSUME TypeOK, FlightOnce, NEW w \in Workers, NEW t \in Tokens \cup {None}, Mint(w, t)
  PROVE  FlightOnce' /\ Grows
<1> DEFINE x == [kind |-> work[w].reply, sock |-> work[w].sock,
                  claim |-> work[w].claim, token |-> t]
<1>1. /\ work[w].sock \in Sockets /\ work[w].claim \in Claims
      /\ work[w].reply \in {"joined", "resumed"} /\ work[w].kind = "mint"
      /\ work[w] \in InFlight
  BY WorkFields DEF TypeOK, Mint, InFlight
<1>2. x \in Replies
  BY <1>1 DEF Replies
<1>3. /\ work' = [work EXCEPT ![w] = Idle] /\ deferred' = Append(deferred, x)
      /\ UNCHANGED jobs
  BY DEF Mint, Defer
<1>4. x.kind = work[w].reply /\ x.claim = work[w].claim /\ x.token = t
  OBVIOUS
<1>5. t # None => RestoresNext(t, work[w].claim)
  BY DEF TypeOK, ControlTypeOK, Mint, CreateResumeToken, RestoresNext
<1> HIDE DEF x
<1>6. \A y : Same(x, y) => Same(work[w], y)
  BY <1>1, <1>4 DEF Same, IsJoin
<1>7. FlightOnce'
  BY <1>2, <1>3, <1>6, OnceHanded
<1>8. InFlight' \subseteq InFlight \cup {Idle, x}
  <2>1. Elements(deferred') = Elements(deferred) \cup {x}
    BY <1>2, <1>3, ElementSteps DEF TypeOK
  <2>2. Elements(jobs') = Elements(jobs)
    BY <1>3
  <2>3. \A v \in Workers : work'[v] \in {Idle, work[v]}
    BY <1>3 DEF TypeOK
  <2> QED
    BY <2>1, <2>2, <2>3 DEF InFlight
<1>9. Origin(x)
  <2>1. x.kind \in {"joined", "resumed"} /\ (x.token # None => RestoresNext(x.token, x.claim))
    BY <1>1, <1>4, <1>5
  <2>2. \/ IsJoin(x) /\ IsJoin(work[w]) /\ work[w].claim = x.claim
        \/ IsResumed(x) /\ IsResumed(work[w]) /\ work[w].claim = x.claim
    BY <1>1, <1>4 DEF IsJoin, IsResumed
  <2> QED
    BY <1>1, <2>1, <2>2 DEF Origin
<1> QED
  BY <1>7, <1>8, <1>9 DEF Grows

LEMMA WorkerFlight ==
  ASSUME PlayInv, NEW w \in Workers, Take(w) \/ WorkerStep(w)
  PROVE  FlightOnce' /\ Grows
<1>1. TypeOK /\ FlightOnce
  BY DEF PlayInv
<1>2. CASE Take(w)
  <2>1. Head(jobs) \in Elements(jobs) /\ Elements(Tail(jobs)) \subseteq Elements(jobs)
    BY <1>1, <1>2, ElementSteps DEF TypeOK, Take
  <2>2. InFlight' \subseteq InFlight
    BY <1>1, <1>2, <2>1 DEF TypeOK, Take, InFlight, Elements
  <2> QED
    BY <1>1, <1>2, <2>2, OnceTaken, NothingNew
<1>3. CASE VerifyMatchTicket(w)
  <2>1. /\ work[w].sock \in Sockets /\ work[w].claim \in Claims
        /\ work[w].kind = "join" /\ UNCHANGED jobs
    BY <1>1, <1>3, WorkFields DEF TypeOK, VerifyMatchTicket
  <2>2. CASE Accept(w, work[w].claim, "joined")
    BY <1>1, <2>1, <2>2, AcceptFlight
  <2>3. CASE Refuse(w)
    BY <1>1, <2>1, <2>3, RefuseFlight
  <2> QED
    BY <1>3, <2>2, <2>3 DEF VerifyMatchTicket
<1>4. CASE Resolve(w)
  <2>1. /\ work[w].sock \in Sockets /\ work[w].token \in Tokens
        /\ work[w].kind = "resume" /\ UNCHANGED jobs
    BY <1>1, <1>4, WorkFields DEF TypeOK, Resolve
  <2>2. CASE Redeemable(work[w].token) /\ Accept(w, grant[work[w].token], "resumed")
    <3>1. grant[work[w].token] \in Claims
      BY <1>1, <2>1, <2>2, LiveTokenGrants
    <3> QED
      BY <1>1, <2>1, <2>2, <3>1, AcceptFlight
  <2>3. CASE Refuse(w)
    BY <1>1, <2>1, <2>3, RefuseFlight
  <2> QED
    BY <1>4, <2>2, <2>3 DEF Resolve
<1>5. CASE \E t \in Tokens \cup {None} : Mint(w, t)
  BY <1>1, <1>5, MintFlight
<1>6. CASE Report(w)
  <2>1. work' = [work EXCEPT ![w] = Idle] /\ UNCHANGED <<jobs, deferred>>
    BY <1>6 DEF Report
  <2>2. \A y : ~Same(Idle, y)
    BY DEF Same, Idle, IsJoin
  <2>3. FlightOnce'
    BY <1>1, <2>1, <2>2, OnceWorked
  <2>4. InFlight' \subseteq InFlight \cup {Idle}
    BY <1>1, <2>1 DEF TypeOK, InFlight, Elements
  <2> QED
    BY <2>3, <2>4, NothingNew
<1> QED
  BY <1>2, <1>3, <1>4, <1>5, <1>6 DEF WorkerStep

LEMMA FlightStep ==
  ASSUME OneTicketEach, PlayInv, Next
  PROVE  FlightOnce' /\ Grows
<1>1. TypeOK /\ FlightOnce
  BY DEF PlayInv
<1>2. ASSUME UNCHANGED poolVars PROVE FlightOnce' /\ Grows
  <2>1. InFlight' = InFlight
    BY <1>2 DEF poolVars, InFlight, Elements
  <2>2. FlightOnce'
    BY <1>1, <1>2 DEF poolVars, FlightOnce, OnceIn, Elements
  <2> QED
    BY <2>1, <2>2, NothingNew
<1>3. ASSUME NEW s \in Sockets, \/ Open(s) \/ MoveMessage(s) \/ Close(s)
                                \/ \E t \in Tokens : ExpireToken(t)
      PROVE  UNCHANGED poolVars
  BY <1>3 DEF Open, MoveMessage, Close, ExpireToken
<1>4. ASSUME NEW t \in Tokens, ExpireToken(t) PROVE UNCHANGED poolVars
  BY <1>4 DEF ExpireToken
<1>5. CASE RunDeferred
  <2>1. deferred # << >> /\ deferred' = Tail(deferred) /\ UNCHANGED <<jobs, work>>
    BY <1>5 DEF RunDeferred
  <2> QED
    BY <1>1, <2>1, OnceRun, NothingNew
<1>6. CASE Restart
  <2>1. jobs' = << >> /\ deferred' = << >> /\ work' = [w \in Workers |-> Idle]
    BY <1>6 DEF Restart
  <2>2. Elements(jobs') = {} /\ Elements(deferred') = {} /\ \A w \in Workers : work'[w] = Idle
    BY <2>1 DEF Elements
  <2>3. InFlight' \subseteq {Idle}
    BY <2>2 DEF InFlight
  <2>4. \A y : ~Same(Idle, y)
    BY DEF Same, Idle, IsJoin
  <2>5. FlightOnce'
    BY <2>1, <2>2, <2>4 DEF FlightOnce, OnceIn
  <2> QED
    BY <2>3, <2>5, NothingNew
<1> QED
  BY <1>2, <1>3, <1>4, <1>5, <1>6, AskFlight, FinalFlight, WorkerFlight DEF Next

-----------------------------------------------------------------------------
(* Arrivals *)

ArrivedNext(c) == c \in used' /\ \A x \in InFlight' : IsJoin(x) => x.claim # c

(* Nothing takes back an arrival: a ticket is shown once. *)
LEMMA ArrivedKept ==
  ASSUME FlightHonest, Grows, used \subseteq used'
  PROVE  \A c : Arrived(c) => ArrivedNext(c)
<1> SUFFICES ASSUME NEW c, Arrived(c), NEW x \in InFlight', IsJoin(x)
             PROVE  x.claim # c
  BY DEF Arrived, ArrivedNext
<1>1. PICK y : Origin(y) /\ InFlight' \subseteq InFlight \cup {Idle, y}
  BY DEF Grows
<1>2. CASE x \in InFlight
  BY <1>2 DEF Arrived
<1>3. CASE x = Idle
  BY <1>3 DEF Idle, IsJoin
<1>4. CASE x = y
  <2>1. \/ x.claim \notin used
        \/ \E z \in InFlight : IsJoin(z) /\ z.claim = x.claim
    BY <1>1, <1>4 DEF Origin, IsJoin, IsResumed
  <2> QED
    BY <2>1 DEF Arrived
<1> QED
  BY <1>1, <1>2, <1>3, <1>4

LEMMA UsedKept ==
  ASSUME Next
  PROVE  used \subseteq used'
<1> USE DEF clientVars, askVars
<1>1. ASSUME NEW s \in Sockets, NEW c \in Claims, JoinMessage(s, c)
      PROVE  used \subseteq used'
  BY <1>1 DEF JoinMessage
<1>2. ASSUME ~\E s \in Sockets, c \in Claims : JoinMessage(s, c)
      PROVE  used' = used
  BY <1>2 DEF Next, Open, ResumeMessage, MoveMessage, FinalMove, Close, Take, WorkerStep,
     VerifyMatchTicket, Resolve, Mint, Report, RunDeferred, DeferredJoin, DeferredResume,
     SeatSocket, Restart, ExpireToken
<1> QED
  BY <1>1, <1>2

(* A token once issued stays issued, and for the same seat. *)
TokensKept ==
  \A t \in Tokens : store[t] # "unissued" => store'[t] # "unissued" /\ grant'[t] = grant[t]

LEMMA TokensStep ==
  ASSUME TypeOK, Next
  PROVE  TokensKept
<1> USE DEF TypeOK, ControlTypeOK, TokensKept
<1>1. ASSUME UNCHANGED <<store, grant>> PROVE TokensKept
  BY <1>1
<1>2. ASSUME NEW w \in Workers, NEW t \in Tokens \cup {None}, Mint(w, t) PROVE TokensKept
  BY <1>2, ControlAssumption DEF Mint, CreateResumeToken, controlVars
<1>3. ASSUME NEW w \in Workers, Resolve(w) PROVE TokensKept
  BY <1>3 DEF Resolve, ResolveResumeToken, controlVars
<1>4. ASSUME NEW w \in Workers, Take(w) \/ VerifyMatchTicket(w) \/ Report(w)
      PROVE  UNCHANGED <<store, grant>>
  BY <1>4 DEF Take, VerifyMatchTicket, Report, ReportGameEnd, controlVars
<1>5. ASSUME NEW s \in Sockets, \/ Open(s) \/ Close(s) \/ MoveMessage(s)
                                \/ \E c \in Claims : JoinMessage(s, c)
                                \/ \E t \in Tokens : ResumeMessage(s, t)
                                \/ \E result \in Results, winner \in Users \cup {None} :
                                     FinalMove(s, result, winner)
      PROVE  UNCHANGED <<store, grant>>
  BY <1>5 DEF Open, Close, MoveMessage, JoinMessage, ResumeMessage, FinalMove, controlVars
<1>6. ASSUME RunDeferred \/ Restart PROVE UNCHANGED <<store, grant>>
  BY <1>6 DEF RunDeferred, Restart, controlVars
<1>7. ASSUME NEW t \in Tokens, ExpireToken(t) PROVE TokensKept
  BY <1>7 DEF ExpireToken, ExpireResumeToken
<1> QED
  BY <1>1, <1>2, <1>3, <1>4, <1>5, <1>6, <1>7 DEF Next, WorkerStep

LEMMA HonestStep ==
  ASSUME PlayInv, TokensKept, Grows, used \subseteq used'
  PROVE  FlightHonest'
<1>1. TypeOK /\ FlightHonest /\ PlayersArrive
  BY DEF PlayInv
<1>2. \A c : Arrived(c) => ArrivedNext(c)
  BY <1>1, ArrivedKept
<1>3. ASSUME NEW x \in InFlight
      PROVE  Honest(x)'
  <2>1. x \in {Idle} \cup Jobs \cup Mints \cup Replies /\ Honest(x)
    BY <1>1, InFlightTypes DEF FlightHonest
  <2>2. x.kind = "resume" =>
          store'[x.token] # "unissued" /\ grant'[x.token] = grant[x.token]
    <3>1. x.kind = "resume" => x.token \in Tokens
      BY <2>1, WorkFields DEF Idle, Jobs, Mints, Replies
    <3> QED
      BY <2>1, <3>1 DEF Honest, TokensKept
  <2>3. x.kind \in {"joined", "resumed"} /\ x.token # None => Restores(x.token, x.claim)'
    <3>1. x.kind \in {"joined", "resumed"} => x.token \in Tokens \cup {None}
      BY <2>1, ReplyFields DEF Idle, Jobs, Mints, Replies
    <3> QED
      BY <2>1, <3>1 DEF Honest, Restores, TokensKept
  <2>4. x.kind = "resume" => Arrived(grant[x.token])
    BY <2>1 DEF Honest
  <2>5. (IsJoin(x) => x.claim \in used) /\ (IsResumed(x) => Arrived(x.claim))
    BY <2>1 DEF Honest
  <2> QED
    BY <1>2, <2>2, <2>3, <2>4, <2>5 DEF Honest, Arrived, ArrivedNext
<1>4. ASSUME NEW x, Origin(x)
      PROVE  Honest(x)'
  <2>1. CASE x.kind \in {"idle", "refused", "report"}
    BY <2>1 DEF Honest, IsJoin, IsResumed
  <2>2. CASE x.kind = "join" /\ x.claim \in used'
    BY <2>2 DEF Honest, IsJoin, IsResumed
  <2>3. CASE x.kind = "resume" /\ x.token \in known
    <3>1. x.token \in Tokens /\ Arrived(grant[x.token]) /\ store[x.token] # "unissued"
      BY <1>1, <2>3 DEF TypeOK, PlayersArrive
    <3>2. store'[x.token] # "unissued" /\ grant'[x.token] = grant[x.token]
      BY <3>1 DEF TokensKept
    <3> QED
      BY <1>2, <2>3, <3>1, <3>2 DEF Honest, Arrived, ArrivedNext, IsJoin, IsResumed
  <2>4. ASSUME x.kind \in {"mint", "joined", "resumed"}, NEW y \in InFlight,
               \/ IsJoin(x) /\ IsJoin(y) /\ y.claim = x.claim
               \/ IsResumed(x) /\ IsResumed(y) /\ y.claim = x.claim
               \/ IsResumed(x) /\ y.kind = "resume" /\ grant[y.token] = x.claim,
               x.kind # "mint" /\ x.token # None => RestoresNext(x.token, x.claim)
        PROVE  Honest(x)'
    <3>1. Honest(y)
      BY <1>1 DEF FlightHonest
    <3>2. \/ IsJoin(x) /\ x.claim \in used
          \/ IsResumed(x) /\ Arrived(x.claim)
      BY <2>4, <3>1 DEF Honest
    <3>3. ~(IsJoin(x) /\ IsResumed(x))
      BY DEF IsJoin, IsResumed
    <3> QED
      BY <1>2, <2>4, <3>2, <3>3 DEF Honest, Arrived, ArrivedNext, Restores, RestoresNext
  <2> QED
    BY <1>4, <2>1, <2>2, <2>3, <2>4 DEF Origin
<1>5. Honest(Idle)'
  BY DEF Honest, Idle, IsJoin, IsResumed
<1> QED
  BY <1>3, <1>4, <1>5 DEF Grows, FlightHonest

-----------------------------------------------------------------------------
(* What a deferred closure does: nothing, a close, or a seat for a player  *)
(* who has arrived with it, in a new room only if with it.                 *)
Seats(s, c, t) ==
  /\ sock[s] = "open"
  /\ ArrivedNext(c)
  /\ t # None => Restores(t, c)
  /\ SeatSocket(s, c, t)
  /\ \/ c.match \in live /\ UNCHANGED <<live, plies>>
     \/ /\ c.match \notin live /\ ~Arrived(c)
        /\ live' = live \cup {c.match}
        /\ plies' = [plies EXCEPT ![c.match] = 0]

LEMMA DeferredEffects ==
  ASSUME PlayInv, RunDeferred
  PROVE  /\ UNCHANGED <<asked, asks, used, announced, restarts, controlVars>>
         /\ InFlight' \subseteq InFlight
         /\ \/ UNCHANGED <<loopVars, clientVars>>
            \/ \E s \in Sockets : /\ sock[s] = "open" /\ CloseHandler(s)
                                  /\ UNCHANGED known
            \/ \E s \in Sockets, c \in Claims, t \in Tokens \cup {None} : Seats(s, c, t)
<1>1. TypeOK /\ FlightOnce /\ FlightHonest
  BY DEF PlayInv
<1> DEFINE r == Head(deferred)
           s == r.sock
<1>2. deferred # << >> /\ deferred' = Tail(deferred) /\ UNCHANGED <<jobs, work>>
  BY DEF RunDeferred
<1>3. r \in Replies /\ r \in InFlight
  BY <1>1, <1>2, QueueSteps, ElementSteps DEF TypeOK, InFlight
<1>4. s \in Sockets
  BY <1>3, ReplyFields
<1>5. InFlight' \subseteq InFlight /\ \A y \in InFlight' : ~Same(r, y)
  BY <1>1, <1>2, OnceRun
<1>6. UNCHANGED <<asked, asks, used, announced, restarts, controlVars>>
  BY DEF RunDeferred, DeferredJoin, DeferredResume, SeatSocket, clientVars, askVars
<1>7. ASSUME r.kind \in {"joined", "resumed"}
      PROVE  /\ r.claim \in Claims /\ r.token \in Tokens \cup {None}
             /\ r.token # None => Restores(r.token, r.claim)
             /\ ArrivedNext(r.claim)
             /\ r.kind = "joined" => ~Arrived(r.claim)
  <2>1. r.claim \in Claims /\ r.token \in Tokens \cup {None}
    BY <1>3, <1>7, ReplyFields
  <2>3. Honest(r)
    BY <1>1, <1>3 DEF FlightHonest
  <2>4. r.token # None => Restores(r.token, r.claim)
    BY <1>7, <2>3 DEF Honest
  <2>5. CASE r.kind = "joined"
    <3>1. IsJoin(r) /\ r.claim \in used'
      BY <1>6, <2>3, <2>5 DEF Honest, IsJoin
    <3>2. \A y \in InFlight' : IsJoin(y) => y.claim # r.claim
      BY <1>5, <3>1 DEF Same
    <3>3. ArrivedNext(r.claim)
      BY <3>1, <3>2 DEF ArrivedNext
    <3>4. ~Arrived(r.claim)
      BY <1>3, <3>1 DEF Arrived
    <3> QED
      BY <2>1, <2>4, <3>3, <3>4
  <2>6. CASE r.kind = "resumed"
    <3>1. Arrived(r.claim)
      BY <2>3, <2>6 DEF Honest, IsResumed
    <3>2. ArrivedNext(r.claim)
      BY <1>5, <1>6, <3>1 DEF Arrived, ArrivedNext
    <3> QED
      BY <2>1, <2>4, <2>6, <3>2
  <2> QED
    BY <1>7, <2>5, <2>6
<1>8. \/ UNCHANGED <<loopVars, clientVars>>
      \/ /\ sock[s] = "open"
         /\ \/ r.kind = "refused" /\ CloseHandler(s) /\ UNCHANGED known
            \/ r.kind = "joined"  /\ DeferredJoin(s, r.claim, r.token)
            \/ r.kind = "resumed" /\ DeferredResume(s, r.claim, r.token)
  BY DEF RunDeferred
<1> HIDE DEF r, s
<1>9. ASSUME sock[s] = "open", r.kind = "joined", DeferredJoin(s, r.claim, r.token)
      PROVE  Seats(s, r.claim, r.token)
  BY <1>7, <1>9 DEF DeferredJoin, Seats
<1>10. ASSUME sock[s] = "open", r.kind = "resumed", DeferredResume(s, r.claim, r.token)
       PROVE  \/ Seats(s, r.claim, r.token)
              \/ CloseHandler(s) /\ UNCHANGED known
  BY <1>7, <1>10 DEF DeferredResume, Seats
<1> QED
  BY <1>4, <1>5, <1>6, <1>7, <1>8, <1>9, <1>10

(* A step that closes one socket: seats, rooms and the binding it had.     *)
LEMMA CloseBound ==
  ASSUME TypeOK, NEW s \in Sockets, CloseHandler(s)
  PROVE  /\ \A r \in Sockets : bound'[r] \in {None, bound[r]}
         /\ live' \subseteq live /\ UNCHANGED plies
BY DEF TypeOK, CloseHandler

(* In every other step nobody is bound and no token learnt. *)
LEMMA BoundKept ==
  ASSUME TypeOK, Next, ~RunDeferred
  PROVE  /\ \A r \in Sockets : bound'[r] \in {None, bound[r]}
         /\ known' = known
         /\ live' \subseteq live
<1> USE DEF loopVars, clientVars, askVars
<1>1. ASSUME NEW s \in Sockets, Close(s)
      PROVE  (\A r \in Sockets : bound'[r] \in {None, bound[r]}) /\ known' = known
             /\ live' \subseteq live
  BY <1>1, CloseBound DEF Close
<1>2. ASSUME Restart
      PROVE  (\A r \in Sockets : bound'[r] \in {None, bound[r]}) /\ known' = known
             /\ live' \subseteq live
  BY <1>2 DEF Restart
<1>3. ASSUME NEW s \in Sockets, NEW result \in Results, NEW winner \in Users \cup {None},
             FinalMove(s, result, winner)
      PROVE  bound' = bound /\ known' = known /\ live' \subseteq live
  BY <1>3 DEF FinalMove, EraseRoom
<1>4. ASSUME NEW s \in Sockets, \/ Open(s) \/ MoveMessage(s)
                                \/ \E c \in Claims : JoinMessage(s, c)
                                \/ \E t \in Tokens : ResumeMessage(s, t)
      PROVE  bound' = bound /\ known' = known /\ live' = live
  BY <1>4 DEF Open, MoveMessage, JoinMessage, ResumeMessage
<1>5. ASSUME NEW w \in Workers, Take(w) \/ WorkerStep(w)
      PROVE  bound' = bound /\ known' = known /\ live' = live
  BY <1>5 DEF Take, WorkerStep, VerifyMatchTicket, Resolve, Mint, Report
<1>6. ASSUME NEW t \in Tokens, ExpireToken(t)
      PROVE  bound' = bound /\ known' = known /\ live' = live
  BY <1>6 DEF ExpireToken
<1> QED
  BY <1>1, <1>2, <1>3, <1>4, <1>5, <1>6 DEF Next

LEMMA PlayersStep ==
  ASSUME PlayInv, TokensKept, Next, \A c : Arrived(c) => ArrivedNext(c)
  PROVE  PlayersArrive'
<1>1. TypeOK /\ PlayersArrive
  BY DEF PlayInv
<1>2. \A t \in known : store'[t] # "unissued" /\ grant'[t] = grant[t]
  BY <1>1 DEF TypeOK, PlayersArrive, TokensKept
<1>3. \A t \in known : store'[t] # "unissued" /\ ArrivedNext(grant'[t])
  BY <1>1, <1>2 DEF PlayersArrive, Arrived, ArrivedNext
<1>4. CASE ~RunDeferred
  <2>1. (\A r \in Sockets : bound'[r] \in {None, bound[r]}) /\ known' = known
    BY <1>1, <1>4, BoundKept
  <2>2. \A r \in Sockets : bound'[r] # None => ArrivedNext(bound'[r])
    BY <1>1, <2>1 DEF PlayersArrive, Arrived, ArrivedNext
  <2>3. \A t \in known' : store'[t] # "unissued" /\ ArrivedNext(grant'[t])
    BY <1>3, <2>1
  <2> QED
    BY <2>2, <2>3 DEF PlayersArrive, Arrived, ArrivedNext
<1>5. CASE RunDeferred
  <2>1. CASE UNCHANGED <<loopVars, clientVars>>
    BY <1>1, <1>3, <2>1 DEF PlayersArrive, Arrived, ArrivedNext, loopVars, clientVars
  <2>2. ASSUME NEW s \in Sockets, CloseHandler(s), UNCHANGED known
        PROVE  PlayersArrive'
    <3>1. \A r \in Sockets : bound'[r] \in {None, bound[r]}
      BY <1>1, <2>2, CloseBound
    <3>2. \A r \in Sockets : bound'[r] # None => ArrivedNext(bound'[r])
      BY <1>1, <3>1 DEF PlayersArrive, Arrived, ArrivedNext
    <3> QED
      BY <1>3, <2>2, <3>2 DEF PlayersArrive, Arrived, ArrivedNext
  <2>3. ASSUME NEW s \in Sockets, NEW c \in Claims, NEW t \in Tokens \cup {None}, Seats(s, c, t)
        PROVE  PlayersArrive'
    <3>1. bound' = [bound EXCEPT ![s] = c] /\ known' \subseteq known \cup {t}
          /\ (t \in known' => t \in known \/ t # None) /\ ArrivedNext(c)
      BY <2>3 DEF Seats, SeatSocket
    <3>2. grant' = grant /\ store' = store
      BY <1>5, DeferredEffects DEF controlVars
    <3>3. \A r \in Sockets : bound'[r] # None => ArrivedNext(bound'[r])
      BY <1>1, <3>1 DEF TypeOK, PlayersArrive
    <3>4. \A u \in known' : store'[u] # "unissued" /\ ArrivedNext(grant'[u])
      BY <1>3, <2>3, <3>1, <3>2 DEF Seats, Restores
    <3> QED
      BY <3>3, <3>4 DEF PlayersArrive, Arrived, ArrivedNext
  <2> QED
    BY <1>5, <2>1, <2>2, <2>3, DeferredEffects
<1> QED
  BY <1>4, <1>5

(* With its n-th move on the board, a match has seen its first n players.  *)
LEMMA MoverArrived ==
  ASSUME HonestTickets, PlayInv, NEW s \in Sockets, CanMove(s),
         NEW c \in Claims, c.match = Room(s)
  PROVE  /\ c.color = "white" => Arrived(c)
         /\ plies[Room(s)] > 0 /\ c.color = "black" => Arrived(c)
<1> DEFINE n == plies[Room(s)]
<1>1. TypeOK /\ PlayersArrive /\ GamesArrive
  BY DEF PlayInv
<1>2. bound[s] \in Claims /\ Room(s) = bound[s].match /\ Room(s) \in live
      /\ Room(s) \in Matches /\ bound[s].color = ToMove(Room(s)) /\ Arrived(bound[s])
  BY <1>1 DEF TypeOK, CanMove, Room, PlayersArrive
<1>3. n \in Nat
  BY <1>1, <1>2, ServerAssumption DEF TypeOK
<1>4. n = 0 => ToMove(Room(s)) = "white"
  BY DEF ToMove
<1>5. n = 1 => ToMove(Room(s)) = "black"
  BY DEF ToMove
<1>6. c.color = bound[s].color => Arrived(c)
  BY <1>2, OneTicketPerSeat
<1> HIDE DEF n
<1>7. n > 0 /\ c.color = "white" => Arrived(c)
  BY <1>1, <1>2 DEF GamesArrive, n
<1>8. n > 1 /\ c.color = "black" => Arrived(c)
  BY <1>1, <1>2 DEF GamesArrive, n
<1>9. n = 0 \/ n = 1 \/ n > 1
  BY <1>3
<1>10. n = 1 => n > 0
  OBVIOUS
<1> QED
  BY <1>2, <1>3, <1>4, <1>5, <1>6, <1>7, <1>8, <1>9 DEF n

(* It is enough to look at what the step changes. *)
LEMMA GamesNext ==
  ASSUME \A c : Arrived(c) => ArrivedNext(c),
         \A m \in live', c \in Claims : c.match = m =>
           /\ plies'[m] > 0 /\ c.color = "white" => Arrived(c)
           /\ plies'[m] > 1 /\ c.color = "black" => Arrived(c),
         \A m \in Matches : announced'[m] # << >> =>
           m \notin live' /\ \A c \in Claims : c.match = m => Arrived(c)
  PROVE  GamesArrive'
<1>1. \A c : Arrived(c) => c \in used' /\ \A x \in InFlight' : IsJoin(x) => x.claim # c
  BY DEF ArrivedNext
<1> QED
  BY <1>1 DEF GamesArrive, Arrived

LEMMA GamesStep ==
  ASSUME HonestTickets, PlayInv, Next, \A c : Arrived(c) => ArrivedNext(c)
  PROVE  GamesArrive'
<1>1. TypeOK /\ GamesArrive
  BY DEF PlayInv
<1>2. ASSUME live' \subseteq live, announced' = announced,
             \A m \in live' : plies'[m] = plies[m]
      PROVE  GamesArrive'
  <2>1. \A m \in live', c \in Claims : c.match = m =>
           /\ plies'[m] > 0 /\ c.color = "white" => Arrived(c)
           /\ plies'[m] > 1 /\ c.color = "black" => Arrived(c)
    BY <1>1, <1>2 DEF GamesArrive
  <2>2. \A m \in Matches : announced'[m] # << >> =>
           m \notin live' /\ \A c \in Claims : c.match = m => Arrived(c)
    BY <1>1, <1>2 DEF GamesArrive
  <2> QED
    BY <2>1, <2>2, GamesNext
<1>3. ASSUME NEW s \in Sockets, MoveMessage(s) PROVE GamesArrive'
  <2> DEFINE m == Room(s)
  <2>1. /\ CanMove(s) /\ m \in live /\ m \in Matches /\ live' = live
        /\ announced' = announced /\ plies' = [plies EXCEPT ![m] = plies[m] + 1]
    BY <1>1, <1>3 DEF TypeOK, MoveMessage, CanMove
  <2>2. plies[m] \in Nat
    BY <1>1, <2>1, ServerAssumption DEF TypeOK
  <2>3. \A c \in Claims : c.match = m =>
           /\ c.color = "white" => Arrived(c)
           /\ plies[m] > 0 /\ c.color = "black" => Arrived(c)
    BY <2>1, MoverArrived
  <2>4. plies'[m] = plies[m] + 1 /\ \A n \in Matches \ {m} : plies'[n] = plies[n]
    BY <1>1, <2>1 DEF TypeOK
  <2> HIDE DEF m
  <2>5. plies'[m] > 1 => plies[m] > 0
    BY <2>2, <2>4
  <2>6. ASSUME NEW n \in live', NEW c \in Claims, c.match = n
        PROVE  /\ plies'[n] > 0 /\ c.color = "white" => Arrived(c)
               /\ plies'[n] > 1 /\ c.color = "black" => Arrived(c)
    <3>1. n \in Matches /\ n \in live
      BY <1>1, <2>1, <2>6 DEF TypeOK
    <3>2. CASE n = m
      BY <2>3, <2>5, <2>6, <3>2
    <3>3. CASE n # m
      BY <1>1, <2>4, <2>6, <3>1, <3>3 DEF GamesArrive
    <3> QED
      BY <3>2, <3>3
  <2>7. \A n \in Matches : announced'[n] # << >> =>
           n \notin live' /\ \A c \in Claims : c.match = n => Arrived(c)
    BY <1>1, <2>1 DEF GamesArrive
  <2> QED
    BY <2>6, <2>7, GamesNext
<1>4. ASSUME NEW s \in Sockets, NEW result \in Results, NEW winner \in Users \cup {None},
             FinalMove(s, result, winner)
      PROVE  GamesArrive'
  <2> DEFINE m == Room(s)
  <2>1. /\ CanMove(s) /\ m \in live /\ m \in Matches /\ live' = live \ {m}
        /\ announced' = [announced EXCEPT ![m] = Append(@, result)]
        /\ plies' = [plies EXCEPT ![m] = plies[m] + 1] /\ plies[m] + 1 >= MinPlies
    BY <1>1, <1>4 DEF TypeOK, FinalMove, CanMove, EraseRoom
  <2>2. plies[m] \in Nat /\ MinPlies \in Nat /\ 2 <= MinPlies
    BY <1>1, <2>1, ServerAssumption DEF TypeOK
  <2>3. plies[m] > 0
    BY <2>1, <2>2
  <2>4. \A c \in Claims : c.match = m => Arrived(c)
    <3>1. \A c \in Claims : c.color \in {"white", "black"}
      BY ClaimFields DEF Colors
    <3>2. \A c \in Claims : c.match = m =>
             /\ c.color = "white" => Arrived(c)
             /\ plies[m] > 0 /\ c.color = "black" => Arrived(c)
      BY <2>1, MoverArrived
    <3> QED
      BY <2>3, <3>1, <3>2
  <2>5. \A n \in Matches \ {m} : plies'[n] = plies[n] /\ announced'[n] = announced[n]
    BY <1>1, <2>1 DEF TypeOK
  <2> HIDE DEF m
  <2>6. \A n \in live' : n \in live /\ plies'[n] = plies[n]
    BY <1>1, <2>1, <2>5 DEF TypeOK
  <2>7. \A n \in live', c \in Claims : c.match = n =>
           /\ plies'[n] > 0 /\ c.color = "white" => Arrived(c)
           /\ plies'[n] > 1 /\ c.color = "black" => Arrived(c)
    BY <1>1, <2>6 DEF GamesArrive
  <2>8. \A n \in Matches : announced'[n] # << >> =>
           n \notin live' /\ \A c \in Claims : c.match = n => Arrived(c)
    BY <1>1, <2>1, <2>4, <2>5 DEF GamesArrive
  <2> QED
    BY <2>7, <2>8, GamesNext
<1>5. ASSUME NEW s \in Sockets, NEW c \in Claims, NEW t \in Tokens \cup {None},
             Seats(s, c, t), announced' = announced
      PROVE  GamesArrive'
  <2>1. CASE c.match \in live /\ UNCHANGED <<live, plies>>
    BY <1>2, <1>5, <2>1
  <2>2. CASE /\ c.match \notin live /\ ~Arrived(c)
             /\ live' = live \cup {c.match}
             /\ plies' = [plies EXCEPT ![c.match] = 0]
    <3>1. c.match \in Matches
      BY ClaimFields
    <3>2. plies'[c.match] = 0 /\ \A n \in Matches \ {c.match} : plies'[n] = plies[n]
      BY <1>1, <2>2, <3>1 DEF TypeOK
    <3>3. announced[c.match] = << >>
      BY <1>1, <2>2, <3>1 DEF GamesArrive
    <3>4. \A n \in live', d \in Claims : d.match = n =>
             /\ plies'[n] > 0 /\ d.color = "white" => Arrived(d)
             /\ plies'[n] > 1 /\ d.color = "black" => Arrived(d)
      <4> SUFFICES ASSUME NEW n \in live', NEW d \in Claims, d.match = n
                   PROVE  /\ plies'[n] > 0 /\ d.color = "white" => Arrived(d)
                          /\ plies'[n] > 1 /\ d.color = "black" => Arrived(d)
        OBVIOUS
      <4>1. CASE n = c.match
        BY <3>2, <4>1
      <4>2. CASE n # c.match
        BY <1>1, <2>2, <3>2, <4>2 DEF TypeOK, GamesArrive
      <4> QED
        BY <4>1, <4>2
    <3>5. \A n \in Matches : announced'[n] # << >> =>
             n \notin live' /\ \A d \in Claims : d.match = n => Arrived(d)
      BY <1>1, <1>5, <2>2, <3>3 DEF GamesArrive
    <3> QED
      BY <3>4, <3>5, GamesNext
  <2> QED
    BY <1>5, <2>1, <2>2 DEF Seats
<1>6. CASE RunDeferred
  <2>1. announced' = announced
    BY <1>6, DeferredEffects
  <2>2. CASE UNCHANGED <<loopVars, clientVars>>
    BY <1>2, <2>2 DEF loopVars, clientVars
  <2>3. ASSUME NEW s \in Sockets, CloseHandler(s)
        PROVE  GamesArrive'
    BY <1>1, <1>2, <2>1, <2>3, CloseBound
  <2> QED
    BY <1>5, <1>6, <2>1, <2>2, <2>3, DeferredEffects
<1>7. ASSUME NEW s \in Sockets, Close(s) PROVE GamesArrive'
  BY <1>1, <1>2, <1>7, CloseBound DEF Close
<1>8. ASSUME Restart PROVE GamesArrive'
  BY <1>2, <1>8 DEF Restart, clientVars
<1>9. ASSUME NEW s \in Sockets, \/ Open(s)
                                \/ \E c \in Claims : JoinMessage(s, c)
                                \/ \E t \in Tokens : ResumeMessage(s, t)
      PROVE  GamesArrive'
  BY <1>2, <1>9 DEF Open, JoinMessage, ResumeMessage, loopVars, clientVars
<1>10. ASSUME NEW w \in Workers, Take(w) \/ WorkerStep(w) PROVE GamesArrive'
  BY <1>2, <1>10 DEF Take, WorkerStep, VerifyMatchTicket, Resolve, Mint, Report, loopVars,
     clientVars
<1>11. ASSUME NEW t \in Tokens, ExpireToken(t) PROVE GamesArrive'
  BY <1>2, <1>11 DEF ExpireToken, loopVars, clientVars
<1> QED
  BY <1>3, <1>4, <1>6, <1>7, <1>8, <1>9, <1>10, <1>11 DEF Next

-----------------------------------------------------------------------------
(* Seats and connections *)

LEMMA OneConnectionStep ==
  ASSUME FairPlay, LedgerInv, Next
  PROVE  OneConnection'
<1>1. PlayInv /\ TypeOK /\ OneConnection
  BY LedgerTypes DEF LedgerInv
<1>2. sock \in [Sockets -> {"new", "open", "closed"}] /\ asked \in [Sockets -> Claims \cup {None}]
  BY <1>1 DEF TypeOK
<1>3. ASSUME asked' = asked, \A s \in Sockets : sock'[s] = sock[s] \/ sock'[s] = "closed"
      PROVE  OneConnection'
  BY <1>1, <1>3 DEF OneConnection
<1>4. ASSUME NEW s \in Sockets, Open(s) PROVE OneConnection'
  <2>1. asked' = asked /\ asked[s] = None /\ \A r \in Sockets \ {s} : sock'[r] = sock[r]
    BY <1>1, <1>2, <1>4 DEF Open, clientVars, askVars, OneConnection
  <2>2. sock'[s] = "open"
    BY <1>2, <1>4 DEF Open
  <2> QED
    BY <1>1, <2>1, <2>2 DEF OneConnection
<1>5. ASSUME NEW s \in Sockets, NEW c \in Claims \cup {None}, MayAsk(s, c),
             asked' = [asked EXCEPT ![s] = c], sock' = sock
      PROVE  OneConnection'
  <2>1. sock[s] = "open" /\ \A r \in Sockets \ {s} : sock[r] = "open" => asked[r] # c
    BY <1>5 DEF MayAsk, FairPlay
  <2>2. asked'[s] = c /\ \A r \in Sockets \ {s} : asked'[r] = asked[r]
    BY <1>2, <1>5
  <2> QED
    BY <1>1, <1>5, <2>1, <2>2 DEF OneConnection
<1>6. ASSUME NEW s \in Sockets, NEW c \in Claims, JoinMessage(s, c) PROVE OneConnection'
  BY <1>5, <1>6 DEF JoinMessage, loopVars
<1>7. ASSUME NEW s \in Sockets, NEW t \in Tokens, ResumeMessage(s, t) PROVE OneConnection'
  <2>1. grant[t] \in Claims \cup {None}
    BY <1>1 DEF TypeOK, ControlTypeOK
  <2> QED
    BY <1>5, <1>7, <2>1 DEF ResumeMessage, loopVars
<1>8. ASSUME NEW s \in Sockets, CloseHandler(s), UNCHANGED asked PROVE OneConnection'
  BY <1>2, <1>3, <1>8 DEF CloseHandler
<1>9. ASSUME NEW s \in Sockets, Close(s) PROVE OneConnection'
  BY <1>8, <1>9 DEF Close, askVars
<1>10. ASSUME RunDeferred PROVE OneConnection'
  <2>1. asked' = asked
    BY <1>1, <1>10, DeferredEffects
  <2>2. CASE sock' = sock
    BY <1>3, <2>1, <2>2
  <2>3. sock' = sock \/ \E s \in Sockets : CloseHandler(s)
    BY <1>1, <1>10, DeferredEffects DEF loopVars, Seats, SeatSocket
  <2> QED
    BY <1>8, <2>1, <2>2, <2>3
<1>11. ASSUME Restart PROVE OneConnection'
  BY <1>2, <1>3, <1>11 DEF Restart, clientVars, askVars
<1>12. ASSUME NEW s \in Sockets, \/ MoveMessage(s)
                                 \/ \E result \in Results, winner \in Users \cup {None} :
                                      FinalMove(s, result, winner)
       PROVE  OneConnection'
  BY <1>3, <1>12 DEF MoveMessage, FinalMove, askVars
<1>13. ASSUME NEW w \in Workers, Take(w) \/ WorkerStep(w) PROVE OneConnection'
  BY <1>3, <1>13 DEF Take, WorkerStep, VerifyMatchTicket, Resolve, Mint, Report, loopVars,
     clientVars, askVars
<1>14. ASSUME NEW t \in Tokens, ExpireToken(t) PROVE OneConnection'
  BY <1>3, <1>14 DEF ExpireToken, loopVars, clientVars, askVars
<1> QED
  BY <1>4, <1>6, <1>7, <1>9, <1>10, <1>11, <1>12, <1>13, <1>14 DEF Next

(* A room that goes was decided, lost in a crash, or left by all. *)
RoomsHeld ==
  \A m \in live \ live' :
    \/ announced'[m] # announced[m]
    \/ restarts' # restarts
    \/ \A s \in Sockets : bound'[s] # None => bound'[s].match # m

(* It is enough to look at who is bound after the step. *)
LEMMA BoundNext ==
  ASSUME \A r \in Sockets : bound'[r] # None =>
           /\ bound'[r].match \in live' => seat'[bound'[r].match][bound'[r].color] = r
           /\ bound'[r].match \in live' \/ announced'[bound'[r].match] # << >>
  PROVE  BoundSocketsAreSeated' /\ BoundToRooms'
BY DEF BoundSocketsAreSeated, BoundToRooms, Room, Seated

(* One who leaves frees a seat, and the room only of nobody. *)
LEMMA CloseHolds ==
  ASSUME LedgerInv, NEW s \in Sockets, CloseHandler(s), announced' = announced
  PROVE  BoundSocketsAreSeated' /\ BoundToRooms' /\ RoomsHeld
<1>1. SeatsInv /\ BoundSocketsAreSeated /\ BoundToRooms
  BY DEF LedgerInv
<1>2. /\ bound' = [bound EXCEPT ![s] = None]
      /\ seat' = SeatsWithout(s)
      /\ live' = IF LeavesEmpty(s) THEN live \ {Room(s)} ELSE live
  BY DEF CloseHandler
<1>3. ASSUME NEW r \in Sockets, bound'[r] # None
      PROVE  /\ r # s /\ bound'[r] = bound[r] /\ bound[r] \in Claims
             /\ bound[r].match \in Matches /\ bound[r].color \in Colors
             /\ bound[r].match \in live => seat[bound[r].match][bound[r].color] = r
             /\ bound[r].match \in live \/ announced[bound[r].match] # << >>
  <2>1. r # s /\ bound'[r] = bound[r] /\ bound[r] \in Claims
    BY <1>1, <1>2, <1>3, SeatTyped
  <2> QED
    BY <1>1, <1>3, <2>1, ClaimFields DEF BoundSocketsAreSeated, BoundToRooms, Room, Seated
<1>4. CASE ~(bound[s] # None /\ Room(s) \in live)
  <2>1. seat' = seat /\ live' = live
    BY <1>2, <1>4 DEF SeatsWithout, LeavesEmpty
  <2>2. BoundSocketsAreSeated' /\ BoundToRooms'
    BY <1>3, <2>1, BoundNext
  <2> QED
    BY <2>1, <2>2 DEF RoomsHeld
<1>5. CASE bound[s] # None /\ Room(s) \in live
  <2> DEFINE m == Room(s)
  <2>1. /\ seat' = [seat EXCEPT ![m][bound[s].color] = None]
        /\ m \in live /\ m \in Matches /\ bound[s].color \in Colors
        /\ seat[m][bound[s].color] = s
    BY <1>1, <1>2, <1>5, SeatTyped, ClaimFields
    DEF SeatsWithout, Room, BoundSocketsAreSeated, Seated
  <2> HIDE DEF m
  <2>2. ASSUME NEW r \in Sockets, bound'[r] # None, bound[r].match \in live
        PROVE  seat'[bound[r].match][bound[r].color] = r
    <3>1. r # s /\ bound[r].match \in Matches /\ bound[r].color \in Colors
          /\ seat[bound[r].match][bound[r].color] = r
      BY <1>3, <2>2
    <3>2. bound[r].match # m \/ bound[r].color # bound[s].color
      BY <2>1, <3>1
    <3> QED
      BY <1>1, <2>1, <3>1, <3>2, SeatTyped
  <2>3. ASSUME NEW r \in Sockets, bound'[r] # None, LeavesEmpty(s)
        PROVE  bound[r].match # m
    <3> SUFFICES ASSUME bound[r].match = m PROVE FALSE
      OBVIOUS
    <3>1. seat'[m] = Vacant
      BY <1>2, <2>3 DEF LeavesEmpty, m
    <3>2. seat'[m][bound[r].color] = r /\ bound[r].color \in Colors
      BY <1>3, <2>1, <2>2, <2>3
    <3> QED
      BY <3>1, <3>2, ServerAssumption DEF Vacant
  <2>4. live' \subseteq live /\ (LeavesEmpty(s) \/ live' = live)
        /\ \A n \in live : n \notin live' => n = m
    BY <1>2 DEF m
  <2>5. BoundSocketsAreSeated' /\ BoundToRooms'
    <3>1. ASSUME NEW r \in Sockets, bound'[r] # None
          PROVE  /\ bound'[r].match \in live' => seat'[bound'[r].match][bound'[r].color] = r
                 /\ bound'[r].match \in live' \/ announced'[bound'[r].match] # << >>
      <4>1. bound'[r] = bound[r]
        BY <1>3, <3>1
      <4>2. bound[r].match \in live' => seat'[bound[r].match][bound[r].color] = r
        BY <2>2, <2>4, <3>1
      <4>3. bound[r].match \in live => bound[r].match \in live'
        BY <2>3, <2>4, <3>1
      <4>4. bound[r].match \in live \/ announced[bound[r].match] # << >>
        BY <1>3, <3>1
      <4> QED
        BY <4>1, <4>2, <4>3, <4>4
    <3> QED
      BY <3>1, BoundNext
  <2>6. RoomsHeld
    <3>1. ASSUME NEW n \in live \ live', NEW r \in Sockets, bound'[r] # None
          PROVE  bound'[r].match # n
      BY <1>3, <2>3, <2>4, <3>1
    <3> QED
      BY <3>1 DEF RoomsHeld
  <2> QED
    BY <2>5, <2>6
<1> QED
  BY <1>4, <1>5

(* One who takes a seat takes it from nobody: there is one ticket for it,  *)
(* and one open connection that asked with it.                             *)
LEMMA SeatingHolds ==
  ASSUME FairPlay, LedgerInv, NEW s \in Sockets, NEW c \in Claims,
         NEW t \in Tokens \cup {None}, Seats(s, c, t), asked[s] = c, announced' = announced
  PROVE  BoundSocketsAreSeated' /\ BoundToRooms' /\ RoomsHeld
<1>1. SeatsInv /\ BoundSocketsAreSeated /\ BoundToRooms /\ OneConnection /\ GamesArrive
      /\ AsksInv
  BY LedgerTypes DEF LedgerInv
<1>2. /\ bound' = [bound EXCEPT ![s] = c]
      /\ seat' = [seat EXCEPT ![c.match][c.color] = s]
      /\ live' = live \cup {c.match}
      /\ c.match \notin live => ~Arrived(c)
      /\ sock[s] = "open"
  BY DEF Seats, SeatSocket
<1>3. c.match \in Matches /\ c.color \in Colors /\ c # None
  BY ClaimFields
<1>4. ASSUME NEW r \in Sockets, r # s, bound'[r] # None
      PROVE  /\ bound'[r] = bound[r]
             /\ bound[r].match \in live' => seat'[bound[r].match][bound[r].color] = r
             /\ bound[r].match \in live' \/ announced[bound[r].match] # << >>
  <2>1. bound'[r] = bound[r] /\ bound[r] \in Claims
    BY <1>1, <1>2, <1>4, SeatTyped
  <2>2. bound[r].match \in Matches /\ bound[r].color \in Colors
    BY <2>1, ClaimFields
  <2>3. bound[r].match \in live \/ announced[bound[r].match] # << >>
    BY <1>1, <1>4, <2>1 DEF BoundToRooms, Room
  <2>4. CASE bound[r].match \in live
    <3>1. seat[bound[r].match][bound[r].color] = r
      BY <1>1, <1>4, <2>1, <2>4 DEF BoundSocketsAreSeated, Room, Seated
    <3>2. bound[r].match # c.match \/ bound[r].color # c.color
      <4> SUFFICES ASSUME bound[r].match = c.match, bound[r].color = c.color PROVE FALSE
        OBVIOUS
      <4>1. bound[r] = c
        BY <2>1, OneTicketPerSeat DEF FairPlay
      <4>2. sock[r] = "open" /\ asked[r] = c
        BY <1>1, <2>2, <3>1, <4>1, SeatFacts
      <4> QED
        BY <1>1, <1>2, <1>3, <1>4, <4>2 DEF OneConnection
    <3>3. seat'[bound[r].match][bound[r].color] = r
      BY <1>1, <1>2, <1>3, <2>2, <3>1, <3>2, SeatTyped
    <3> QED
      BY <1>2, <2>1, <2>4, <3>3
  <2>5. CASE bound[r].match \notin live
    <3>1. announced[bound[r].match] # << >>
      BY <2>3, <2>5
    <3>2. bound[r].match # c.match
      BY <1>1, <1>2, <1>3, <2>5, <3>1 DEF GamesArrive
    <3> QED
      BY <1>2, <2>1, <2>5, <3>1, <3>2
  <2> QED
    BY <2>4, <2>5
<1>5. bound'[s] = c /\ seat'[c.match][c.color] = s
  BY <1>1, <1>2, <1>3, SeatTyped
<1>6. BoundSocketsAreSeated' /\ BoundToRooms'
  <2>1. ASSUME NEW r \in Sockets, bound'[r] # None
        PROVE  /\ bound'[r].match \in live' => seat'[bound'[r].match][bound'[r].color] = r
               /\ bound'[r].match \in live' \/ announced'[bound'[r].match] # << >>
    <3>1. CASE r = s
      BY <1>2, <1>5, <3>1
    <3>2. CASE r # s
      BY <1>4, <2>1, <3>2
    <3> QED
      BY <3>1, <3>2
  <2> QED
    BY <2>1, BoundNext
<1> QED
  BY <1>2, <1>6 DEF RoomsHeld

LEMMA BoundStep ==
  ASSUME FairPlay, LedgerInv, SeatsInv', Next
  PROVE  BoundSocketsAreSeated' /\ BoundToRooms' /\ RoomsHeld
<1>1. PlayInv /\ TypeOK /\ SeatsInv /\ BoundSocketsAreSeated /\ BoundToRooms /\ GamesArrive
  BY LedgerTypes DEF LedgerInv
<1>2. ASSUME UNCHANGED <<bound, live, seat, announced>>
      PROVE  BoundSocketsAreSeated' /\ BoundToRooms' /\ RoomsHeld
  BY <1>1, <1>2 DEF BoundSocketsAreSeated, BoundToRooms, RoomsHeld, Room, Seated
<1>3. ASSUME NEW s \in Sockets, NEW result \in Results, NEW winner \in Users \cup {None},
             FinalMove(s, result, winner)
      PROVE  BoundSocketsAreSeated' /\ BoundToRooms' /\ RoomsHeld
  <2> DEFINE m == Room(s)
  <2>1. /\ m \in Matches /\ live' = live \ {m} /\ bound' = bound
        /\ seat' = [seat EXCEPT ![m] = Vacant]
        /\ announced' = [announced EXCEPT ![m] = Append(announced[m], result)]
        /\ m \in live
    BY <1>1, <1>3 DEF TypeOK, FinalMove, CanMove, EraseRoom
  <2> HIDE DEF m
  <2>2. announced[m] = << >>
    BY <1>1, <2>1 DEF GamesArrive
  <2>3. announced'[m] # << >> /\ \A n \in Matches \ {m} : announced'[n] = announced[n]
    BY <1>1, <2>1, <2>2 DEF TypeOK
  <2>4. ASSUME NEW r \in Sockets, bound'[r] # None
        PROVE  /\ bound'[r].match \in live' => seat'[bound'[r].match][bound'[r].color] = r
               /\ bound'[r].match \in live' \/ announced'[bound'[r].match] # << >>
    <3>1. bound'[r] = bound[r] /\ bound[r].match \in Matches
      BY <1>1, <2>1, <2>4, ClaimFields DEF TypeOK
    <3>2. /\ bound[r].match \in live => seat[bound[r].match][bound[r].color] = r
          /\ bound[r].match \in live \/ announced[bound[r].match] # << >>
      BY <1>1, <2>4, <3>1 DEF BoundSocketsAreSeated, BoundToRooms, Room, Seated
    <3>3. CASE bound[r].match = m
      BY <2>1, <2>3, <3>1, <3>3
    <3>4. CASE bound[r].match # m
      BY <1>1, <2>1, <2>3, <3>1, <3>2, <3>4 DEF TypeOK
    <3> QED
      BY <3>3, <3>4
  <2>5. RoomsHeld
    BY <2>1, <2>2, <2>3 DEF RoomsHeld
  <2> QED
    BY <2>4, <2>5, BoundNext
<1>4. ASSUME NEW s \in Sockets, Close(s)
      PROVE  BoundSocketsAreSeated' /\ BoundToRooms' /\ RoomsHeld
  BY <1>4, CloseHolds DEF Close
<1>5. ASSUME RunDeferred
      PROVE  BoundSocketsAreSeated' /\ BoundToRooms' /\ RoomsHeld
  <2>1. announced' = announced /\ asked' = asked
    BY <1>1, <1>5, DeferredEffects
  <2>2. CASE UNCHANGED <<loopVars, clientVars>>
    BY <1>2, <2>2 DEF loopVars, clientVars
  <2>3. ASSUME NEW s \in Sockets, NEW c \in Claims, NEW t \in Tokens \cup {None}, Seats(s, c, t)
        PROVE  asked[s] = c
    <3>1. bound'[s] = c /\ c # None
      BY <1>1, <2>3, ClaimFields DEF TypeOK, Seats, SeatSocket
    <3> QED
      BY <2>1, <3>1 DEF SeatsInv, AsksInv
  <2>4. CASE \E s \in Sockets, c \in Claims, t \in Tokens \cup {None} : Seats(s, c, t)
    BY <2>1, <2>3, <2>4, SeatingHolds
  <2> QED
    BY <1>1, <1>5, <2>1, <2>2, <2>4, CloseHolds, DeferredEffects
<1>6. ASSUME Restart
      PROVE  BoundSocketsAreSeated' /\ BoundToRooms' /\ RoomsHeld
  <2>1. \A r \in Sockets : bound'[r] = None
    BY <1>6 DEF Restart
  <2>2. restarts' # restarts
    BY <1>1, <1>6, ServerAssumption DEF TypeOK, Restart
  <2> QED
    BY <2>1, <2>2, BoundNext DEF RoomsHeld
<1>7. ASSUME NEW s \in Sockets, \/ Open(s) \/ MoveMessage(s)
                                \/ \E c \in Claims : JoinMessage(s, c)
                                \/ \E t \in Tokens : ResumeMessage(s, t)
      PROVE  BoundSocketsAreSeated' /\ BoundToRooms' /\ RoomsHeld
  BY <1>2, <1>7 DEF Open, MoveMessage, JoinMessage, ResumeMessage, loopVars, clientVars
<1>8. ASSUME NEW w \in Workers, Take(w) \/ WorkerStep(w)
      PROVE  BoundSocketsAreSeated' /\ BoundToRooms' /\ RoomsHeld
  BY <1>2, <1>8 DEF Take, WorkerStep, VerifyMatchTicket, Resolve, Mint, Report, loopVars,
     clientVars
<1>9. ASSUME NEW t \in Tokens, ExpireToken(t)
      PROVE  BoundSocketsAreSeated' /\ BoundToRooms' /\ RoomsHeld
  BY <1>2, <1>9 DEF ExpireToken, loopVars, clientVars
<1> QED
  BY <1>3, <1>4, <1>5, <1>6, <1>7, <1>8, <1>9 DEF Next

-----------------------------------------------------------------------------
(* Announcements, reports and rows *)

(* The column result, read back from the winner's id. *)
LEMMA WinnersResult ==
  ASSUME HonestTickets, NEW m \in Matches
  PROVE  /\ ResultOf(m, None) = "draw"
         /\ \A c \in Colors : ResultOf(m, Pairing[m][c]) = c
<1>1. Pairing[m]["white"] \in Users /\ Pairing[m]["black"] \in Users /\ None \notin Users
  BY ControlAssumption DEF Colors
<1>2. Pairing[m]["white"] # Pairing[m]["black"]
  BY DEF HonestTickets
<1>3. ResultOf(m, None) = "draw"
  BY <1>1, Zenon DEF ResultOf
<1>4. ResultOf(m, Pairing[m]["white"]) = "white"
  BY <1>1, <1>2, Zenon DEF ResultOf
<1>5. ResultOf(m, Pairing[m]["black"]) = "black"
  BY <1>1, <1>2, Zenon DEF ResultOf
<1> QED
  BY <1>3, <1>4, <1>5 DEF Colors

(* The end of a game is its first. *)
LEMMA FinalEffects ==
  ASSUME PlayInv, NEW s \in Sockets, NEW result \in Results,
         NEW winner \in Users \cup {None}, FinalMove(s, result, winner)
  PROVE  /\ Room(s) \in live /\ Room(s) \in Matches /\ live' = live \ {Room(s)}
         /\ announced[Room(s)] = << >> /\ rows[Room(s)] = << >>
         /\ announced' = [announced EXCEPT ![Room(s)] = <<result>>]
         /\ UNCHANGED <<rows, status>>
<1> DEFINE m == Room(s)
<1>1. TypeOK /\ GamesArrive /\ DecidedOnce
  BY DEF PlayInv
<1>2. /\ m \in live /\ m \in Matches /\ live' = live \ {m}
      /\ announced' = [announced EXCEPT ![m] = Append(announced[m], result)]
      /\ UNCHANGED <<rows, status>>
  BY <1>1 DEF TypeOK, FinalMove, CanMove, EraseRoom, controlVars
<1>3. announced[m] = << >> /\ rows[m] = << >>
  BY <1>1, <1>2 DEF GamesArrive, DecidedOnce
<1>4. Append(<< >>, result) = <<result>>
  OBVIOUS
<1>5. announced' = [announced EXCEPT ![m] = <<result>>]
  BY <1>2, <1>3, <1>4
<1> QED
  BY <1>2, <1>3, <1>5

(* The winner reported is the mover, whose seat is its own. *)
LEMMA FinalWinner ==
  ASSUME FairPlay, LedgerInv, NEW s \in Sockets, NEW result \in Results,
         NEW winner \in Users \cup {None}, FinalMove(s, result, winner)
  PROVE  ResultOf(Room(s), winner) = result
<1> DEFINE m == Room(s)
<1>1. TypeOK /\ BoundSocketsAreSeated
  BY LedgerTypes DEF LedgerInv
<1>2. /\ m \in live /\ m \in Matches
      /\ result \in {"draw", bound[s].color} /\ winner \in WinnerIds(m, result)
      /\ sock[s] = "open" /\ bound[s] # None /\ bound[s] \in Claims
  BY <1>1 DEF TypeOK, FinalMove, CanMove
<1>3. CASE result = "draw"
  <2>1. winner = None
    BY <1>2, <1>3 DEF WinnerIds
  <2> QED
    BY <1>2, <1>3, <2>1, WinnersResult DEF FairPlay
<1>4. CASE result # "draw"
  <2>1. result = bound[s].color /\ result \in Colors
    BY <1>2, <1>4, ClaimFields
  <2>2. seat[m][result] = s
    BY <1>1, <1>2, <2>1 DEF BoundSocketsAreSeated, Seated, Room
  <2>3. winner = bound[s].user
    BY <1>2, <1>4, <2>2, ServerAssumption DEF WinnerIds
  <2>4. winner = Pairing[m][result]
    BY <1>2, <2>1, <2>3 DEF FairPlay, HonestTickets, Room
  <2> QED
    BY <1>2, <2>1, <2>4, WinnersResult DEF FairPlay
<1> QED
  BY <1>3, <1>4

(* A report that arrives is the last of its match, and there was no row.   *)
LEMMA ReportEffects ==
  ASSUME PlayInv, NEW w \in Workers, Report(w), NEW m, m = work[w].match
  PROVE  /\ m \in Matches
         /\ announced[m] # << >> /\ rows[m] = << >>
         /\ UNCHANGED <<live, announced>>
         /\ \A x \in InFlight' : x.kind = "report" => x \in InFlight /\ x.match # m
         /\ \/ UNCHANGED <<rows, status>>
            \/ /\ rows' = [rows EXCEPT ![m] = <<ResultOf(m, work[w].winner)>>]
               /\ status' = [status EXCEPT ![m] = "completed"]
<1>1. TypeOK /\ FlightOnce /\ ReportsOnce
  BY DEF PlayInv
<1>2. /\ work[w].kind = "report" /\ work' = [work EXCEPT ![w] = Idle]
      /\ UNCHANGED <<jobs, deferred, live, announced>>
  BY DEF Report, loopVars, clientVars
<1>3. m \in Matches
  BY <1>1, <1>2, WorkFields DEF TypeOK
<1>4. rows[m] = << >> /\ announced[m] # << >>
  <2>1. work[w] \in InFlight
    BY DEF InFlight
  <2> QED
    BY <1>1, <1>2, <2>1 DEF ReportsOnce
<1>6. ASSUME NEW x \in InFlight', x.kind = "report"
      PROVE  x \in InFlight /\ x.match # m
  <2>1. Elements(jobs') = Elements(jobs) /\ Elements(deferred') = Elements(deferred)
    BY <1>2
  <2>2. work'[w] = Idle /\ \A v \in Workers \ {w} : work'[v] = work[v]
    BY <1>1, <1>2 DEF TypeOK
  <2>3. Idle.kind # "report"
    BY DEF Idle
  <2>4. /\ \A y \in Elements(jobs) : ~Same(y, work[w])
        /\ \A y \in Elements(deferred) : ~Same(work[w], y)
        /\ \A v \in Workers \ {w} : ~Same(work[v], work[w])
    BY <1>1 DEF FlightOnce
  <2>5. CASE x \in Elements(jobs)
    BY <1>2, <1>6, <2>4, <2>5 DEF Same, InFlight
  <2>6. CASE x \in Elements(deferred)
    BY <1>2, <1>6, <2>4, <2>6 DEF Same, InFlight
  <2>7. ASSUME NEW v \in Workers, x = work'[v]
        PROVE  x \in InFlight /\ x.match # m
    <3>1. v # w /\ x = work[v]
      BY <1>6, <2>2, <2>3, <2>7
    <3> QED
      BY <1>2, <1>6, <2>4, <3>1 DEF Same, InFlight
  <2> QED
    BY <2>1, <2>5, <2>6, <2>7 DEF InFlight
<1>7. CASE UNCHANGED controlVars
  BY <1>2, <1>3, <1>4, <1>6, <1>7 DEF controlVars
<1>8. CASE ReportGameEnd(m, work[w].winner)
  <2>1. /\ rows' = [rows EXCEPT ![m] = Append(rows[m], ResultOf(m, work[w].winner))]
        /\ status' = [status EXCEPT ![m] = "completed"]
    BY <1>8 DEF ReportGameEnd
  <2>2. Append(<< >>, ResultOf(m, work[w].winner)) = <<ResultOf(m, work[w].winner)>>
    OBVIOUS
  <2> QED
    BY <1>2, <1>3, <1>4, <1>6, <2>1, <2>2
<1> QED
  BY <1>7, <1>8 DEF Report

(* When reports are true, what it stores is what was announced. *)
LEMMA StoredEffects ==
  ASSUME LedgerInv, NEW w \in Workers, Report(w)
  PROVE  /\ work[w].match \in Matches
         /\ announced[work[w].match] # << >> /\ rows[work[w].match] = << >>
         /\ UNCHANGED <<live, announced>>
         /\ \A x \in InFlight' : x.kind = "report" => x \in InFlight
         /\ rows' = rows \/ rows' = [rows EXCEPT ![work[w].match] = announced[work[w].match]]
<1>1. PlayInv /\ ReportsTrue
  BY DEF LedgerInv
<1>2. work[w] \in InFlight /\ work[w].kind = "report"
  BY DEF InFlight, Report
<1>3. announced[work[w].match] = <<ResultOf(work[w].match, work[w].winner)>>
  BY <1>1, <1>2 DEF ReportsTrue
<1> QED
  BY <1>1, <1>3, ReportEffects

(* Nothing else announces or stores a result. *)
LEMMA OtherEffects ==
  ASSUME Next, ~\E w \in Workers : Report(w),
         ~\E s \in Sockets, result \in Results, winner \in Users \cup {None} :
             FinalMove(s, result, winner)
  PROVE  UNCHANGED <<announced, rows, status>>
<1> USE DEF clientVars, controlVars
<1>1. ASSUME NEW s \in Sockets, \/ Open(s) \/ MoveMessage(s) \/ Close(s)
                                \/ \E c \in Claims : JoinMessage(s, c)
                                \/ \E t \in Tokens : ResumeMessage(s, t)
      PROVE  UNCHANGED <<announced, rows, status>>
  BY <1>1 DEF Open, MoveMessage, Close, JoinMessage, ResumeMessage
<1>2. ASSUME NEW w \in Workers, Take(w) \/ VerifyMatchTicket(w) \/ Resolve(w)
                                \/ \E t \in Tokens \cup {None} : Mint(w, t)
      PROVE  UNCHANGED <<announced, rows, status>>
  BY <1>2 DEF Take, VerifyMatchTicket, Resolve, ResolveResumeToken, Mint, CreateResumeToken
<1>3. ASSUME NEW t \in Tokens, ExpireToken(t)
      PROVE  UNCHANGED <<announced, rows, status>>
  BY <1>3 DEF ExpireToken, ExpireResumeToken
<1>4. ASSUME RunDeferred PROVE UNCHANGED <<announced, rows, status>>
  BY <1>4 DEF RunDeferred, DeferredJoin, DeferredResume, SeatSocket
<1>5. ASSUME Restart PROVE UNCHANGED <<announced, rows, status>>
  BY <1>5 DEF Restart
<1> QED
  BY <1>1, <1>2, <1>3, <1>4, <1>5 DEF Next, WorkerStep

LEMMA DecidedStep ==
  ASSUME OneTicketEach, PlayInv, Next
  PROVE  ReportsOnce' /\ DecidedOnce'
<1>1. TypeOK /\ ReportsOnce /\ DecidedOnce
  BY DEF PlayInv
<1>2. ASSUME NEW s \in Sockets, NEW result \in Results, NEW winner \in Users \cup {None},
             FinalMove(s, result, winner)
      PROVE  ReportsOnce' /\ DecidedOnce'
  <2> DEFINE m == Room(s)
             x == [kind |-> "report", match |-> m, winner |-> winner]
  <2>1. /\ m \in Matches /\ announced[m] = << >> /\ rows[m] = << >>
        /\ announced' = [announced EXCEPT ![m] = <<result>>]
        /\ rows' = rows /\ status' = status
    BY <1>2, FinalEffects
  <2>2. InFlight' \subseteq InFlight \cup {Idle, x}
    BY <1>2, FinalFlight
  <2>3. x.kind = "report" /\ x.match = m /\ Idle.kind # "report"
    BY DEF Idle
  <2> HIDE DEF m, x
  <2>4. announced'[m] = <<result>> /\ \A n \in Matches \ {m} : announced'[n] = announced[n]
    BY <1>1, <2>1 DEF TypeOK
  <2>5. <<result>> # << >> /\ Len(<<result>>) <= 1
    OBVIOUS
  <2>6. ASSUME NEW y \in InFlight', y.kind = "report"
        PROVE  rows'[y.match] = << >> /\ announced'[y.match] # << >>
    <3>1. CASE y \in InFlight
      <4>1. rows[y.match] = << >> /\ announced[y.match] # << >>
        BY <1>1, <2>6, <3>1 DEF ReportsOnce
      <4>2. y.match \in Matches
        BY <1>1, <2>6, <3>1, InFlightTypes, WorkFields DEF Replies
      <4> QED
        BY <2>1, <2>4, <2>5, <4>1, <4>2
    <3>2. CASE y = x
      BY <2>1, <2>3, <2>4, <2>5, <3>2
    <3> QED
      BY <2>2, <2>3, <2>6, <3>1, <3>2
  <2>7. ReportsOnce'
    BY <2>6 DEF ReportsOnce
  <2>8. DecidedOnce'
    <3>1. ASSUME NEW n \in Matches
          PROVE  /\ Len(announced'[n]) <= 1 /\ Len(rows'[n]) <= 1
                 /\ rows'[n] # << >> \/ status'[n] = "completed" => announced'[n] # << >>
      <4>1. CASE n = m
        BY <1>1, <2>1, <2>4, <2>5, <4>1 DEF DecidedOnce, OneResultPerMatch
      <4>2. CASE n # m
        BY <1>1, <2>1, <2>4, <4>2 DEF DecidedOnce, OneResultPerMatch
      <4> QED
        BY <4>1, <4>2
    <3> QED
      BY <3>1 DEF DecidedOnce, OneResultPerMatch
  <2> QED
    BY <2>7, <2>8
<1>3. ASSUME NEW w \in Workers, Report(w)
      PROVE  ReportsOnce' /\ DecidedOnce'
  <2> DEFINE m == work[w].match
             result == ResultOf(m, work[w].winner)
  <2>1. /\ m \in Matches /\ announced[m] # << >> /\ announced' = announced
        /\ \A x \in InFlight' : x.kind = "report" => x \in InFlight /\ x.match # m
        /\ \/ rows' = rows /\ status' = status
           \/ /\ rows' = [rows EXCEPT ![m] = <<result>>]
              /\ status' = [status EXCEPT ![m] = "completed"]
    BY <1>3, ReportEffects
  <2> HIDE DEF m, result
  <2>2. \/ rows' = rows /\ status' = status
        \/ /\ rows'[m] = <<result>>
           /\ \A n \in Matches \ {m} : rows'[n] = rows[n] /\ status'[n] = status[n]
    BY <1>1, <2>1 DEF TypeOK, ControlTypeOK
  <2>3. ASSUME NEW y \in InFlight', y.kind = "report"
        PROVE  rows'[y.match] = << >> /\ announced'[y.match] # << >>
    <3>1. y \in InFlight /\ y.match # m
      BY <2>1, <2>3
    <3>2. y.match \in Matches
      BY <1>1, <2>3, <3>1, InFlightTypes, WorkFields DEF Replies
    <3> QED
      BY <1>1, <2>1, <2>2, <2>3, <3>1, <3>2 DEF ReportsOnce
  <2>4. ReportsOnce'
    BY <2>3 DEF ReportsOnce
  <2>5. Len(<<result>>) <= 1
    OBVIOUS
  <2>6. DecidedOnce'
    BY <1>1, <2>1, <2>2, <2>5 DEF DecidedOnce, OneResultPerMatch
  <2> QED
    BY <2>4, <2>6
<1>4. ASSUME UNCHANGED <<announced, rows, status>>, Grows
      PROVE  ReportsOnce' /\ DecidedOnce'
  <2>1. PICK x : Origin(x) /\ InFlight' \subseteq InFlight \cup {Idle, x}
    BY <1>4 DEF Grows
  <2>2. x.kind # "report" /\ Idle.kind # "report"
    BY <1>4, <2>1 DEF Origin, Idle
  <2>3. ReportsOnce'
    BY <1>1, <1>4, <2>1, <2>2 DEF ReportsOnce
  <2>4. DecidedOnce'
    BY <1>1, <1>4 DEF DecidedOnce, OneResultPerMatch
  <2> QED
    BY <2>3, <2>4
<1> QED
  BY <1>2, <1>3, <1>4, OtherEffects, FlightStep

LEMMA RowsStep ==
  ASSUME FairPlay, LedgerInv, Next
  PROVE  ReportsTrue' /\ Ledgers'
<1>1. PlayInv /\ TypeOK /\ ReportsTrue /\ Ledgers /\ OneTicketEach
  BY LedgerTypes DEF LedgerInv, FairPlay, OneTicketEach
<1>2. ASSUME NEW s \in Sockets, NEW result \in Results, NEW winner \in Users \cup {None},
             FinalMove(s, result, winner)
      PROVE  ReportsTrue' /\ Ledgers'
  <2> DEFINE m == Room(s)
             x == [kind |-> "report", match |-> m, winner |-> winner]
  <2>1. /\ m \in Matches /\ announced[m] = << >> /\ rows[m] = << >>
        /\ announced' = [announced EXCEPT ![m] = <<result>>]
        /\ rows' = rows
    BY <1>1, <1>2, FinalEffects
  <2>2. InFlight' \subseteq InFlight \cup {Idle, x}
    BY <1>1, <1>2, FinalFlight
  <2>3. ResultOf(m, winner) = result
    BY <1>2, FinalWinner
  <2>4. x.kind = "report" /\ x.match = m /\ x.winner = winner /\ Idle.kind # "report"
    BY DEF Idle
  <2> HIDE DEF m, x
  <2>5. announced'[m] = <<result>> /\ \A n \in Matches \ {m} : announced'[n] = announced[n]
    BY <1>1, <2>1 DEF TypeOK
  <2>6. ASSUME NEW y \in InFlight', y.kind = "report"
        PROVE  announced'[y.match] = <<ResultOf(y.match, y.winner)>>
    <3>1. CASE y \in InFlight
      <4>1. announced[y.match] = <<ResultOf(y.match, y.winner)>>
        BY <1>1, <2>6, <3>1 DEF ReportsTrue
      <4>2. y.match \in Matches
        BY <1>1, <2>6, <3>1, InFlightTypes, WorkFields DEF Replies
      <4>3. announced[y.match] # << >>
        BY <4>1
      <4>4. y.match # m
        BY <2>1, <4>3
      <4> QED
        BY <2>5, <4>1, <4>2, <4>4
    <3>2. CASE y = x
      BY <2>3, <2>4, <2>5, <3>2
    <3> QED
      BY <2>2, <2>4, <2>6, <3>1, <3>2
  <2>7. Ledgers'
    <3>1. ASSUME NEW n \in Matches
          PROVE  rows'[n] = << >> \/ rows'[n] = announced'[n]
      <4>1. CASE n = m
        BY <2>1, <4>1
      <4>2. CASE n # m
        BY <1>1, <2>1, <2>5, <4>2 DEF Ledgers
      <4> QED
        BY <4>1, <4>2
    <3> QED
      BY <3>1 DEF Ledgers
  <2> QED
    BY <2>6, <2>7 DEF ReportsTrue
<1>3. ASSUME NEW w \in Workers, Report(w)
      PROVE  ReportsTrue' /\ Ledgers'
  <2>1. /\ announced' = announced
        /\ \A x \in InFlight' : x.kind = "report" => x \in InFlight
        /\ rows' = rows \/ rows' = [rows EXCEPT ![work[w].match] = announced[work[w].match]]
    BY <1>3, StoredEffects
  <2>2. ReportsTrue'
    BY <1>1, <2>1 DEF ReportsTrue
  <2>3. Ledgers'
    BY <1>1, <2>1 DEF Ledgers, TypeOK, ControlTypeOK
  <2> QED
    BY <2>2, <2>3
<1>4. ASSUME UNCHANGED <<announced, rows, status>>, Grows
      PROVE  ReportsTrue' /\ Ledgers'
  <2>1. PICK x : Origin(x) /\ InFlight' \subseteq InFlight \cup {Idle, x}
    BY <1>4 DEF Grows
  <2>2. x.kind # "report" /\ Idle.kind # "report"
    BY <1>4, <2>1 DEF Origin, Idle
  <2>3. ReportsTrue'
    BY <1>1, <1>4, <2>1, <2>2 DEF ReportsTrue
  <2>4. Ledgers'
    BY <1>1, <1>4 DEF Ledgers
  <2> QED
    BY <2>3, <2>4
<1> QED
  BY <1>1, <1>2, <1>3, <1>4, OtherEffects, FlightStep

-----------------------------------------------------------------------------
LEMMA PlayStep ==
  ASSUME OneTicketEach, PlayInv, [Next]_vars
  PROVE  PlayInv'
<1>1. TypeOK /\ TypeOK'
  BY TypeStep DEF PlayInv
<1>2. CASE Next
  <2>1. TokensKept /\ used \subseteq used'
    BY <1>1, <1>2, TokensStep, UsedKept
  <2>2. FlightOnce' /\ Grows
    BY <1>2, FlightStep
  <2>3. \A c : Arrived(c) => ArrivedNext(c)
    BY <2>1, <2>2, ArrivedKept DEF PlayInv
  <2>4. FlightHonest'
    BY <2>1, <2>2, HonestStep
  <2>5. PlayersArrive' /\ GamesArrive'
    BY <1>2, <2>1, <2>3, PlayersStep, GamesStep DEF OneTicketEach
  <2>6. ReportsOnce' /\ DecidedOnce'
    BY <1>2, DecidedStep
  <2> QED
    BY <1>1, <2>2, <2>4, <2>5, <2>6 DEF PlayInv
<1>3. CASE UNCHANGED vars
  <2>1. UNCHANGED <<loopVars, poolVars, clientVars, controlVars>>
    BY <1>3 DEF vars
  <2>2. UNCHANGED <<bound, live, plies, jobs, work, deferred, used, known, announced,
                    store, grant, rows, status>>
    BY <2>1 DEF loopVars, poolVars, clientVars, askVars, controlVars
  <2>3. InFlight' = InFlight
    BY <2>2 DEF InFlight, Elements
  <2>4. FlightOnce'
    BY <2>2 DEF PlayInv, FlightOnce, OnceIn, Elements
  <2>5. FlightHonest' /\ PlayersArrive' /\ GamesArrive'
    BY <2>2, <2>3 DEF PlayInv, FlightHonest, Honest, Restores, PlayersArrive, GamesArrive, Arrived
  <2>6. ReportsOnce' /\ DecidedOnce'
    BY <2>2, <2>3 DEF PlayInv, ReportsOnce, DecidedOnce, OneResultPerMatch
  <2> QED
    BY <1>1, <2>4, <2>5, <2>6 DEF PlayInv
<1> QED
  BY <1>2, <1>3

LEMMA LedgerStep ==
  ASSUME FairPlay, LedgerInv, [Next]_vars
  PROVE  LedgerInv'
<1>1. "rebind" \notin ClientMay /\ OneTicketEach
  BY DEF FairPlay, OneTicketEach
<1>2. SeatsInv' /\ PlayInv'
  BY <1>1, SeatsStep, PlayStep DEF LedgerInv
<1>3. CASE Next
  BY <1>2, <1>3, OneConnectionStep, BoundStep, RowsStep DEF LedgerInv
<1>4. CASE UNCHANGED vars
  <2>1. UNCHANGED <<loopVars, poolVars, clientVars, controlVars>>
    BY <1>4 DEF vars
  <2>2. UNCHANGED <<sock, bound, live, seat, jobs, work, deferred, asked, announced, rows>>
    BY <2>1 DEF loopVars, poolVars, clientVars, askVars, controlVars
  <2>3. InFlight' = InFlight
    BY <2>2 DEF InFlight, Elements
  <2>4. OneConnection' /\ BoundSocketsAreSeated' /\ BoundToRooms'
    BY <2>2 DEF LedgerInv, OneConnection, BoundSocketsAreSeated, BoundToRooms, Seated, Room
  <2>5. ReportsTrue' /\ Ledgers'
    BY <2>2, <2>3 DEF LedgerInv, ReportsTrue, Ledgers
  <2> QED
    BY <1>2, <2>4, <2>5 DEF LedgerInv
<1> QED
  BY <1>3, <1>4

-----------------------------------------------------------------------------
(* With clients that show a ticket once, a match is played to one result   *)
(* and has one row at most in games: no resume token, overlapping          *)
(* reconnect, second ask on a connection, crash or late answer builds its  *)
(* room again once it was decided (deferred join, game-over branch,        *)
(* ReportGameEnd).  A ticket shown again would; nothing refuses it.        *)
THEOREM OneResult ==
  ASSUME OneTicketEach
  PROVE  Spec => []OneResultPerMatch
<1>1. PlayInv => OneResultPerMatch
  BY DEF PlayInv, DecidedOnce
<1>2. PlayInv /\ [Next]_vars => PlayInv'
  BY PlayStep
<1> QED
  BY <1>1, <1>2, PlayInit, PTL DEF Spec

(* With clients that show a ticket once, matches.status says 'completed'   *)
(* only of a match that is over and is not played again, however clients   *)
(* reconnect (ReportGameEnd, deferred join).                               *)
THEOREM CompletedCorrect ==
  ASSUME OneTicketEach
  PROVE  Spec => []CompletedMeansOver
<1>1. PlayInv => CompletedMeansOver
  BY DEF PlayInv, DecidedOnce, GamesArrive, CompletedMeansOver
<1>2. PlayInv /\ [Next]_vars => PlayInv'
  BY PlayStep
<1> QED
  BY <1>1, <1>2, PlayInit, PTL DEF Spec

(* With clients that show a ticket once and reconnect only after the       *)
(* server closed the old connection, whoever the server bound to a running *)
(* game holds its seat: no order of late joins, resumes, refusals and      *)
(* closes leaves a player whose moves it takes and who hears nothing.      *)
THEOREM BoundCorrect ==
  ASSUME FairPlay
  PROVE  Spec => []BoundSocketsAreSeated
<1>1. LedgerInv => BoundSocketsAreSeated
  BY DEF LedgerInv
<1>2. LedgerInv /\ [Next]_vars => LedgerInv'
  BY LedgerStep
<1> QED
  BY <1>1, <1>2, LedgerInit, PTL DEF Spec

(* With such clients a stored game has the result its players were told:   *)
(* the id the worker reports, read through the winner's seat, is turned    *)
(* back into the color that was announced (game-over branch,               *)
(* ReportGameEnd).  After an overlapping reconnect the seat may be empty,  *)
(* and a draw is stored.                                                   *)
THEOREM RowsCorrect ==
  ASSUME FairPlay
  PROVE  Spec => []RowsFollowAnnouncements
<1>1. LedgerInv => RowsFollowAnnouncements
  <2> SUFFICES ASSUME LedgerInv, NEW m \in Matches, NEW i \in DOMAIN rows[m]
               PROVE  \E j \in DOMAIN announced[m] : rows[m][i] = announced[m][j]
    BY DEF RowsFollowAnnouncements
  <2>1. rows[m] # << >>
    OBVIOUS
  <2>2. rows[m] = announced[m]
    BY <2>1 DEF LedgerInv, Ledgers
  <2> QED
    BY <2>2
<1>2. LedgerInv /\ [Next]_vars => LedgerInv'
  BY LedgerStep
<1> QED
  BY <1>1, <1>2, LedgerInit, PTL DEF Spec

(* With such clients a room is never erased under a player who is bound to *)
(* it and connected, except by the end of its game or of the process       *)
(* (close handler).  Under an overlapping reconnect it is.                 *)
THEOREM RoomsOutlive ==
  ASSUME FairPlay
  PROVE  Spec => RoomOutlivesItsPlayers
<1>1. LedgerInv /\ [Next]_vars => LedgerInv'
  BY LedgerStep
<1>2. LedgerInv /\ [Next]_vars => [RoomsHeld]_vars
  <2>1. ASSUME LedgerInv, Next PROVE RoomsHeld
    BY <1>1, <2>1, BoundStep DEF LedgerInv
  <2> QED
    BY <2>1
<1>3. Spec => [][RoomsHeld]_vars
  BY <1>1, <1>2, LedgerInit, PTL DEF Spec
<1> QED
  BY <1>3 DEF RoomsHeld, RoomOutlivesItsPlayers

-----------------------------------------------------------------------------
(* Stored wins, when no connection asks twice: whatever tickets are shown  *)
(* again and connections overlap.                                          *)
Told(m, result) == \E j \in DOMAIN announced[m] : result = announced[m][j]

WinsReported ==
  \A x \in InFlight : x.kind = "report" =>
    ResultOf(x.match, x.winner) = "draw" \/ Told(x.match, ResultOf(x.match, x.winner))

WinsInv ==
  /\ SeatsInv
  /\ WinsReported
  /\ StoredWinsAnnounced

(* Only the end of a game puts a report on its way. *)
LEMMA OldReports ==
  ASSUME TypeOK, Next,
         ~\E s \in Sockets, result \in Results, winner \in Users \cup {None} :
             FinalMove(s, result, winner)
  PROVE  \A x \in InFlight' : x.kind = "report" => x \in InFlight
<1> DEFINE Old == \A x \in InFlight' : x.kind = "report" => x \in InFlight
<1>1. ASSUME NEW y, y.kind # "report", InFlight' \subseteq InFlight \cup {Idle, y}
      PROVE  Old
  BY <1>1 DEF Idle
<1>2. ASSUME NEW s \in Sockets, NEW c \in Claims, JoinMessage(s, c) PROVE Old
  <2> DEFINE x == [kind |-> "join", sock |-> s, claim |-> c]
  <2>1. x \in Jobs /\ x.kind # "report"
    BY DEF Jobs
  <2>2. jobs' = Append(jobs, x) /\ UNCHANGED <<work, deferred>>
    BY <1>2 DEF JoinMessage, Enqueue
  <2> HIDE DEF x
  <2> QED
    BY <1>1, <2>1, <2>2, QueuedInFlight
<1>3. ASSUME NEW s \in Sockets, NEW t \in Tokens, ResumeMessage(s, t) PROVE Old
  <2> DEFINE x == [kind |-> "resume", sock |-> s, token |-> t]
  <2>1. x \in Jobs /\ x.kind # "report"
    BY DEF Jobs
  <2>2. jobs' = Append(jobs, x) /\ UNCHANGED <<work, deferred>>
    BY <1>3 DEF ResumeMessage, Enqueue
  <2> HIDE DEF x
  <2> QED
    BY <1>1, <2>1, <2>2, QueuedInFlight
<1>4. ASSUME NEW w \in Workers, Take(w) PROVE Old
  <2>1. Head(jobs) \in Elements(jobs) /\ Elements(Tail(jobs)) \subseteq Elements(jobs)
    BY <1>4, ElementSteps DEF TypeOK, Take
  <2> QED
    BY <1>4, <2>1 DEF TypeOK, Take, InFlight, Elements
<1>5. ASSUME NEW w \in Workers, NEW c, NEW reply, Accept(w, c, reply), UNCHANGED jobs PROVE Old
  <2> DEFINE x == [kind |-> "mint", sock |-> work[w].sock, claim |-> c, reply |-> reply]
  <2>1. InFlight' \subseteq InFlight \cup {Idle, x} /\ x.kind # "report"
    BY <1>5, AcceptInFlight
  <2> HIDE DEF x
  <2> QED
    BY <1>1, <2>1
<1>6. ASSUME NEW w \in Workers, work[w].sock \in Sockets, Refuse(w), UNCHANGED jobs PROVE Old
  <2> DEFINE x == [kind |-> "refused", sock |-> work[w].sock]
  <2>1. InFlight' \subseteq InFlight \cup {Idle, x} /\ x.kind # "report"
    BY <1>6, RefuseInFlight
  <2> HIDE DEF x
  <2> QED
    BY <1>1, <2>1
<1>7. ASSUME NEW w \in Workers, VerifyMatchTicket(w) \/ Resolve(w) PROVE Old
  <2>1. work[w].sock \in Sockets
    BY <1>7, WorkFields DEF TypeOK, VerifyMatchTicket, Resolve
  <2> QED
    BY <1>5, <1>6, <1>7, <2>1 DEF VerifyMatchTicket, Resolve
<1>8. ASSUME NEW w \in Workers, NEW t \in Tokens \cup {None}, Mint(w, t) PROVE Old
  <2> DEFINE x == [kind |-> work[w].reply, sock |-> work[w].sock,
                    claim |-> work[w].claim, token |-> t]
  <2>1. /\ work[w].sock \in Sockets /\ work[w].claim \in Claims
        /\ work[w].reply \in {"joined", "resumed"}
    BY <1>8, WorkFields DEF TypeOK, Mint
  <2>2. x \in Replies /\ x.kind # "report"
    BY <2>1 DEF Replies
  <2>3. /\ work' = [work EXCEPT ![w] = Idle] /\ deferred' = Append(deferred, x)
        /\ UNCHANGED jobs
    BY <1>8 DEF Mint, Defer
  <2> HIDE DEF x
  <2>4. Elements(deferred') = Elements(deferred) \cup {x}
    BY <2>2, <2>3, ElementSteps DEF TypeOK
  <2>5. Elements(jobs') = Elements(jobs)
    BY <2>3
  <2>6. \A v \in Workers : work'[v] \in {Idle, work[v]}
    BY <2>3 DEF TypeOK
  <2> QED
    BY <1>1, <2>2, <2>4, <2>5, <2>6 DEF InFlight
<1>9. ASSUME NEW w \in Workers, Report(w) PROVE Old
  <2>1. work' = [work EXCEPT ![w] = Idle] /\ UNCHANGED <<jobs, deferred>>
    BY <1>9 DEF Report
  <2>2. InFlight' \subseteq InFlight \cup {Idle}
    BY <2>1 DEF TypeOK, InFlight, Elements
  <2> QED
    BY <2>2 DEF Idle
<1>10. ASSUME RunDeferred PROVE Old
  <2>1. deferred # << >> /\ deferred' = Tail(deferred) /\ UNCHANGED <<jobs, work>>
    BY <1>10 DEF RunDeferred
  <2>2. Elements(Tail(deferred)) \subseteq Elements(deferred)
    BY <2>1, ElementSteps DEF TypeOK
  <2> QED
    BY <2>1, <2>2 DEF InFlight, Elements
<1>11. ASSUME Restart PROVE Old
  <2>1. jobs' = << >> /\ deferred' = << >> /\ work' = [w \in Workers |-> Idle]
    BY <1>11 DEF Restart
  <2>2. Elements(jobs') = {} /\ Elements(deferred') = {} /\ \A w \in Workers : work'[w] = Idle
    BY <2>1 DEF Elements
  <2> QED
    BY <2>2 DEF InFlight, Idle
<1>12. ASSUME UNCHANGED poolVars PROVE Old
  BY <1>12 DEF poolVars, InFlight, Elements
<1>13. ASSUME NEW s \in Sockets, Open(s) \/ MoveMessage(s) \/ Close(s) PROVE UNCHANGED poolVars
  BY <1>13 DEF Open, MoveMessage, Close
<1>14. ASSUME NEW t \in Tokens, ExpireToken(t) PROVE UNCHANGED poolVars
  BY <1>14 DEF ExpireToken
<1> QED
  BY <1>2, <1>3, <1>4, <1>7, <1>8, <1>9, <1>10, <1>11, <1>12, <1>13, <1>14
  DEF Next, WorkerStep

(* A report names nobody, and a draw, or the player of the winning color:  *)
(* the seat read is empty, or holds the socket bound to it.                *)
LEMMA WinnerTold ==
  ASSUME HonestTickets, SeatsInv, NEW s \in Sockets, NEW result \in Results,
         NEW winner \in Users \cup {None}, FinalMove(s, result, winner)
  PROVE  ResultOf(Room(s), winner) \in {"draw", result}
<1> DEFINE m == Room(s)
<1>1. TypeOK
  BY DEF SeatsInv, AsksInv
<1>2. /\ m \in Matches
      /\ result \in {"draw", bound[s].color} /\ winner \in WinnerIds(m, result)
      /\ bound[s] \in Claims
  BY <1>1 DEF TypeOK, FinalMove, CanMove
<1>3. CASE winner = None
  BY <1>2, <1>3, WinnersResult
<1>4. CASE winner # None
  <2>1. result # "draw"
    BY <1>2, <1>4 DEF WinnerIds
  <2>2. result \in Colors
    BY <1>2, <2>1, ClaimFields
  <2> DEFINE r == seat[m][result]
  <2>3. r # None /\ r \in Sockets
    BY <1>1, <1>2, <1>4, <2>1, <2>2 DEF WinnerIds, TypeOK
  <2>4. sock[r] = "open" /\ bound[r] # None /\ bound[r].match = m /\ bound[r].color = result
    BY <1>2, <2>2, <2>3, SeatFacts
  <2>5. winner = bound[r].user /\ bound[r] \in Claims
    BY <1>1, <1>2, <2>1, <2>3, <2>4 DEF WinnerIds, TypeOK
  <2>6. winner = Pairing[m][result]
    BY <2>4, <2>5 DEF HonestTickets
  <2> QED
    BY <1>2, <2>2, <2>6, WinnersResult
<1> QED
  BY <1>3, <1>4

(* What was told stays told. *)
ToldNext(m, result) == \E j \in DOMAIN announced'[m] : result = announced'[m][j]

LEMMA ToldFinal ==
  ASSUME TypeOK, NEW s \in Sockets, NEW result \in Results,
         NEW winner \in Users \cup {None}, FinalMove(s, result, winner)
  PROVE  /\ \A m \in Matches : \A r : Told(m, r) => ToldNext(m, r)
         /\ ToldNext(Room(s), result)
<1> DEFINE n == Room(s)
<1>1. n \in Matches /\ announced' = [announced EXCEPT ![n] = Append(announced[n], result)]
  BY DEF TypeOK, FinalMove, CanMove
<1> HIDE DEF n
<1>2. /\ announced'[n] = Append(announced[n], result) /\ announced[n] \in Seq(Results)
      /\ \A m \in Matches \ {n} : announced'[m] = announced[m]
  BY <1>1 DEF TypeOK
<1>3. /\ DOMAIN announced[n] = 1 .. Len(announced[n]) /\ Len(announced[n]) \in Nat
      /\ DOMAIN announced'[n] = 1 .. Len(announced[n]) + 1
      /\ \A i \in 1 .. Len(announced[n]) : announced'[n][i] = announced[n][i]
      /\ announced'[n][Len(announced[n]) + 1] = result
  BY <1>2, AppendProperties, LenProperties
<1>4. ToldNext(n, result)
  BY <1>3 DEF ToldNext
<1>5. \A r : Told(n, r) => ToldNext(n, r)
  BY <1>3 DEF Told, ToldNext
<1>6. \A m \in Matches \ {n} : \A r : Told(m, r) => ToldNext(m, r)
  BY <1>2 DEF Told, ToldNext
<1> QED
  BY <1>4, <1>5, <1>6 DEF n

LEMMA WinsNext ==
  ASSUME \A x \in InFlight' : x.kind = "report" =>
           LET result == ResultOf(x.match, x.winner) IN
           result = "draw" \/ ToldNext(x.match, result),
         \A m \in Matches : \A i \in DOMAIN rows'[m] :
           rows'[m][i] = "draw" \/ ToldNext(m, rows'[m][i])
  PROVE  WinsReported' /\ StoredWinsAnnounced'
BY DEF WinsReported, StoredWinsAnnounced, Told, ToldNext

LEMMA WinsStep ==
  ASSUME "rebind" \notin ClientMay, HonestTickets, WinsInv, [Next]_vars
  PROVE  WinsInv'
<1>1. SeatsInv'
  BY SeatsStep DEF WinsInv
<1>2. TypeOK /\ SeatsInv
  BY DEF WinsInv, SeatsInv, AsksInv
<1>3. \A x \in InFlight : x.kind = "report" =>
        LET result == ResultOf(x.match, x.winner) IN
        result = "draw" \/ Told(x.match, result)
  BY DEF WinsInv, WinsReported
<1>4. \A m \in Matches : \A i \in DOMAIN rows[m] : rows[m][i] = "draw" \/ Told(m, rows[m][i])
  BY DEF WinsInv, StoredWinsAnnounced, Told
<1>5. \A x \in InFlight : x.kind = "report" => x.match \in Matches
  BY <1>2, InFlightTypes, WorkFields DEF Replies, Jobs, Mints, Idle
<1>6. ASSUME NEW s \in Sockets, NEW result \in Results, NEW winner \in Users \cup {None},
             FinalMove(s, result, winner)
      PROVE  WinsReported' /\ StoredWinsAnnounced'
  <2> DEFINE n == Room(s)
             y == [kind |-> "report", match |-> n, winner |-> winner]
  <2>1. /\ \A m \in Matches : \A r : Told(m, r) => ToldNext(m, r)
        /\ ToldNext(n, result)
    BY <1>2, <1>6, ToldFinal
  <2>2. ResultOf(n, winner) \in {"draw", result}
    BY <1>2, <1>6, WinnerTold
  <2>3. n \in Matches /\ rows' = rows
    BY <1>2, <1>6 DEF TypeOK, FinalMove, CanMove, controlVars
  <2>4. y \in Jobs /\ y.match = n /\ y.winner = winner
    BY <2>3 DEF Jobs
  <2>5. jobs' = Append(jobs, y) /\ UNCHANGED <<work, deferred>>
    BY <1>6 DEF FinalMove, Enqueue
  <2> HIDE DEF n, y
  <2>6. InFlight' \subseteq InFlight \cup {Idle, y}
    BY <1>2, <2>4, <2>5, QueuedInFlight
  <2>7. \A x \in InFlight' : x.kind = "report" =>
           LET r == ResultOf(x.match, x.winner) IN r = "draw" \/ ToldNext(x.match, r)
    BY <1>3, <1>5, <2>1, <2>2, <2>4, <2>6 DEF Idle
  <2>8. \A m \in Matches : \A i \in DOMAIN rows'[m] :
           rows'[m][i] = "draw" \/ ToldNext(m, rows'[m][i])
    BY <1>4, <2>1, <2>3
  <2> QED
    BY <2>7, <2>8, WinsNext
<1>7. ASSUME Next,
             ~\E s \in Sockets, result \in Results, winner \in Users \cup {None} :
                 FinalMove(s, result, winner)
      PROVE  WinsReported' /\ StoredWinsAnnounced'
  <2>1. \A x \in InFlight' : x.kind = "report" => x \in InFlight
    BY <1>2, <1>7, OldReports
  <2>2. announced' = announced
    <3>1. ASSUME NEW w \in Workers, Report(w) PROVE announced' = announced
      BY <3>1 DEF Report, clientVars
    <3> QED
      BY <1>7, <3>1, OtherEffects
  <2>3. \A m, r : Told(m, r) => ToldNext(m, r)
    BY <2>2 DEF Told, ToldNext
  <2>4. \A x \in InFlight' : x.kind = "report" =>
           LET r == ResultOf(x.match, x.winner) IN r = "draw" \/ ToldNext(x.match, r)
    BY <1>3, <2>1, <2>3
  <2>5. CASE rows' = rows
    <3>1. \A m \in Matches : \A i \in DOMAIN rows'[m] :
             rows'[m][i] = "draw" \/ ToldNext(m, rows'[m][i])
      BY <1>4, <2>3, <2>5
    <3> QED
      BY <2>4, <3>1, WinsNext
  <2>6. ASSUME NEW w \in Workers, Report(w), rows' # rows
        PROVE  WinsReported' /\ StoredWinsAnnounced'
    <3> DEFINE n == work[w].match
               r == ResultOf(n, work[w].winner)
    <3>1. work[w] \in InFlight /\ work[w].kind = "report"
      BY <2>6 DEF InFlight, Report
    <3>2. n \in Matches /\ (r = "draw" \/ ToldNext(n, r))
      BY <1>3, <1>5, <2>3, <3>1
    <3>3. rows' = [rows EXCEPT ![n] = Append(rows[n], r)]
      BY <2>6 DEF Report, ReportGameEnd, controlVars
    <3> HIDE DEF n, r
    <3>4. /\ rows'[n] = Append(rows[n], r) /\ rows[n] \in Seq(Results)
          /\ \A m \in Matches \ {n} : rows'[m] = rows[m]
      BY <1>2, <3>2, <3>3 DEF TypeOK, ControlTypeOK
    <3>5. /\ DOMAIN rows[n] = 1 .. Len(rows[n]) /\ Len(rows[n]) \in Nat
          /\ DOMAIN rows'[n] = 1 .. Len(rows[n]) + 1
          /\ \A i \in 1 .. Len(rows[n]) : rows'[n][i] = rows[n][i]
          /\ rows'[n][Len(rows[n]) + 1] = r
      BY <3>4, AppendProperties, LenProperties
    <3>6. \A i \in DOMAIN rows'[n] : rows'[n][i] = "draw" \/ ToldNext(n, rows'[n][i])
      <4> SUFFICES ASSUME NEW i \in DOMAIN rows'[n]
                   PROVE  rows'[n][i] = "draw" \/ ToldNext(n, rows'[n][i])
        OBVIOUS
      <4>1. CASE i = Len(rows[n]) + 1
        BY <3>2, <3>5, <4>1
      <4>2. CASE i \in 1 .. Len(rows[n])
        BY <1>4, <2>3, <3>2, <3>5, <4>2
      <4> QED
        BY <3>5, <4>1, <4>2
    <3>7. \A m \in Matches \ {n} : \A i \in DOMAIN rows'[m] :
             rows'[m][i] = "draw" \/ ToldNext(m, rows'[m][i])
      BY <1>4, <2>3, <3>4
    <3>8. \A m \in Matches : \A i \in DOMAIN rows'[m] :
             rows'[m][i] = "draw" \/ ToldNext(m, rows'[m][i])
      BY <3>6, <3>7
    <3> QED
      BY <2>4, <3>8, WinsNext
  <2>7. rows' = rows \/ \E w \in Workers : Report(w)
    BY <1>7, OtherEffects
  <2> QED
    BY <2>5, <2>6, <2>7
<1>8. CASE UNCHANGED vars
  <2>1. UNCHANGED <<jobs, work, deferred, announced, rows>>
    BY <1>8 DEF vars, poolVars, clientVars, controlVars
  <2>2. InFlight' = InFlight
    BY <2>1 DEF InFlight, Elements
  <2> QED
    BY <1>1, <2>1, <2>2 DEF WinsInv, WinsReported, StoredWinsAnnounced, Told
<1> QED
  BY <1>1, <1>6, <1>7, <1>8 DEF WinsInv

(* As long as no connection asks for two seats, a stored win is one its    *)
(* players were told, with any overlapping reconnects, tickets shown again *)
(* and rebuilt rooms: the winner's seat may be lost to a late close, which *)
(* stores a draw, but the id reported is never that of the other player    *)
(* (game-over branch, close handler, ReportGameEnd).                       *)
THEOREM WinsAnnounced ==
  ASSUME "rebind" \notin ClientMay, HonestTickets
  PROVE  Spec => []StoredWinsAnnounced
<1>1. Init => WinsInv
  <2> SUFFICES ASSUME Init PROVE WinsInv
    OBVIOUS
  <2>1. Elements(jobs) = {} /\ Elements(deferred) = {} /\ \A w \in Workers : work[w] = Idle
    BY DEF Init, Elements
  <2>2. WinsReported
    BY <2>1 DEF InFlight, WinsReported, Idle
  <2>3. StoredWinsAnnounced
    BY DEF Init, ControlInit, StoredWinsAnnounced
  <2> QED
    BY <2>2, <2>3, SeatsInit DEF WinsInv
<1>2. WinsInv => StoredWinsAnnounced
  BY DEF WinsInv
<1>3. WinsInv /\ [Next]_vars => WinsInv'
  BY WinsStep
<1> QED
  BY <1>1, <1>2, <1>3, PTL DEF Spec

-----------------------------------------------------------------------------
(* The refinement.  A join that builds a room is a Begin, a crash or the   *)
(* last player's leaving a GiveUp, the end of a game a Finish, a report    *)
(* that gets through a Store; every other step changes nothing in it.      *)
ledgerVars == <<live, announced, rows>>

LEMMA LedgerMapped ==
  ASSUME FairPlay, LedgerInv, Next
  PROVE  Ledger!Next \/ UNCHANGED ledgerVars
<1>1. PlayInv /\ TypeOK /\ GamesArrive
  BY LedgerTypes DEF LedgerInv
<1>2. ASSUME NEW s \in Sockets, NEW result \in Results, NEW winner \in Users \cup {None},
             FinalMove(s, result, winner)
      PROVE  Ledger!Next
  <2>1. Ledger!Finish(Room(s), result) /\ Room(s) \in Matches
    BY <1>1, <1>2, FinalEffects DEF Ledger!Finish, TypeOK
  <2> QED
    BY <2>1 DEF Ledger!Next
<1>3. ASSUME NEW w \in Workers, Report(w)
      PROVE  Ledger!Next \/ UNCHANGED ledgerVars
  <2> DEFINE m == work[w].match
  <2>1. /\ m \in Matches /\ announced[m] # << >> /\ rows[m] = << >>
        /\ UNCHANGED <<live, announced>>
        /\ rows' = rows \/ rows' = [rows EXCEPT ![m] = announced[m]]
    BY <1>3, StoredEffects
  <2>2. Ledger!Store(m) \/ UNCHANGED ledgerVars
    BY <2>1 DEF Ledger!Store, ledgerVars
  <2> QED
    BY <2>1, <2>2 DEF Ledger!Next
<1>4. ASSUME UNCHANGED <<announced, rows>>, live' \subseteq live
      PROVE  Ledger!Next
  <2>1. live' = live \ (live \ live') /\ live \ live' \in SUBSET live
    BY <1>4
  <2>2. Ledger!GiveUp(live \ live')
    BY <1>4, <2>1 DEF Ledger!GiveUp
  <2> QED
    BY <2>1, <2>2 DEF Ledger!Next
<1>5. ASSUME UNCHANGED <<announced, rows>>, NEW s \in Sockets, NEW c \in Claims,
             NEW t \in Tokens \cup {None}, Seats(s, c, t)
      PROVE  Ledger!Next \/ UNCHANGED ledgerVars
  <2>1. c.match \in Matches
    BY ClaimFields
  <2>2. CASE UNCHANGED live
    BY <1>5, <2>2 DEF ledgerVars
  <2>3. CASE c.match \notin live /\ ~Arrived(c) /\ live' = live \cup {c.match}
    <3>1. announced[c.match] = << >>
      BY <1>1, <2>1, <2>3 DEF GamesArrive
    <3>2. Ledger!Begin(c.match)
      BY <1>5, <2>3, <3>1 DEF Ledger!Begin
    <3> QED
      BY <2>1, <3>2 DEF Ledger!Next
  <2> QED
    BY <1>5, <2>2, <2>3 DEF Seats
<1>6. CASE UNCHANGED <<announced, rows, status>> /\ RunDeferred
  <2>1. CASE UNCHANGED <<loopVars, clientVars>>
    BY <1>6, <2>1 DEF ledgerVars, loopVars
  <2>2. ASSUME NEW s \in Sockets, CloseHandler(s)
        PROVE  Ledger!Next
    BY <1>1, <1>4, <1>6, <2>2, CloseBound
  <2> QED
    BY <1>1, <1>5, <1>6, <2>1, <2>2, DeferredEffects
<1>7. CASE UNCHANGED <<announced, rows, status>> /\ ~RunDeferred
  BY <1>1, <1>4, <1>7, BoundKept
<1> QED
  BY <1>1, <1>2, <1>3, <1>6, <1>7, OtherEffects

(* With clients that show a ticket once and reconnect only after the       *)
(* server closed the old connection, the server implements MatchLedger:    *)
(* whatever rooms, workers, closures, crashes and lost calls do, a match   *)
(* is begun, finished or given up, and stored as an abstract ledger of     *)
(* matches would.                                                          *)
THEOREM LedgerRefined ==
  ASSUME FairPlay
  PROVE  Spec => ImplementsMatchLedger
<1>1. Init => Ledger!Init
  BY DEF Init, ControlInit, Ledger!Init
<1>2. LedgerInv /\ [Next]_vars => LedgerInv'
  BY LedgerStep
<1>3. LedgerInv /\ [Next]_vars => [Ledger!Next]_<<live, announced, rows>>
  <2>1. UNCHANGED vars => UNCHANGED <<live, announced, rows>>
    BY DEF vars, loopVars, clientVars, controlVars
  <2> QED
    BY <2>1, LedgerMapped DEF ledgerVars
<1> QED
  BY <1>1, <1>2, <1>3, LedgerInit, PTL DEF Spec, ImplementsMatchLedger, Ledger!Spec
=============================================================================
