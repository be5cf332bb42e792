------------------------- MODULE MatchmakingProofs --------------------------
(***************************************************************************)
(* Theorems about Matchmaking, for any users and number of requests: types *)
(* and what becomes of the tickets kept for polling.  The argument: a      *)
(* request makes one match at most, so that the player a kept ticket is    *)
(* for never changes, and every key and every read ticket is for the user  *)
(* it is filed under.                                                      *)
(***************************************************************************)
EXTENDS Matchmaking, SequenceTheorems, FiniteSetTheorems, TLAPS

-----------------------------------------------------------------------------
(* The list *)

LEMMA EntryTypes ==
  ASSUME queue \in Seq(Entries)
  PROVE  /\ Taken \in Seq(Entries) /\ Left \in Seq(Entries)
         /\ Len(Taken) \in {0, 1, 2}
<1>1. Len(queue) \in Nat /\ \A i \in 1 .. Len(queue) : queue[i] \in Entries
  <2>1. queue \in [1 .. Len(queue) -> Entries] /\ Len(queue) \in Nat
    BY LenProperties
  <2> QED
    BY <2>1
<1> DEFINE n == IF Len(queue) < 2 THEN Len(queue) ELSE 2
<1>2. n \in {0, 1, 2} /\ n <= Len(queue)
  <2> DEFINE k == Len(queue)
  <2>1. k \in Nat
    BY <1>1
  <2> HIDE DEF k
  <2>2. (IF k < 2 THEN k ELSE 2) \in {0, 1, 2} /\ (IF k < 2 THEN k ELSE 2) <= k
    BY <2>1
  <2> QED
    BY <2>2 DEF k
<1> HIDE DEF n
<1>3. \A i \in 1 .. n : queue[i] \in Entries
  BY <1>1, <1>2
<1>4. SubSeq(queue, 1, n) \in Seq(Entries) /\ Len(SubSeq(queue, 1, n)) = n
  <2>1. /\ SubSeq(queue, 1, n) \in Seq(Entries)
        /\ Len(SubSeq(queue, 1, n)) = IF 1 <= n THEN n - 1 + 1 ELSE 0
    BY <1>2, <1>3, SubSeqProperties
  <2> QED
    BY <1>2, <2>1
<1>5. SubSeq(queue, 3, Len(queue)) \in Seq(Entries)
  <2>1. \A i \in 3 .. Len(queue) : queue[i] \in Entries
    BY <1>1
  <2> QED
    BY <1>1, <2>1, SubSeqProperties
<1> QED
  BY <1>2, <1>4, <1>5 DEF Taken, Left, n

-----------------------------------------------------------------------------
(* The inductive invariant *)

Early == {"new", "pushing", "pushed", "popping", "requeueing", "matching"}

(* A handler holds what it must put back or pair, and nothing else, and    *)
(* makes one match at most, out of two entries.                            *)
OneMatchEach ==
  \A q \in Requests :
    /\ pc[q] = "matching" => Len(popped[q]) = 2
    /\ pc[q] = "requeueing" => Len(popped[q]) = 1
    /\ pc[q] \notin {"requeueing", "matching"} => popped[q] = << >>
    /\ pc[q] \in Early => match[q] = << >>
    /\ pc[q] \in {"storing", "matched"} => match[q] # << >>
    /\ match[q] # << >> => Len(match[q]) = 2

(* A ticket that is kept or being read is filed under the other player. *)
For(u, q) == q # None => match[q] # << >> /\ OtherPlayer(q) = u

FiledRight == \A u \in Users : For(u, stored[u]) /\ For(u, reading[u])

TicketInv == TypeOK /\ OneMatchEach /\ FiledRight /\ FreshTicketsCanBePolled

LEMMA TicketInit == Init => TicketInv
<1> SUFFICES ASSUME Init PROVE TicketInv
  OBVIOUS
<1>1. TypeOK
  BY DEF Init, TypeOK, Places
<1>2. OneMatchEach
  BY DEF Init, OneMatchEach
<1>3. FiledRight /\ FreshTicketsCanBePolled
  BY DEF Init, FiledRight, For, FreshTicketsCanBePolled
<1> QED
  BY <1>1, <1>2, <1>3 DEF TicketInv

(* The players of a match are users. *)
LEMMA PlayersAreUsers ==
  ASSUME TypeOK, OneMatchEach, NEW q \in Requests, match[q] # << >>
  PROVE  OtherPlayer(q) \in Users /\ Plays(OtherPlayer(q), q)
<1>1. match[q] \in Seq(Entries) /\ Len(match[q]) = 2
  BY DEF TypeOK, OneMatchEach
<1>2. DOMAIN match[q] = 1 .. 2 /\ match[q][1] \in Entries /\ match[q][2] \in Entries
  BY <1>1, LenProperties, ElementOfSeq
<1>3. \A i \in {1, 2} : Player(match[q][i]) \in Users /\ i \in DOMAIN match[q]
  BY <1>2, MatchmakingAssumption DEF Player, Entries
<1> QED
  BY <1>3 DEF OtherPlayer, Plays

(* As long as the matches stay, the other player of each does.             *)
LEMMA FreshFrom ==
  ASSUME UNCHANGED match,
         \A q \in fresh' : pc'[q] = "matched" =>
           \/ q \in {stored'[OtherPlayer(q)], reading'[OtherPlayer(q)]}
           \/ \E r \in Requests \ {q} : match[r] # << >> /\ OtherPlayer(r) = OtherPlayer(q)
  PROVE  FreshTicketsCanBePolled'
<1>1. \A q : OtherPlayer(q)' = OtherPlayer(q)
  BY DEF OtherPlayer
<1>2. SUFFICES ASSUME NEW q \in fresh', pc'[q] = "matched"
               PROVE  \/ q \in {stored'[OtherPlayer(q)'], reading'[OtherPlayer(q)']}
                      \/ \E r \in Requests \ {q} :
                            match'[r] # << >> /\ OtherPlayer(r)' = OtherPlayer(q)'
  BY Zenon DEF FreshTicketsCanBePolled
<1>3. CASE q \in {stored'[OtherPlayer(q)], reading'[OtherPlayer(q)]}
  BY <1>1, <1>3
<1>4. CASE \E r \in Requests \ {q} : match[r] # << >> /\ OtherPlayer(r) = OtherPlayer(q)
  BY <1>1, <1>4
<1> QED
  BY <1>2, <1>3, <1>4

-----------------------------------------------------------------------------
(* A step of a handler of POST /request before it makes a match, or when   *)
(* it fails: no match and no ticket changes.                               *)
LEMMA HandlerKeepsTickets ==
  ASSUME TicketInv, UNCHANGED <<match, ticketVars>>,
         \A q \in Requests : pc'[q] = "matched" => pc[q] = "matched"
  PROVE  FiledRight' /\ FreshTicketsCanBePolled'
<1>1. UNCHANGED <<match, stored, reading, fresh>>
  BY DEF ticketVars
<1>2. FiledRight'
  BY <1>1 DEF TicketInv, FiledRight, For, OtherPlayer
<1>3. FreshTicketsCanBePolled'
  <2>1. ASSUME NEW q \in fresh', pc'[q] = "matched"
        PROVE  \/ q \in {stored'[OtherPlayer(q)], reading'[OtherPlayer(q)]}
               \/ \E r \in Requests \ {q} : match[r] # << >> /\ OtherPlayer(r) = OtherPlayer(q)
    <3>1. q \in fresh /\ pc[q] = "matched"
      BY <1>1, <2>1 DEF TicketInv, TypeOK
    <3> QED
      BY <1>1, <3>1 DEF TicketInv, FreshTicketsCanBePolled
  <2> QED
    BY <1>1, <2>1, FreshFrom
<1> QED
  BY <1>2, <1>3

Ends(q) == RefuseSelfMatch(q) \/ Fail(q)

Handles(q) ==
  \/ Push(q) \/ PushUnheard(q) \/ Count(q) \/ Pop(q) \/ PopUnheard(q)
  \/ Requeue(q) \/ RequeueUnheard(q) \/ Ends(q)

(* The entry a handler puts back a copy of is there.                       *)
LEMMA HeldEntry ==
  ASSUME TypeOK, OneMatchEach, NEW q \in Requests, pc[q] = "requeueing"
  PROVE  popped[q][1] \in Entries /\ popped[q][1][1] \in Requests
<1>1. popped[q] \in Seq(Entries) /\ Len(popped[q]) = 1
  BY DEF TypeOK, OneMatchEach
<1>2. popped[q][1] \in Entries
  BY <1>1, ElementOfSeq
<1> QED
  BY <1>2 DEF Entries

LEMMA EntriesOfList ==
  ASSUME NEW l \in Seq(Entries)
  PROVE  EntriesOf(l) \subseteq Entries
<1>1. DOMAIN l = 1 .. Len(l) /\ \A i \in 1 .. Len(l) : l[i] \in Entries
  BY LenProperties, ElementOfSeq
<1> QED
  BY <1>1 DEF EntriesOf

(* Where such a step goes, and what it holds after it.                     *)
LEMMA HandlesGoto ==
  ASSUME TicketInv, NEW q \in Requests, Handles(q)
  PROVE  \E p \in (Places \ {"storing"}) \cup {"queued", "failed"}, x \in Seq(Entries) :
           /\ pc'     = [pc EXCEPT ![q] = p]
           /\ popped' = [popped EXCEPT ![q] = x]
           /\ p \in Early => pc[q] \in Early
           /\ p = "matching" => Len(x) = 2
           /\ p = "requeueing" => Len(x) = 1
           /\ p \notin {"requeueing", "matching"} => x = << >>
<1>1. /\ TypeOK /\ OneMatchEach /\ << >> \in Seq(Entries) /\ Len(<< >>) = 0
      /\ pc \in [Requests -> Places \cup Answers] /\ popped \in [Requests -> Seq(Entries)]
      /\ popped = [popped EXCEPT ![q] = popped[q]] /\ pc = [pc EXCEPT ![q] = pc[q]]
  BY DEF TicketInv, TypeOK
<1>2. /\ pc[q] = "requeueing" => Len(popped[q]) = 1
      /\ pc[q] \notin {"requeueing", "matching"} => popped[q] = << >>
  BY <1>1 DEF OneMatchEach
<1>3. CASE Push(q) \/ PushUnheard(q) \/ Count(q)
  <2>1. PICK p \in {"pushing", "pushed", "queued", "popping"} :
          pc' = [pc EXCEPT ![q] = p] /\ popped' = popped /\ pc[q] \in {"new", "pushing", "pushed"}
    BY <1>3 DEF Push, PushUnheard, Count, Goto
  <2> QED
    BY <1>1, <1>2, <2>1 DEF Places, Early
<1>4. CASE Pop(q)
  <2>1. Taken \in Seq(Entries)
    BY <1>1, EntryTypes DEF TypeOK
  <2>2. CASE Len(Taken) = 2 /\ Goto(q, "matching")
    BY <1>4, <2>1, <2>2 DEF Pop, Goto, Places, Early
  <2>3. CASE Len(Taken) = 1 /\ Goto(q, "requeueing")
    BY <1>4, <2>1, <2>3 DEF Pop, Goto, Places, Early
  <2>4. CASE Len(Taken) = 0 /\ Answer(q)
    <3>1. Taken = << >>
      BY <2>1, <2>4, EmptySeq
    <3>2. PICK p \in {"queued", "failed"} : pc' = [pc EXCEPT ![q] = p]
      BY <2>4 DEF Answer, Goto
    <3> QED
      BY <1>1, <1>4, <2>1, <3>1, <3>2 DEF Pop, Places, Early
  <2> QED
    BY <1>4, <2>2, <2>3, <2>4 DEF Pop
<1>5. CASE PopUnheard(q) \/ RequeueUnheard(q)
  <2>1. pc' = pc /\ popped' = popped /\ pc[q] \in {"popping", "requeueing"}
    BY <1>5 DEF PopUnheard, RequeueUnheard
  <2> QED
    BY <1>1, <1>2, <2>1 DEF Places, Early, TypeOK
<1>6. CASE Requeue(q) \/ Ends(q)
  <2>1. PICK p \in {"queued", "failed"} :
          pc' = [pc EXCEPT ![q] = p] /\ popped' = [popped EXCEPT ![q] = << >>]
    BY <1>6 DEF Requeue, Answer, Ends, RefuseSelfMatch, Fail, Drop, Goto
  <2> QED
    BY <1>1, <2>1 DEF Places, Early
<1> QED
  BY <1>3, <1>4, <1>5, <1>6 DEF Handles

LEMMA HandlesTypes ==
  ASSUME TicketInv, NEW q \in Requests, Handles(q)
  PROVE  TypeOK' /\ UNCHANGED <<match, ticketVars>>
<1>1. TypeOK /\ OneMatchEach
  BY DEF TicketInv
<1>2. UNCHANGED <<match, ticketVars>>
  BY DEF Handles, Push, PushUnheard, Count, Pop, PopUnheard, Requeue, RequeueUnheard,
         Ends, RefuseSelfMatch, Fail
<1>3. /\ queue' \in Seq(Entries) /\ arrived' \subseteq Entries
      /\ dropped' \subseteq Entries /\ unheard' \in Nat
  <2>1. /\ queue \in Seq(Entries) /\ popped[q] \in Seq(Entries) /\ arrived \subseteq Entries
        /\ dropped \subseteq Entries /\ unheard \in Nat
        /\ Taken \in Seq(Entries) /\ Left \in Seq(Entries)
    BY <1>1, EntryTypes DEF TypeOK
  <2>2. \A n \in Nat : <<q, n>> \in Entries
    BY DEF Entries
  <2>3. CASE Push(q)
    <3>1. <<q, 0>> \in Entries
      BY <2>2
    <3> QED
      BY <2>1, <2>3, <3>1, AppendProperties DEF Push
  <2>4. CASE PushUnheard(q)
    <3>1. unheard' = unheard + 1 /\ unheard' \in Nat
      BY <2>1, <2>4 DEF PushUnheard, Unheard
    <3>2. <<q, unheard'>> \in Entries
      BY <2>2, <3>1
    <3> QED
      BY <2>1, <2>4, <3>1, <3>2, AppendProperties DEF PushUnheard
  <2>5. CASE Pop(q)
    BY <2>1, <2>5 DEF Pop
  <2>6. CASE PopUnheard(q)
    <3>1. EntriesOf(Taken) \subseteq Entries
      BY <2>1, EntriesOfList
    <3> QED
      BY <2>1, <2>6, <3>1 DEF PopUnheard, Unheard
  <2>7. CASE Requeue(q)
    BY <2>1, <2>7, ConcatProperties DEF Requeue
  <2>8. CASE RequeueUnheard(q)
    <3> DEFINE copy == <<popped[q][1][1], unheard'>>
    <3>1. unheard' = unheard + 1 /\ unheard' \in Nat /\ pc[q] = "requeueing"
      BY <2>1, <2>8 DEF RequeueUnheard, Unheard
    <3>2. copy \in Entries
      BY <1>1, <3>1, HeldEntry DEF Entries
    <3>3. queue' = <<copy>> \o queue /\ arrived' = arrived \cup {copy} /\ dropped' = dropped
      BY <2>8 DEF RequeueUnheard
    <3> HIDE DEF copy
    <3>4. <<copy>> \in Seq(Entries)
      BY <3>2
    <3> QED
      BY <2>1, <3>1, <3>2, <3>3, <3>4, ConcatProperties
  <2>9. CASE Ends(q)
    <3>1. EntriesOf(popped[q]) \subseteq Entries
      BY <2>1, EntriesOfList
    <3> QED
      BY <2>1, <2>9, <3>1 DEF Ends, RefuseSelfMatch, Fail, Drop
  <2>10. CASE Count(q)
    BY <2>1, <2>10 DEF Count
  <2> QED
    BY <2>3, <2>4, <2>5, <2>6, <2>7, <2>8, <2>9, <2>10 DEF Handles
<1>4. pc' \in [Requests -> Places \cup Answers] /\ popped' \in [Requests -> Seq(Entries)]
  <2>1. PICK p \in (Places \ {"storing"}) \cup {"queued", "failed"}, x \in Seq(Entries) :
          pc' = [pc EXCEPT ![q] = p] /\ popped' = [popped EXCEPT ![q] = x]
    BY HandlesGoto
  <2>2. p \in Places \cup Answers
    BY DEF Answers
  <2> QED
    BY <1>1, <2>1, <2>2 DEF TypeOK
<1> QED
  BY <1>1, <1>2, <1>3, <1>4 DEF TypeOK, ticketVars

LEMMA HandlesStep ==
  ASSUME TicketInv, NEW q \in Requests, Handles(q)
  PROVE  TicketInv'
<1>1. TypeOK /\ OneMatchEach /\ TypeOK' /\ UNCHANGED <<match, ticketVars>>
  BY HandlesTypes DEF TicketInv
<1>2. PICK p \in (Places \ {"storing"}) \cup {"queued", "failed"}, x \in Seq(Entries) :
        /\ pc' = [pc EXCEPT ![q] = p] /\ popped' = [popped EXCEPT ![q] = x]
        /\ p \in Early => pc[q] \in Early
        /\ p = "matching" => Len(x) = 2
        /\ p = "requeueing" => Len(x) = 1
        /\ p \notin {"requeueing", "matching"} => x = << >>
  BY HandlesGoto
<1>3. /\ pc'[q] = p /\ popped'[q] = x /\ p # "matched" /\ p # "storing"
      /\ \A r \in Requests \ {q} : pc'[r] = pc[r] /\ popped'[r] = popped[r]
  BY <1>1, <1>2 DEF TypeOK, Places
<1>4. OneMatchEach'
  BY <1>1, <1>2, <1>3 DEF OneMatchEach
<1>5. FiledRight' /\ FreshTicketsCanBePolled'
  BY <1>1, <1>3, HandlerKeepsTickets
<1> QED
  BY <1>1, <1>4, <1>5 DEF TicketInv

-----------------------------------------------------------------------------
(* The steps that make a match and keep its ticket *)

(* The match of q is made: no ticket of q is kept or read before, and the  *)
(* matches of others stay what they were.                                  *)
LEMMA CreateMatchStep ==
  ASSUME TicketInv, NEW q \in Requests, CreateMatch(q)
  PROVE  TicketInv'
<1>1. /\ TypeOK /\ OneMatchEach /\ FiledRight /\ FreshTicketsCanBePolled
      /\ pc[q] = "matching" /\ match[q] = << >> /\ Len(popped[q]) = 2
      /\ popped[q] \in Seq(Entries) /\ << >> \in Seq(Entries)
  BY DEF TicketInv, TypeOK, OneMatchEach, CreateMatch, Early
<1>2. /\ match'[q] = popped[q] /\ pc'[q] = "storing"
      /\ \A r \in Requests \ {q} : match'[r] = match[r] /\ pc'[r] = pc[r]
                                  /\ popped'[r] = popped[r]
  BY <1>1 DEF TypeOK, CreateMatch, Goto
<1>3. TypeOK'
  <2>1. fresh' \subseteq Requests /\ UNCHANGED <<queue, arrived, dropped, unheard>>
    BY <1>1 DEF TypeOK, CreateMatch
  <2> QED
    BY <1>1, <2>1 DEF TypeOK, CreateMatch, Goto, Places
<1>4. popped[q] # << >>
  <2>1. Len(<< >>) = 0
    OBVIOUS
  <2>2. ASSUME popped[q] = << >>
        PROVE  Len(popped[q]) = Len(<< >>)
    BY ONLY <2>2, Zenon
  <2>3. Len(popped[q]) = 2
    BY <1>1
  <2> QED
    BY ONLY <2>1, <2>2, <2>3
<1>5. OneMatchEach'
  <2>1. popped'[q] = << >>
    BY <1>1 DEF TypeOK, CreateMatch
  <2> QED
    BY <1>1, <1>2, <1>4, <2>1 DEF OneMatchEach, Early
<1>6. \A r \in Requests : match[r] # << >> =>
        match'[r] = match[r] /\ OtherPlayer(r)' = OtherPlayer(r)
  BY <1>1, <1>2 DEF OtherPlayer
<1>7. FiledRight'
  <2>1. UNCHANGED <<stored, reading>>
    BY DEF CreateMatch
  <2>2. ASSUME NEW u \in Users
        PROVE  For(u, stored[u])' /\ For(u, reading[u])'
    <3>1. /\ stored[u] \in Requests \cup {None} /\ reading[u] \in Requests \cup {None}
          /\ For(u, stored[u]) /\ For(u, reading[u])
      BY <1>1 DEF TypeOK, FiledRight
    <3> QED
      BY <1>6, <2>1, <3>1 DEF For, OtherPlayer
  <2> QED
    BY <2>2 DEF FiledRight
<1>8. FreshTicketsCanBePolled'
  <2>1. UNCHANGED <<stored, reading>> /\ fresh' = fresh \cup {q}
    BY DEF CreateMatch
  <2>2. SUFFICES ASSUME NEW r \in fresh', pc'[r] = "matched"
                 PROVE  \/ r \in {stored[OtherPlayer(r)'], reading[OtherPlayer(r)']}
                        \/ \E o \in Requests \ {r} :
                              match'[o] # << >> /\ OtherPlayer(o)' = OtherPlayer(r)'
    BY <2>1 DEF FreshTicketsCanBePolled, OtherPlayer
  <2>3. r \in fresh /\ r \in Requests /\ r # q /\ pc[r] = "matched"
    BY <1>1, <1>2, <2>1, <2>2 DEF TypeOK
  <2>4. OtherPlayer(r)' = OtherPlayer(r)
    BY <1>2, <2>3 DEF OtherPlayer
  <2> QED
    BY <1>1, <1>6, <2>3, <2>4 DEF FreshTicketsCanBePolled
<1> QED
  BY <1>3, <1>5, <1>7, <1>8 DEF TicketInv

(* The ticket of q is kept for the other player of its match; it displaces *)
(* only the ticket of another match of that player.                        *)
LEMMA StoreTicketStep ==
  ASSUME TicketInv, NEW q \in Requests, StoreTicket(q) \/ StoreUnheard(q)
  PROVE  TicketInv'
<1> DEFINE u == OtherPlayer(q)
<1>1. /\ TypeOK /\ OneMatchEach /\ FiledRight /\ FreshTicketsCanBePolled
      /\ pc[q] = "storing" /\ match[q] # << >>
  BY DEF TicketInv, OneMatchEach, StoreTicket, StoreUnheard
<1>2. u \in Users
  BY <1>1, PlayersAreUsers
<1>3. /\ UNCHANGED <<match, popped, reading, fresh>>
      /\ stored' = [stored EXCEPT ![u] = q]
      /\ \E p \in {"matched", "storing"} : pc' = [pc EXCEPT ![q] = p]
  <2>1. CASE StoreTicket(q)
    BY <2>1 DEF StoreTicket, Goto
  <2>2. CASE StoreUnheard(q)
    <3>1. pc' = [pc EXCEPT ![q] = "storing"]
      BY <1>1, <2>2 DEF StoreUnheard, TypeOK
    <3> QED
      BY <2>2, <3>1 DEF StoreUnheard
  <2> QED
    BY <2>1, <2>2
<1> HIDE DEF u
<1>4. TypeOK'
  <2>1. tickets' \in [Users -> SUBSET Requests]
    <3>1. Owner[q] \in Users /\ tickets \in [Users -> SUBSET Requests]
      BY <1>1, MatchmakingAssumption DEF TypeOK
    <3>2. CASE tickets' = [tickets EXCEPT ![Owner[q]] = @ \cup {q}]
      BY <3>1, <3>2
    <3>3. CASE UNCHANGED tickets
      BY <3>1, <3>3
    <3> QED
      BY <3>2, <3>3 DEF StoreTicket, StoreUnheard
  <2>2. queue' = queue /\ arrived' = arrived /\ dropped' = dropped /\ unheard' \in Nat
    BY <1>1 DEF StoreTicket, StoreUnheard, Unheard, TypeOK
  <2> QED
    BY <1>1, <1>2, <1>3, <2>1, <2>2 DEF TypeOK, Answers, Places
<1>5. /\ \A r \in Requests \ {q} : pc'[r] = pc[r]
      /\ pc'[q] \in {"matched", "storing"}
      /\ stored'[u] = q /\ \A w \in Users \ {u} : stored'[w] = stored[w]
  BY <1>1, <1>2, <1>3 DEF TypeOK
<1>6. OneMatchEach'
  BY <1>1, <1>3, <1>5 DEF OneMatchEach, Early
<1>7. \A w \in Users : For(w, stored'[w]) /\ For(w, reading[w])
  <2>1. For(u, q)
    BY <1>1 DEF For, u
  <2> QED
    BY <1>1, <1>5, <2>1 DEF FiledRight
<1>8. FiledRight'
  BY <1>3, <1>7 DEF FiledRight, For, OtherPlayer
<1>9. ASSUME NEW r \in fresh, pc'[r] = "matched"
       PROVE  \/ r \in {stored'[OtherPlayer(r)], reading[OtherPlayer(r)]}
              \/ \E o \in Requests \ {r} : match[o] # << >> /\ OtherPlayer(o) = OtherPlayer(r)
  <2>1. CASE r = q
    BY <1>5, <2>1 DEF u
  <2>2. CASE r # q /\ OtherPlayer(r) = u
    BY <1>1, <2>2 DEF u
  <2>3. CASE r # q /\ OtherPlayer(r) # u
    <3>1. r \in Requests /\ pc[r] = "matched"
      BY <1>1, <1>5, <1>9, <2>3 DEF TypeOK
    <3>2. OtherPlayer(r) \in Users
      BY <1>1, <3>1, PlayersAreUsers DEF OneMatchEach
    <3> QED
      BY <1>1, <1>5, <2>3, <3>1, <3>2 DEF FreshTicketsCanBePolled
  <2> QED
    BY <2>1, <2>2, <2>3
<1>10. FreshTicketsCanBePolled'
  <2>1. match' = match /\ reading' = reading /\ fresh' = fresh
    BY <1>3
  <2> QED
    BY <1>9, <2>1, FreshFrom
<1> QED
  BY <1>4, <1>6, <1>8, <1>10 DEF TicketInv
-----------------------------------------------------------------------------
(* The steps of polls and of time *)

(* Such a step leaves the requests alone.  A key or a read ticket that is  *)
(* gone is for no match that is still fresh, or another match of the same  *)
(* player took its place.                                                  *)
LEMMA PollStep ==
  ASSUME TicketInv, NEW u \in Users, unheard' \in Nat,
         UNCHANGED <<queue, pc, popped, match, arrived, dropped>>,
         stored' \in {stored, [stored EXCEPT ![u] = None]},
         reading' \in {reading, [reading EXCEPT ![u] = None],
                      [reading EXCEPT ![u] = stored[u]]},
         tickets' \in [Users -> SUBSET Requests],
         fresh' \subseteq fresh,
         \A q \in fresh' : OtherPlayer(q) = u /\ q \in {stored[u], reading[u]} =>
           \/ q \in {stored'[u], reading'[u]}
           \/ \E r \in Requests \ {q} : match[r] # << >> /\ OtherPlayer(r) = u
  PROVE  TicketInv'
<1>9. /\ TypeOK /\ OneMatchEach /\ FiledRight /\ FreshTicketsCanBePolled
  BY DEF TicketInv
<1>10. /\ stored' \in [Users -> Requests \cup {None}]
      /\ reading' \in [Users -> Requests \cup {None}]
      /\ \A w \in Users \ {u} : stored'[w] = stored[w] /\ reading'[w] = reading[w]
      /\ stored'[u] \in {stored[u], None} /\ reading'[u] \in {reading[u], stored[u], None}
  BY <1>9 DEF TypeOK
<1>11. TypeOK'
  BY <1>9, <1>10 DEF TypeOK
<1>12. OneMatchEach'
  BY <1>9 DEF OneMatchEach
<1>14. \A w \in Users : For(w, stored'[w]) /\ For(w, reading'[w])
  <2>1. For(u, None)
    BY DEF For
  <2> QED
    BY <1>9, <1>10, <2>1 DEF FiledRight
<1>15. FiledRight'
  BY <1>9, <1>14 DEF FiledRight, For, OtherPlayer
<1>16. ASSUME NEW q \in fresh', pc[q] = "matched"
      PROVE  \/ q \in {stored'[OtherPlayer(q)], reading'[OtherPlayer(q)]}
             \/ \E r \in Requests \ {q} : match[r] # << >> /\ OtherPlayer(r) = OtherPlayer(q)
  <2>1. q \in fresh /\ OtherPlayer(q) \in Users
    BY <1>9, <1>16, PlayersAreUsers DEF TypeOK, OneMatchEach
  <2>2. CASE \E r \in Requests \ {q} : match[r] # << >> /\ OtherPlayer(r) = OtherPlayer(q)
    BY <2>2
  <2>3. CASE q \in {stored[OtherPlayer(q)], reading[OtherPlayer(q)]}
    BY <1>10, <1>16, <2>1, <2>3
  <2> QED
    BY <1>9, <1>16, <2>1, <2>2, <2>3 DEF FreshTicketsCanBePolled
<1>17. FreshTicketsCanBePolled'
  BY <1>9, <1>16, FreshFrom
<1> QED
  BY <1>11, <1>12, <1>15, <1>17 DEF TicketInv

(* Every step keeps the invariant.                                         *)
LEMMA TicketStep ==
  ASSUME TicketInv, [Next]_vars
  PROVE  TicketInv'
<1>9. TypeOK /\ OneMatchEach /\ FiledRight
  BY DEF TicketInv
<1>10. ASSUME NEW q \in Requests, Handles(q)
      PROVE  TicketInv'
  BY <1>10, HandlesStep
<1>11. ASSUME NEW q \in Requests, CreateMatch(q)
      PROVE  TicketInv'
  BY <1>11, CreateMatchStep
<1>12. ASSUME NEW q \in Requests, StoreTicket(q) \/ StoreUnheard(q)
      PROVE  TicketInv'
  BY <1>12, StoreTicketStep
<1>13. ASSUME NEW u \in Users, ReadTicket(u)
      PROVE  TicketInv'
  <2>1. /\ UNCHANGED requestVars /\ UNCHANGED <<stored, tickets, fresh>>
        /\ reading[u] = None /\ stored[u] # None
        /\ reading' = [reading EXCEPT ![u] = stored[u]]
    BY <1>13 DEF ReadTicket
  <2>2. tickets' \in [Users -> SUBSET Requests] /\ fresh' \subseteq Requests
    BY <1>9, <2>1 DEF TypeOK
  <2>3. ASSUME NEW q \in fresh', q \in {stored[u], reading[u]}
        PROVE  q \in {stored'[u], reading'[u]}
    <3>1. q # None
      BY <2>2, <2>3, MatchmakingAssumption
    <3> QED
      BY <2>1, <2>3, <3>1
  <2>4. unheard' \in Nat
    BY <1>9, <2>1 DEF TypeOK, requestVars
  <2> QED
    BY <2>1, <2>2, <2>3, <2>4, PollStep DEF requestVars
<1>14. ASSUME NEW u \in Users, DeleteTicket(u) \/ FailRead(u)
      PROVE  TicketInv'
  <2>1. /\ reading[u] # None /\ UNCHANGED requestVars
        /\ stored' \in {stored, [stored EXCEPT ![u] = None]}
        /\ reading' = [reading EXCEPT ![u] = None]
        /\ fresh' = fresh \ {reading[u]}
    BY <1>14 DEF DeleteTicket, FailRead
  <2>2. /\ reading[u] \in Requests /\ stored[u] \in Requests \cup {None}
        /\ tickets \in [Users -> SUBSET Requests] /\ fresh \subseteq Requests
    BY <1>9, <2>1 DEF TypeOK
  <2>3. tickets' \in [Users -> SUBSET Requests]
    BY <1>14, <2>2 DEF DeleteTicket, FailRead
  <2>4. For(u, reading[u]) /\ For(u, stored[u])
    BY <1>9 DEF FiledRight
  <2>5. ASSUME NEW q \in fresh', OtherPlayer(q) = u, q \in {stored[u], reading[u]}
        PROVE  \E r \in Requests \ {q} : match[r] # << >> /\ OtherPlayer(r) = u
    BY <2>1, <2>2, <2>4, <2>5 DEF For
  <2>6. unheard' \in Nat
    BY <1>9, <2>1 DEF TypeOK, requestVars
  <2> QED
    BY <2>1, <2>3, <2>5, <2>6, PollStep DEF requestVars
<1>15. ASSUME NEW u \in Users, ExpireTicket(u)
      PROVE  TicketInv'
  <2>1. /\ stored' = [stored EXCEPT ![u] = None] /\ stored[u] \notin fresh
        /\ UNCHANGED <<reading, tickets, fresh>> /\ UNCHANGED requestVars
        /\ reading'[u] = reading[u]
    BY <1>15 DEF ExpireTicket
  <2>2. tickets' \in [Users -> SUBSET Requests] /\ unheard' \in Nat
    BY <1>9, <2>1 DEF TypeOK, requestVars
  <2> QED
    BY <2>1, <2>2, PollStep DEF requestVars
<1>16. ASSUME NEW q \in Requests, GrowOld(q)
      PROVE  TicketInv'
  <2>1. /\ UNCHANGED <<requestVars, stored, reading, tickets>>
        /\ fresh' \subseteq fresh
    BY <1>16 DEF GrowOld
  <2>2. TypeOK' /\ OneMatchEach' /\ FiledRight'
    BY <1>9, <2>1 DEF TypeOK, OneMatchEach, FiledRight, For, OtherPlayer, requestVars
  <2>3. FreshTicketsCanBePolled'
    BY <2>1, FreshFrom DEF TicketInv, FreshTicketsCanBePolled, requestVars
  <2> QED
    BY <2>2, <2>3 DEF TicketInv
<1>17. ASSUME UNCHANGED vars
      PROVE  TicketInv'
  <2>1. /\ UNCHANGED <<match, ticketVars>>
        /\ UNCHANGED <<queue, pc, popped, arrived, dropped, unheard>>
    BY <1>17 DEF vars, requestVars
  <2>2. FiledRight' /\ FreshTicketsCanBePolled'
    BY <2>1, HandlerKeepsTickets
  <2>3. TypeOK' /\ OneMatchEach'
    BY <1>9, <2>1 DEF TypeOK, OneMatchEach, ticketVars
  <2> QED
    BY <2>2, <2>3 DEF TicketInv
<1>18. ASSUME NEW u \in Users, DeleteUnheard(u)
      PROVE  TicketInv'
  <2>1. /\ reading[u] # None /\ UNCHANGED <<queue, pc, popped, match, arrived, dropped>>
        /\ stored' = [stored EXCEPT ![u] = None] /\ unheard' = unheard + 1
        /\ UNCHANGED <<reading, tickets, fresh>>
    BY <1>18 DEF DeleteUnheard, Unheard
  <2>2. /\ reading[u] \in Requests /\ reading'[u] = reading[u] /\ unheard' \in Nat
        /\ tickets' \in [Users -> SUBSET Requests]
    BY <1>9, <2>1 DEF TypeOK
  <2>3. For(u, reading[u])
    BY <1>9 DEF FiledRight
  <2>4. ASSUME NEW q \in fresh', OtherPlayer(q) = u, q \in {stored[u], reading[u]}
        PROVE  \/ q \in {stored'[u], reading'[u]}
               \/ \E r \in Requests \ {q} : match[r] # << >> /\ OtherPlayer(r) = u
    BY <2>1, <2>2, <2>3, <2>4 DEF For
  <2> QED
    BY <2>1, <2>2, <2>4, PollStep
<1> QED
  BY <1>10, <1>11, <1>12, <1>13, <1>14, <1>15, <1>16, <1>17, <1>18 DEF Next, Handles, Ends

-----------------------------------------------------------------------------
(* The theorems *)

(* In every behaviour: a request makes one match at most, and a ticket     *)
(* kept by /request or read by /ticket is filed under the other player.    *)
THEOREM TicketInvariant == Spec => []TicketInv
<1>1. TicketInv /\ [Next]_vars => TicketInv'
  BY TicketStep
<1> QED
  BY <1>1, TicketInit, PTL DEF Spec

(* The handlers of matchmaking/routes.py keep every variable in its type.  *)
THEOREM TypeCorrect == Spec => []TypeOK
<1>1. TicketInv => TypeOK
  BY DEF TicketInv
<1> QED
  BY <1>1, TicketInvariant, PTL

(* The key mm:ticket:<user> and what GET /ticket read of it are for a      *)
(* match of that user, however polls, pairings and expiries interleave.    *)
THEOREM PollersGetTheirOwn == Spec => []StoredTicketsAreForPlayers
<1>1. ASSUME TicketInv
      PROVE  StoredTicketsAreForPlayers
  <2>1. ASSUME NEW u \in Users, NEW q \in {stored[u], reading[u]}, q # None
        PROVE  q \in Requests /\ Plays(u, q)
    <3>1. q \in Requests /\ For(u, q)
      BY <1>1, <2>1 DEF TicketInv, TypeOK, FiledRight
    <3> QED
      BY <1>1, <2>1, <3>1, PlayersAreUsers DEF TicketInv, For
  <2> QED
    BY <2>1 DEF StoredTicketsAreForPlayers
<1> QED
  BY <1>1, TicketInvariant, PTL

(* While its signature is good, the ticket of a match made by POST         *)
(* /request can be polled, unless a poll of it failed or another match of  *)
(* the same player displaced it.                                           *)
THEOREM TicketsStayPollable == Spec => []FreshTicketsCanBePolled
<1>1. TicketInv => FreshTicketsCanBePolled
  BY DEF TicketInv
<1> QED
  BY <1>1, TicketInvariant, PTL

=============================================================================
