-------------------------- MODULE RateLimitProofs ---------------------------
(***************************************************************************)
(* Theorems about RateLimit, for any number of requests, limit and window: *)
(* types, expiries, and what a window sees at most.                        *)
(***************************************************************************)
EXTENDS RateLimit, FiniteSetTheorems, TLAPS

-----------------------------------------------------------------------------
(* Type correctness *)

LEMMA TypeInit == Init => TypeOK
<1>1. 0 \in Ages
  BY LimitAssumption DEF Ages
<1> SUFFICES ASSUME Init PROVE TypeOK
  OBVIOUS
<1>2. /\ stage   \in [Requests -> {"idle", "expire", "ttl"}]
      /\ current \in [Requests -> Nat]
  BY DEF Init
<1>3. /\ age    \in [Requests -> Ages \cup {Window}]
      /\ life   \in [Requests -> Ages \cup {Window}]
      /\ recent \subseteq [life : Nat, rank : Nat, age : Ages]
  BY <1>1 DEF Init
<1> QED
  BY <1>2, <1>3 DEF Init, TypeOK

(* Letting a request through writes an idle stage and a longer history. *)
LEMMA LetThroughTypes ==
  ASSUME TypeOK, NEW q \in Requests, LetThrough(q)
  PROVE  /\ stage' \in [Requests -> {"idle", "expire", "ttl"}]
         /\ recent' \subseteq [life : Nat, rank : Nat, age : Ages]
<1>1. /\ life[q] \in Nat /\ current[q] \in Nat /\ age[q] \in Ages \cup {Window}
      /\ stage \in [Requests -> {"idle", "expire", "ttl"}]
      /\ recent \subseteq [life : Nat, rank : Nat, age : Ages]
  BY LimitAssumption DEF TypeOK, Ages
<1>2. age[q] < Window => age[q] \in Ages
  BY <1>1, LimitAssumption DEF Ages
<1>3. stage' \in [Requests -> {"idle", "expire", "ttl"}]
  BY <1>1 DEF LetThrough, Goto
<1>4. recent' \subseteq [life : Nat, rank : Nat, age : Ages]
  BY <1>1, <1>2 DEF LetThrough
<1> QED
  BY <1>3, <1>4

(* What a tick does to the key and to the requests. *)
LEMMA TickEffects ==
  ASSUME Tick
  PROVE  /\ ttl = 1 => count' = 0 /\ ttl' = None /\ orphaned' = FALSE
         /\ ttl # 1 => /\ ttl' = (IF ttl = None THEN None ELSE ttl - 1)
                       /\ count' = count /\ orphaned' = orphaned
         /\ age'  = [q \in Requests |-> IF age[q] = Window THEN Window ELSE age[q] + 1]
         /\ life' = [q \in Requests |-> IF ttl # 1 \/ life[q] = Window THEN life[q]
                                                                      ELSE life[q] + 1]
         /\ stage' = stage /\ current' = current
  BY Zenon DEF Tick

LEMMA TickRecent ==
  ASSUME TypeOK, Tick, NEW s \in recent'
  PROVE  \E r \in recent :
           /\ r.age + 1 < Window
           /\ s = [life |-> IF ttl = 1 THEN r.life + 1 ELSE r.life,
                   rank |-> r.rank, age |-> r.age + 1]
<1>1. PICK r \in recent : /\ r.age + 1 < Window
                          /\ s = [r EXCEPT !.age = @ + 1,
                                           !.life = IF ttl = 1 THEN @ + 1 ELSE @]
  BY Zenon DEF Tick
<1>2. r \in [life : Nat, rank : Nat, age : Ages]
  BY DEF TypeOK
<1> QED
  BY <1>1, <1>2

LEMMA TypeStep == TypeOK /\ [Next]_vars => TypeOK'
<1> SUFFICES ASSUME TypeOK, [Next]_vars PROVE TypeOK'
  OBVIOUS
<1> USE LimitAssumption
<1>0. 0 \in Ages /\ Window \in 1 .. Window
  BY DEF Ages
<1>1. ASSUME NEW q \in Requests, Incr(q) PROVE TypeOK'
  BY <1>0, <1>1 DEF TypeOK, Incr, Goto
<1>2. ASSUME NEW q \in Requests, IncrUnheard(q) PROVE TypeOK'
  BY <1>2 DEF TypeOK, IncrUnheard, FailOpen, Goto
<1>3. ASSUME NEW q \in Requests, IncrResent(q) PROVE TypeOK'
  BY <1>0, <1>3 DEF TypeOK, IncrResent, Goto
<1>4. ASSUME NEW q \in Requests, Expire(q) PROVE TypeOK'
  BY <1>0, <1>4 DEF TypeOK, Expire, Goto
<1>5. ASSUME NEW q \in Requests, ExpireFails(q) PROVE TypeOK'
  BY <1>0, <1>5 DEF TypeOK, ExpireFails, FailOpen, Goto
<1>6. ASSUME NEW q \in Requests, Judge(q) PROVE TypeOK'
  <2>1. /\ stage' \in [Requests -> {"idle", "expire", "ttl"}]
        /\ recent' \subseteq [life : Nat, rank : Nat, age : Ages]
    BY <1>6, LetThroughTypes DEF TypeOK, Judge, Goto
  <2> QED
    BY <1>6, <2>1 DEF TypeOK, Judge, redisVars
<1>7. ASSUME NEW q \in Requests, JudgeFails(q) PROVE TypeOK'
  BY <1>7 DEF TypeOK, JudgeFails, FailOpen, Goto, redisVars
<1>8. CASE Tick
  <2>1. ttl' \in 1 .. Window \cup {None} /\ count' \in Nat /\ orphaned' \in BOOLEAN
    <3>1. CASE ttl = 1
      <4>1. count' = 0 /\ ttl' = None /\ orphaned' = FALSE
        BY <1>8, <3>1, TickEffects
      <4> QED
        BY <4>1
    <3>2. CASE ttl = None
      BY <1>8, <3>2, TickEffects DEF TypeOK
    <3>3. CASE ttl \in 2 .. Window
      <4>1. ttl' = ttl - 1 /\ UNCHANGED <<count, orphaned>>
        BY <1>8, <3>3, TickEffects
      <4> QED
        BY <3>3, <4>1 DEF TypeOK
    <3> QED
      BY <3>1, <3>2, <3>3 DEF TypeOK
  <2>2. /\ age' \in [Requests -> Ages \cup {Window}]
        /\ life' \in [Requests -> Ages \cup {Window}]
        /\ stage' = stage /\ current' = current
    BY <1>8, TickEffects DEF TypeOK, Ages
  <2>3. recent' \subseteq [life : Nat, rank : Nat, age : Ages]
    <3>1. ASSUME NEW s \in recent'
          PROVE  s \in [life : Nat, rank : Nat, age : Ages]
      <4>1. PICK r \in recent :
              /\ r.age + 1 < Window
              /\ s = [life |-> IF ttl = 1 THEN r.life + 1 ELSE r.life,
                      rank |-> r.rank, age |-> r.age + 1]
        BY <1>8, <3>1, TickRecent
      <4>2. r.life \in Nat /\ r.rank \in Nat /\ r.age \in Ages
        BY DEF TypeOK
      <4>3. r.age + 1 \in Ages /\ (IF ttl = 1 THEN r.life + 1 ELSE r.life) \in Nat
        BY <4>1, <4>2 DEF Ages
      <4> QED
        BY <4>1, <4>2, <4>3
    <3> QED
      BY <3>1
  <2> QED
    BY <2>1, <2>2, <2>3 DEF TypeOK
<1>9. CASE Restart
  BY <1>9 DEF TypeOK, Restart, redisVars
<1>10. CASE UNCHANGED vars
  BY <1>10 DEF TypeOK, vars, redisVars, requestVars
<1> QED
  BY <1>1, <1>2, <1>3, <1>4, <1>5, <1>6, <1>7, <1>8, <1>9, <1>10 DEF Next, ExpireStep

(* Every reachable state of the limiter is well-typed. *)
THEOREM TypeCorrect == Spec => []TypeOK
BY TypeInit, TypeStep, PTL DEF Spec

-----------------------------------------------------------------------------
(* A counter without an expiry has its EXPIRE on the way, or lost it.  The *)
(* request that sends the EXPIRE is the only one, because the counter was  *)
(* zero before it, and the key it made cannot go before its EXPIRE.        *)
FirstIsAlone ==
  /\ count = 0 => ttl = None
  /\ \A q \in Requests : stage[q] = "expire" => count > 0 /\ ttl = None
  /\ \A p, q \in Requests : stage[p] = "expire" /\ stage[q] = "expire" => p = q

ExpiryInv == TypeOK /\ FirstIsAlone /\ ExpiryFollows

LEMMA ExpiryInit == Init => ExpiryInv
BY TypeInit DEF Init, ExpiryInv, FirstIsAlone, ExpiryFollows

(* A step after which the same or fewer requests are about to send EXPIRE, *)
(* and the key is as it was.                                               *)
LEMMA KeyKept ==
  ASSUME ExpiryInv, NEW q \in Requests, stage[q] # "expire",
         stage' = [stage EXCEPT ![q] = "idle"], UNCHANGED <<count, ttl, orphaned>>
  PROVE  FirstIsAlone' /\ ExpiryFollows'
<1>1. \A p \in Requests : stage'[p] = "expire" <=> stage[p] = "expire"
  BY DEF ExpiryInv, TypeOK
<1>2. FirstIsAlone'
  BY <1>1 DEF ExpiryInv, FirstIsAlone
<1>3. ExpiryFollows'
  BY <1>1 DEF ExpiryInv, ExpiryFollows
<1> QED
  BY <1>2, <1>3

(* An INCR that sends no EXPIRE: the key had its owner, or is orphaned. *)
LEMMA CountedKept ==
  ASSUME ExpiryInv, NEW q \in Requests, NEW k \in {1, 2}, stage[q] = "idle",
         stage' = [stage EXCEPT ![q] = IF IsFirst(count + k) THEN "expire" ELSE "ttl"],
         count' = count + k, ttl' = ttl,
         orphaned' = (orphaned \/ (k = 2 /\ count = 0))
  PROVE  FirstIsAlone' /\ ExpiryFollows'
<1>0. count \in Nat /\ stage \in [Requests -> {"idle", "expire", "ttl"}]
      /\ orphaned \in BOOLEAN
  BY DEF ExpiryInv, TypeOK
<1>1. IsFirst(count + k) <=> k = 1 /\ count = 0
  BY <1>0 DEF IsFirst
<1>2. CASE IsFirst(count + k)
  <2>1. \A p \in Requests : stage[p] # "expire"
    BY <1>0, <1>1, <1>2 DEF ExpiryInv, FirstIsAlone
  <2>2. \A p \in Requests : stage'[p] = "expire" <=> p = q
    BY <1>0, <1>2, <2>1
  <2>3. count' > 0 /\ ttl' = None
    BY <1>0, <1>1, <1>2 DEF ExpiryInv, FirstIsAlone
  <2> QED
    BY <1>0, <2>2, <2>3 DEF FirstIsAlone, ExpiryFollows
<1>3. CASE ~IsFirst(count + k)
  <2>1. \A p \in Requests : stage'[p] = "expire" <=> stage[p] = "expire"
    BY <1>0, <1>3
  <2>2. count' > 0
    BY <1>0
  <2>3. FirstIsAlone'
    BY <1>0, <2>1, <2>2 DEF ExpiryInv, FirstIsAlone
  <2>4. CASE count = 0
    <3>1. orphaned'
      BY <1>0, <1>1, <1>3, <2>4
    <3> QED
      BY <2>3, <3>1 DEF ExpiryFollows
  <2>5. CASE count # 0
    <3>1. orphaned => orphaned'
      BY <1>0
    <3> QED
      BY <1>0, <2>1, <2>3, <2>5, <3>1 DEF ExpiryInv, ExpiryFollows
  <2> QED
    BY <2>4, <2>5
<1> QED
  BY <1>2, <1>3

LEMMA ExpiryStep == ExpiryInv /\ [Next]_vars => ExpiryInv'
<1> SUFFICES ASSUME ExpiryInv, [Next]_vars PROVE FirstIsAlone' /\ ExpiryFollows'
  BY TypeStep DEF ExpiryInv
<1>0. /\ count \in Nat /\ stage \in [Requests -> {"idle", "expire", "ttl"}]
      /\ ttl \in 1 .. Window \cup {None} /\ orphaned \in BOOLEAN
  BY DEF ExpiryInv, TypeOK
<1>1. ASSUME NEW q \in Requests, Incr(q) PROVE FirstIsAlone' /\ ExpiryFollows'
  <2>1. /\ stage[q] = "idle" /\ count' = count + 1 /\ ttl' = ttl
        /\ stage' = [stage EXCEPT ![q] = IF IsFirst(count + 1) THEN "expire" ELSE "ttl"]
    BY <1>1 DEF Incr, Goto
  <2>2. orphaned' = (orphaned \/ (1 = 2 /\ count = 0))
    BY <1>0, <1>1 DEF Incr
  <2>3. 1 \in {1, 2}
    OBVIOUS
  <2> QED
    BY <2>1, <2>2, <2>3, CountedKept
<1>2. ASSUME NEW q \in Requests, IncrUnheard(q) PROVE FirstIsAlone' /\ ExpiryFollows'
  <2>1. \A p \in Requests : stage'[p] = "expire" <=> stage[p] = "expire"
    BY <1>0, <1>2 DEF IncrUnheard, FailOpen, Goto
  <2>2. count' > 0 /\ ttl' = ttl
    BY <1>0, <1>2 DEF IncrUnheard
  <2>3. FirstIsAlone'
    BY <1>0, <2>1, <2>2 DEF ExpiryInv, FirstIsAlone
  <2>4. (orphaned \/ count = 0) => orphaned'
    BY <1>2 DEF IncrUnheard
  <2>5. ExpiryFollows'
    <3>1. CASE orphaned \/ count = 0
      BY <2>4, <3>1 DEF ExpiryFollows
    <3>2. CASE ~orphaned /\ count > 0
      BY <2>1, <2>2, <3>2 DEF ExpiryInv, ExpiryFollows
    <3> QED
      BY <1>0, <3>1, <3>2
  <2> QED
    BY <2>3, <2>5
<1>3. ASSUME NEW q \in Requests, IncrResent(q) PROVE FirstIsAlone' /\ ExpiryFollows'
  <2>1. /\ stage[q] = "idle" /\ count' = count + 2 /\ ttl' = ttl
        /\ stage' = [stage EXCEPT ![q] = IF IsFirst(count + 2) THEN "expire" ELSE "ttl"]
    BY <1>3 DEF IncrResent, Goto
  <2>2. orphaned' = (orphaned \/ (2 = 2 /\ count = 0))
    BY <1>0, <1>3 DEF IncrResent
  <2>3. 2 \in {1, 2}
    OBVIOUS
  <2> QED
    BY <2>1, <2>2, <2>3, CountedKept
<1>4. ASSUME NEW q \in Requests, ExpireStep(q) PROVE FirstIsAlone' /\ ExpiryFollows'
  <2>1. \A p \in Requests : stage'[p] # "expire"
    BY <1>0, <1>4 DEF ExpiryInv, FirstIsAlone, ExpireStep, Expire, ExpireFails, FailOpen, Goto
  <2>2. count' = count /\ count > 0
    BY <1>0, <1>4 DEF ExpiryInv, FirstIsAlone, ExpireStep, Expire, ExpireFails
  <2>3. ttl' = Window \/ orphaned' = TRUE
    BY <1>4 DEF ExpireStep, Expire, ExpireFails
  <2>4. FirstIsAlone'
    BY <1>0, <2>1, <2>2 DEF FirstIsAlone
  <2>5. ExpiryFollows'
    BY <2>3, LimitAssumption DEF ExpiryFollows
  <2> QED
    BY <2>4, <2>5
<1>5. ASSUME NEW q \in Requests, Judge(q) \/ JudgeFails(q)
      PROVE  FirstIsAlone' /\ ExpiryFollows'
  <2>1. stage[q] # "expire" /\ stage' = [stage EXCEPT ![q] = "idle"]
    BY <1>5 DEF Judge, JudgeFails, LetThrough, FailOpen, Goto
  <2>2. UNCHANGED <<count, ttl, orphaned>>
    BY <1>5 DEF Judge, JudgeFails, redisVars
  <2> QED
    BY <2>1, <2>2, KeyKept
<1>6. CASE Tick
  <2>1. stage' = stage
    BY <1>6 DEF Tick
  <2>2. CASE ttl = 1
    <3>1. count' = 0 /\ ttl' = None
      BY <1>6, <2>2 DEF Tick
    <3>2. \A p \in Requests : stage[p] # "expire"
      BY <2>2, LimitAssumption DEF ExpiryInv, FirstIsAlone
    <3> QED
      BY <2>1, <3>1, <3>2 DEF FirstIsAlone, ExpiryFollows
  <2>3. CASE ttl # 1
    <3>1. UNCHANGED <<count, orphaned>> /\ (ttl' = None <=> ttl = None)
      <4>1. CASE ttl = None
        BY <1>6, <2>3, <4>1, TickEffects
      <4>2. CASE ttl # None
        <5>1. ttl \in 2 .. Window /\ ttl' = ttl - 1 /\ UNCHANGED <<count, orphaned>>
          BY <1>0, <1>6, <2>3, <4>2, TickEffects
        <5> QED
          BY <4>2, <5>1, LimitAssumption
      <4> QED
        BY <4>1, <4>2
    <3> QED
      BY <2>1, <3>1 DEF ExpiryInv, FirstIsAlone, ExpiryFollows
  <2> QED
    BY <2>2, <2>3
<1>7. CASE Restart
  <2>1. \A p \in Requests : stage'[p] # "expire"
    BY <1>7 DEF Restart
  <2>2. UNCHANGED <<count, ttl>>
    BY <1>7 DEF Restart, redisVars
  <2>3. orphaned' = (orphaned \/ \E p \in Requests : stage[p] = "expire")
    BY <1>7 DEF Restart
  <2>4. FirstIsAlone'
    BY <2>1, <2>2 DEF ExpiryInv, FirstIsAlone
  <2>5. ExpiryFollows'
    BY <2>2, <2>3 DEF ExpiryInv, ExpiryFollows
  <2> QED
    BY <2>4, <2>5
<1>8. CASE UNCHANGED vars
  BY <1>8 DEF ExpiryInv, FirstIsAlone, ExpiryFollows, vars, redisVars, requestVars
<1> QED
  BY <1>1, <1>2, <1>3, <1>4, <1>5, <1>6, <1>7, <1>8 DEF Next

(* A key is left without an expiry only by an EXPIRE that was lost: no     *)
(* interleaving of requests, however many, does it by itself.              *)
THEOREM ExpiriesFollow == Spec => []ExpiryFollows
<1>1. ExpiryInv => ExpiryFollows
  BY DEF ExpiryInv
<1> QED
  BY <1>1, ExpiryInit, ExpiryStep, PTL DEF Spec

-----------------------------------------------------------------------------
(* Two windows *)

(* The ticks since the EXPIRE of the present key. *)
Elapsed == IF ttl = None THEN 0 ELSE Window - ttl

(* A request counted in this window was counted in the present life of the *)
(* counter, or in the one before, and then before the EXPIRE of this one.  *)
NearLife(l, a) == l \in {0, 1} /\ (l = 1 => a >= Elapsed)

(* Whose INCR was answered and is not a window ago. *)
Pending == {q \in Requests : stage[q] # "idle" /\ age[q] < Window}

Lives ==
  /\ \A r \in recent : NearLife(r.life, r.age)
  /\ \A q \in Requests : age[q] < Window => NearLife(life[q], age[q])

(* The counter gives no number twice in a life, and lets Max through.      *)
Ranks ==
  /\ \A r \in recent : r.rank \in 1 .. Max /\ (r.life = 0 => r.rank <= count)
  /\ \A q \in Pending : current[q] >= 1 /\ (life[q] = 0 => current[q] <= count)

RanksDiffer ==
  /\ \A r, s \in recent : r.life = s.life /\ r.rank = s.rank => r = s
  /\ \A r \in recent, q \in Pending : ~(r.life = life[q] /\ r.rank = current[q])
  /\ \A p, q \in Pending : life[p] = life[q] /\ current[p] = current[q] => p = q

WindowInv == TypeOK /\ Lives /\ Ranks /\ RanksDiffer

LEMMA WindowTypes ==
  ASSUME WindowInv
  PROVE  /\ Elapsed \in 0 .. Window - 1 /\ count \in Nat
         /\ stage \in [Requests -> {"idle", "expire", "ttl"}]
         /\ \A q \in Requests : /\ life[q] \in Nat /\ current[q] \in Nat
                                /\ age[q] \in 0 .. Window
         /\ \A r \in recent : r \in [life : Nat, rank : Nat, age : 0 .. Window - 1]
<1>1. TypeOK
  BY DEF WindowInv
<1>2. Elapsed \in 0 .. Window - 1
  BY <1>1, LimitAssumption DEF TypeOK, Elapsed
<1> QED
  BY <1>1, <1>2, LimitAssumption DEF TypeOK, Ages

LEMMA WindowInit == Init => WindowInv
<1> SUFFICES ASSUME Init PROVE WindowInv
  OBVIOUS
<1>1. Pending = {} /\ recent = {} /\ \A q \in Requests : life[q] = 0
  BY DEF Init, Pending
<1>2. Lives /\ Ranks /\ RanksDiffer
  BY <1>1 DEF Lives, NearLife, Ranks, RanksDiffer
<1> QED
  BY <1>2, TypeInit DEF WindowInv

(* Nothing counted, nothing let through, and no time: at most a new expiry. *)
LEMMA WindowKept ==
  ASSUME WindowInv, UNCHANGED <<current, age, life, recent>>,
         count' \in Nat, count' >= count, Elapsed' \in Nat, Elapsed' <= Elapsed,
         \A q \in Requests : stage'[q] # "idle" => stage[q] # "idle"
  PROVE  Lives' /\ Ranks' /\ RanksDiffer'
<1>1. /\ Elapsed \in 0 .. Window - 1 /\ count \in Nat
      /\ \A q \in Requests : /\ life[q] \in Nat /\ current[q] \in Nat
                             /\ age[q] \in 0 .. Window
      /\ \A r \in recent : r \in [life : Nat, rank : Nat, age : 0 .. Window - 1]
      /\ Lives /\ Ranks /\ RanksDiffer
  BY WindowTypes DEF WindowInv
<1>2. Pending' \subseteq Pending
  BY DEF Pending
<1>3. Lives'
  <2>1. ASSUME NEW l, NEW a \in Nat, NearLife(l, a)
        PROVE  l \in {0, 1} /\ (l = 1 => a >= Elapsed')
    BY <1>1, <2>1 DEF NearLife
  <2>2. \A r \in recent : r.life \in {0, 1} /\ (r.life = 1 => r.age >= Elapsed')
    BY <1>1, <2>1 DEF Lives
  <2>3. \A q \in Requests : age[q] < Window =>
          life[q] \in {0, 1} /\ (life[q] = 1 => age[q] >= Elapsed')
    BY <1>1, <2>1 DEF Lives
  <2> QED
    BY <2>2, <2>3 DEF Lives, NearLife
<1>4. Ranks'
  <2>1. \A r \in recent : r.rank \in 1 .. Max /\ (r.life = 0 => r.rank <= count')
    BY <1>1 DEF Ranks
  <2>2. \A q \in Pending : current[q] >= 1 /\ (life[q] = 0 => current[q] <= count')
    BY <1>1 DEF Ranks, Pending
  <2> QED
    BY <1>2, <2>1, <2>2 DEF Ranks
<1>5. RanksDiffer'
  BY <1>1, <1>2 DEF RanksDiffer
<1> QED
  BY <1>3, <1>4, <1>5

(* INCR answers with a number that nobody has in this life of the counter. *)
LEMMA WindowCounted ==
  ASSUME WindowInv, NEW q \in Requests, NEW k \in {1, 2}, stage[q] = "idle",
         count' = count + k, ttl' = ttl, recent' = recent,
         current' = [current EXCEPT ![q] = count + k],
         age' = [age EXCEPT ![q] = 0], life' = [life EXCEPT ![q] = 0],
         \A p \in Requests \ {q} : stage'[p] = stage[p]
  PROVE  Lives' /\ Ranks' /\ RanksDiffer'
<1>1. /\ Elapsed \in 0 .. Window - 1 /\ count \in Nat
      /\ \A p \in Requests : /\ life[p] \in Nat /\ current[p] \in Nat
                             /\ age[p] \in 0 .. Window
      /\ \A r \in recent : r \in [life : Nat, rank : Nat, age : 0 .. Window - 1]
      /\ Lives /\ Ranks /\ RanksDiffer
  BY WindowTypes DEF WindowInv
<1>2. /\ current'[q] = count + k /\ age'[q] = 0 /\ life'[q] = 0
      /\ \A p \in Requests \ {q} : current'[p] = current[p] /\ age'[p] = age[p]
                                  /\ life'[p] = life[p]
  BY DEF WindowInv, TypeOK
<1>3. q \notin Pending /\ \A p \in Pending' : p = q \/ p \in Pending
  BY <1>2 DEF Pending
<1>4. Elapsed' = Elapsed
  BY DEF Elapsed
<1>5. Lives'
  <2>1. \A r \in recent : NearLife(r.life, r.age)
    BY <1>1 DEF Lives
  <2>2. ASSUME NEW p \in Requests, age'[p] < Window
        PROVE  NearLife(life'[p], age'[p])
    <3>1. CASE p = q
      BY <1>2, <3>1 DEF NearLife
    <3>2. CASE p # q
      BY <1>1, <1>2, <2>2, <3>2 DEF Lives
    <3> QED
      BY <3>1, <3>2
  <2> QED
    BY <1>4, <2>1, <2>2 DEF Lives, NearLife
<1>6. Ranks'
  <2>1. \A r \in recent : r.rank \in 1 .. Max /\ (r.life = 0 => r.rank <= count + k)
    BY <1>1 DEF Ranks
  <2>2. ASSUME NEW p \in Pending'
        PROVE  current'[p] >= 1 /\ (life'[p] = 0 => current'[p] <= count + k)
    <3>1. CASE p = q
      BY <1>1, <1>2, <3>1
    <3>2. CASE p # q /\ p \in Pending
      BY <1>1, <1>2, <3>2 DEF Ranks, Pending
    <3> QED
      BY <1>3, <3>1, <3>2
  <2> QED
    BY <2>1, <2>2 DEF Ranks
<1>7. RanksDiffer'
  <2>1. \A r \in recent : r.life = 0 => r.rank # count + k
    BY <1>1 DEF Ranks
  <2>2. \A p \in Pending : life[p] = 0 => current[p] # count + k
    BY <1>1 DEF Ranks, Pending
  <2>3. ASSUME NEW r \in recent, NEW p \in Pending', r.life = life'[p], r.rank = current'[p]
        PROVE  FALSE
    <3>1. CASE p = q
      BY <1>2, <2>1, <2>3, <3>1
    <3>2. CASE p # q
      BY <1>1, <1>2, <1>3, <2>3, <3>2 DEF RanksDiffer, Pending
    <3> QED
      BY <3>1, <3>2
  <2>4. ASSUME NEW o \in Pending', NEW p \in Pending', life'[o] = life'[p],
               current'[o] = current'[p]
        PROVE  o = p
    <3>1. CASE o = q /\ p # q
      BY <1>2, <1>3, <2>2, <2>4, <3>1 DEF Pending
    <3>2. CASE o # q /\ p = q
      BY <1>2, <1>3, <2>2, <2>4, <3>2 DEF Pending
    <3>3. CASE o # q /\ p # q
      BY <1>1, <1>2, <1>3, <2>4, <3>3 DEF RanksDiffer, Pending
    <3> QED
      BY <3>1, <3>2, <3>3
  <2> QED
    BY <1>1, <2>3, <2>4 DEF RanksDiffer
<1> QED
  BY <1>5, <1>6, <1>7

(* A request with a number of at most Max goes through.                    *)
LEMMA WindowLetThrough ==
  ASSUME WindowInv, NEW q \in Requests, stage[q] = "ttl", ~Exceeds(current[q]),
         LetThrough(q), UNCHANGED <<redisVars, current, age, life>>
  PROVE  Lives' /\ Ranks' /\ RanksDiffer'
<1>1. /\ Elapsed \in 0 .. Window - 1 /\ count \in Nat
      /\ stage \in [Requests -> {"idle", "expire", "ttl"}]
      /\ \A p \in Requests : /\ life[p] \in Nat /\ current[p] \in Nat
                             /\ age[p] \in 0 .. Window
      /\ \A r \in recent : r \in [life : Nat, rank : Nat, age : 0 .. Window - 1]
      /\ Lives /\ Ranks /\ RanksDiffer
  BY WindowTypes DEF WindowInv
<1> DEFINE new == [life |-> life[q], rank |-> current[q], age |-> age[q]]
<1>2. /\ new.life = life[q] /\ new.rank = current[q] /\ new.age = age[q]
      /\ recent' = recent \cup {r \in {new} : r.age < Window}
  BY DEF LetThrough
<1> HIDE DEF new
<1>3. \A r \in recent' : r \in recent \/ (r = new /\ q \in Pending)
  BY <1>2 DEF Pending
<1>4. Pending' \subseteq Pending \ {q} /\ Elapsed' = Elapsed /\ UNCHANGED <<count, life, age, current>>
  BY <1>1 DEF LetThrough, Goto, Pending, Elapsed, redisVars
<1>5. Lives'
  <2>1. ASSUME NEW r \in recent'
        PROVE  NearLife(r.life, r.age)
    <3>1. CASE r \in recent
      BY <1>1, <3>1 DEF Lives
    <3>2. CASE r = new /\ q \in Pending
      BY <1>1, <1>2, <3>2 DEF Lives, Pending
    <3> QED
      BY <1>3, <3>1, <3>2
  <2> QED
    BY <1>1, <1>4, <2>1 DEF Lives, NearLife
<1>6. Ranks'
  <2>1. ASSUME NEW r \in recent'
        PROVE  r.rank \in 1 .. Max /\ (r.life = 0 => r.rank <= count)
    <3>1. CASE r \in recent
      BY <1>1, <3>1 DEF Ranks
    <3>2. CASE r = new /\ q \in Pending
      <4>1. current[q] <= Max /\ current[q] \in Nat
        BY <1>1, LimitAssumption DEF Exceeds
      <4>2. current[q] >= 1 /\ (life[q] = 0 => current[q] <= count)
        BY <1>1, <3>2 DEF Ranks
      <4> QED
        BY <1>2, <3>2, <4>1, <4>2, LimitAssumption
    <3> QED
      BY <1>3, <3>1, <3>2
  <2> QED
    BY <1>1, <1>4, <2>1 DEF Ranks
<1>7. RanksDiffer'
  <2>1. \A r \in recent : q \in Pending => ~(r.life = new.life /\ r.rank = new.rank)
    BY <1>1, <1>2 DEF RanksDiffer
  <2>2. ASSUME NEW r \in recent', NEW s \in recent', r.life = s.life, r.rank = s.rank
        PROVE  r = s
    <3>1. CASE r \in recent /\ s \in recent
      BY <1>1, <2>2, <3>1 DEF RanksDiffer
    <3>2. CASE r \in recent /\ s = new /\ q \in Pending
      BY <2>1, <2>2, <3>2
    <3>3. CASE r = new /\ q \in Pending /\ s \in recent
      BY <2>1, <2>2, <3>3
    <3> QED
      BY <1>3, <3>1, <3>2, <3>3
  <2>3. ASSUME NEW r \in recent', NEW p \in Pending', r.life = life[p], r.rank = current[p]
        PROVE  FALSE
    <3>0. p \in Pending /\ p # q
      BY <1>4
    <3>1. CASE r \in recent
      BY <1>1, <2>3, <3>0, <3>1 DEF RanksDiffer
    <3>2. CASE r = new /\ q \in Pending
      BY <1>1, <1>2, <2>3, <3>0, <3>2 DEF RanksDiffer
    <3> QED
      BY <1>3, <3>1, <3>2
  <2>4. \A o, p \in Pending' : life[o] = life[p] /\ current[o] = current[p] => o = p
    BY <1>1, <1>4 DEF RanksDiffer
  <2> QED
    BY <1>4, <2>2, <2>3, <2>4 DEF RanksDiffer
<1> QED
  BY <1>5, <1>6, <1>7

(* A tick: when the key is deleted, whoever was counted in the life before *)
(* it is a window old, so that the numbers of only one life live on.       *)
LEMMA WindowTick ==
  ASSUME WindowInv, Tick
  PROVE  Lives' /\ Ranks' /\ RanksDiffer'
<1>1. /\ Elapsed \in 0 .. Window - 1 /\ count \in Nat
      /\ stage \in [Requests -> {"idle", "expire", "ttl"}]
      /\ \A p \in Requests : /\ life[p] \in Nat /\ current[p] \in Nat
                             /\ age[p] \in 0 .. Window
      /\ \A r \in recent : /\ r \in [life : Nat, rank : Nat, age : 0 .. Window - 1]
                           /\ r.life \in Nat /\ r.rank \in Nat /\ r.age \in 0 .. Window - 1
      /\ Lives /\ Ranks /\ RanksDiffer /\ TypeOK
      /\ Window \in Nat \ {0} /\ ttl \in 1 .. Window \cup {None} /\ None \notin Int
  BY WindowTypes, LimitAssumption DEF WindowInv, TypeOK
<1> DEFINE After(l) == IF ttl = 1 THEN l + 1 ELSE l
<1>2. ASSUME NEW p \in Requests, age'[p] < Window
      PROVE  /\ age[p] < Window /\ age'[p] = age[p] + 1 /\ life'[p] = After(life[p])
             /\ NearLife(life[p], age[p])
  <2>1. age'[p] = IF age[p] = Window THEN Window ELSE age[p] + 1
    BY TickEffects
  <2>2. age[p] < Window /\ age'[p] = age[p] + 1
    BY <1>1, <1>2, <2>1
  <2>3. NearLife(life[p], age[p])
    BY <1>1, <2>2 DEF Lives
  <2>4. CASE ttl # 1
    BY <2>2, <2>3, <2>4, TickEffects
  <2>5. CASE ttl = 1
    <3>1. Elapsed = Window - 1
      BY <1>1, <2>5 DEF Elapsed
    <3>2. life[p] # Window
      <4>1. CASE life[p] = 0
        BY <1>1, <4>1
      <4>2. CASE life[p] = 1
        BY <1>1, <1>2, <2>2, <2>3, <3>1, <4>2 DEF NearLife
      <4> QED
        BY <2>3, <4>1, <4>2 DEF NearLife
    <3> QED
      BY <2>2, <2>3, <2>5, <3>2, TickEffects
  <2> QED
    BY <2>4, <2>5
<1>3. Elapsed' = IF ttl = 1 \/ ttl = None THEN 0 ELSE Elapsed + 1
  <2>1. CASE ttl = 1
    BY <2>1, TickEffects DEF Elapsed
  <2>2. CASE ttl = None
    BY <1>1, <2>2, TickEffects DEF Elapsed
  <2>3. CASE ttl \in 2 .. Window
    <3>1. ttl' = ttl - 1 /\ ttl' \in Int /\ ttl # None
      BY <1>1, <2>3, TickEffects
    <3>2. ttl' # None
      BY <1>1, <3>1
    <3> QED
      BY <1>1, <2>3, <3>1, <3>2 DEF Elapsed
  <2> QED
    BY <1>1, <2>1, <2>2, <2>3
<1>4. ASSUME NEW l \in Nat, NEW a \in Nat, a + 1 < Window, NearLife(l, a)
      PROVE  /\ After(l) \in {0, 1} /\ (After(l) = 1 => a + 1 >= Elapsed')
             /\ After(l) = 0 => l = 0 /\ ttl # 1
             /\ ttl = 1 => l = 0
  <2>1. l \in {0, 1} /\ (l = 1 => a >= Elapsed)
    BY <1>4 DEF NearLife
  <2>2. CASE ttl = 1
    <3>1. Elapsed = Window - 1 /\ Elapsed' = 0
      BY <1>1, <1>3, <2>2 DEF Elapsed
    <3>2. l = 0
      BY <1>1, <1>4, <2>1, <3>1
    <3> QED
      BY <2>2, <3>1, <3>2
  <2>3. CASE ttl # 1
    BY <1>1, <1>3, <2>1, <2>3
  <2> QED
    BY <2>2, <2>3
<1>5. ASSUME NEW s \in recent'
      PROVE  \E r \in recent : /\ r.age + 1 < Window /\ s.age = r.age + 1
                               /\ s.rank = r.rank /\ s.life = After(r.life)
                               /\ NearLife(r.life, r.age)
                               /\ s = [life |-> After(r.life), rank |-> r.rank,
                                       age |-> r.age + 1]
  BY <1>1, <1>5, TickRecent DEF Lives
<1>6. /\ \A l, m \in Nat : After(l) = After(m) => l = m
      /\ Pending' \subseteq Pending /\ current' = current
      /\ ttl # 1 => count' = count
  <2>1. \A l, m \in Nat : After(l) = After(m) => l = m
    OBVIOUS
  <2>2. Pending' \subseteq Pending
    BY <1>2, TickEffects DEF Pending
  <2> QED
    BY <2>1, <2>2, TickEffects
<1> HIDE DEF After
<1>7. Lives'
  <2>1. ASSUME NEW s \in recent'
        PROVE  s.life \in {0, 1} /\ (s.life = 1 => s.age >= Elapsed')
    <3>1. PICK r \in recent : /\ r.age + 1 < Window /\ s.age = r.age + 1
                              /\ s.life = After(r.life) /\ NearLife(r.life, r.age)
      BY <1>5
    <3>2. r.life \in Nat /\ r.age \in Nat
      BY <1>1
    <3>3. s.life \in {0, 1} /\ (s.life = 1 => r.age + 1 >= Elapsed')
      BY <1>4, <3>1, <3>2
    <3> QED
      BY <3>1, <3>3
  <2>2. ASSUME NEW p \in Requests, age'[p] < Window
        PROVE  life'[p] \in {0, 1} /\ (life'[p] = 1 => age'[p] >= Elapsed')
    <3>1. /\ age[p] + 1 < Window /\ age'[p] = age[p] + 1 /\ life'[p] = After(life[p])
          /\ NearLife(life[p], age[p])
      BY <1>1, <1>2, <2>2
    <3>2. life[p] \in Nat /\ age[p] \in Nat
      BY <1>1
    <3>3. life'[p] \in {0, 1} /\ (life'[p] = 1 => age[p] + 1 >= Elapsed')
      BY <1>4, <3>1, <3>2
    <3> QED
      BY <3>1, <3>3
  <2> QED
    BY <2>1, <2>2 DEF Lives, NearLife
<1>8. Ranks'
  <2>1. ASSUME NEW s \in recent'
        PROVE  s.rank \in 1 .. Max /\ (s.life = 0 => s.rank <= count')
    <3>1. PICK r \in recent : /\ r.age + 1 < Window /\ s.rank = r.rank
                              /\ s.life = After(r.life) /\ NearLife(r.life, r.age)
      BY <1>5
    <3>2. r.life \in Nat /\ r.age \in Nat
      BY <1>1
    <3>3. s.life = 0 => r.life = 0 /\ ttl # 1
      BY <1>4, <3>1, <3>2
    <3> QED
      BY <1>1, <1>6, <3>1, <3>3 DEF Ranks
  <2>2. ASSUME NEW p \in Pending'
        PROVE  current'[p] >= 1 /\ (life'[p] = 0 => current'[p] <= count')
    <3>1. /\ age[p] + 1 < Window /\ life'[p] = After(life[p]) /\ p \in Requests
          /\ NearLife(life[p], age[p]) /\ p \in Pending
      BY <1>2, <1>6 DEF Pending
    <3>2. life[p] \in Nat /\ age[p] \in Nat
      BY <1>1, <3>1
    <3>3. life'[p] = 0 => life[p] = 0 /\ ttl # 1
      BY <1>4, <3>1, <3>2
    <3> QED
      BY <1>1, <1>6, <3>1, <3>3 DEF Ranks
  <2> QED
    BY <2>1, <2>2 DEF Ranks
<1>9. RanksDiffer'
  <2>0. ASSUME NEW p \in Pending'
        PROVE  p \in Pending /\ p \in Requests /\ life'[p] = After(life[p])
               /\ life[p] \in Nat
    BY <1>1, <1>2, <1>6 DEF Pending
  <2>1. ASSUME NEW s \in recent', NEW u \in recent', s.life = u.life, s.rank = u.rank
        PROVE  s = u
    <3>1. PICK r \in recent : /\ s.rank = r.rank /\ s.life = After(r.life)
                              /\ s = [life |-> After(r.life), rank |-> r.rank,
                                      age |-> r.age + 1]
      BY <1>5
    <3>2. PICK o \in recent : /\ u.rank = o.rank /\ u.life = After(o.life)
                              /\ u = [life |-> After(o.life), rank |-> o.rank,
                                      age |-> o.age + 1]
      BY <1>5
    <3>3. r.life = o.life /\ r.rank = o.rank
      BY <1>1, <1>6, <2>1, <3>1, <3>2
    <3>4. r = o
      BY <1>1, <3>3 DEF RanksDiffer
    <3> QED
      BY <3>1, <3>2, <3>4
  <2>2. ASSUME NEW s \in recent', NEW p \in Pending', s.life = life'[p], s.rank = current'[p]
        PROVE  FALSE
    <3>1. PICK r \in recent : s.rank = r.rank /\ s.life = After(r.life)
      BY <1>5
    <3>2. r.life \in Nat /\ After(r.life) = After(life[p])
      BY <1>1, <2>0, <2>2, <3>1
    <3>3. r.rank = current[p]
      BY <1>6, <2>2, <3>1
    <3>4. r.life = life[p]
      BY <1>6, <2>0, <3>2
    <3> QED
      BY <1>1, <2>0, <3>3, <3>4 DEF RanksDiffer
  <2>3. ASSUME NEW o \in Pending', NEW p \in Pending', life'[o] = life'[p],
               current'[o] = current'[p]
        PROVE  o = p
    <3>1. life[o] = life[p] /\ current[o] = current[p]
      BY <1>6, <2>0, <2>3
    <3> QED
      BY <1>1, <2>0, <3>1 DEF RanksDiffer
  <2> QED
    BY <2>1, <2>2, <2>3 DEF RanksDiffer
<1> QED
  BY <1>7, <1>8, <1>9

LEMMA WindowStep == WindowInv /\ [Next]_vars => WindowInv'
<1> SUFFICES ASSUME WindowInv, [Next]_vars PROVE Lives' /\ Ranks' /\ RanksDiffer'
  BY TypeStep DEF WindowInv
<1>1. /\ Elapsed \in 0 .. Window - 1 /\ count \in Nat
      /\ stage \in [Requests -> {"idle", "expire", "ttl"}]
      /\ Window # None /\ Window \in Nat
  BY WindowTypes, LimitAssumption
<1>2. ASSUME NEW q \in Requests, Incr(q) PROVE Lives' /\ Ranks' /\ RanksDiffer'
  <2>1. /\ stage[q] = "idle" /\ count' = count + 1 /\ ttl' = ttl /\ recent' = recent
        /\ current' = [current EXCEPT ![q] = count + 1]
        /\ age' = [age EXCEPT ![q] = 0] /\ life' = [life EXCEPT ![q] = 0]
        /\ \A p \in Requests \ {q} : stage'[p] = stage[p]
    BY <1>1, <1>2 DEF Incr, Goto
  <2> QED
    BY <2>1, WindowCounted
<1>3. ASSUME NEW q \in Requests, IncrResent(q) PROVE Lives' /\ Ranks' /\ RanksDiffer'
  <2>1. /\ stage[q] = "idle" /\ count' = count + 2 /\ ttl' = ttl /\ recent' = recent
        /\ current' = [current EXCEPT ![q] = count + 2]
        /\ age' = [age EXCEPT ![q] = 0] /\ life' = [life EXCEPT ![q] = 0]
        /\ \A p \in Requests \ {q} : stage'[p] = stage[p]
    BY <1>1, <1>3 DEF IncrResent, Goto
  <2> QED
    BY <2>1, WindowCounted
<1>4. ASSUME NEW q \in Requests,
             IncrUnheard(q) \/ ExpireStep(q) \/ JudgeFails(q)
             \/ (Judge(q) /\ Exceeds(current[q]))
      PROVE  Lives' /\ Ranks' /\ RanksDiffer'
  <2>1. UNCHANGED <<current, age, life, recent>>
    BY <1>4 DEF IncrUnheard, ExpireStep, Expire, ExpireFails, JudgeFails, Judge, FailOpen
  <2>2. count' \in Nat /\ count' >= count
    BY <1>1, <1>4
    DEF IncrUnheard, ExpireStep, Expire, ExpireFails, JudgeFails, Judge, redisVars
  <2>3. ttl' = ttl \/ ttl' = Window
    BY <1>4 DEF IncrUnheard, ExpireStep, Expire, ExpireFails, JudgeFails, Judge, redisVars
  <2>4. Elapsed' \in Nat /\ Elapsed' <= Elapsed
    BY <1>1, <2>3 DEF Elapsed
  <2>5. \A p \in Requests : stage'[p] # "idle" => stage[p] # "idle"
    BY <1>1, <1>4
    DEF IncrUnheard, ExpireStep, Expire, ExpireFails, JudgeFails, Judge, FailOpen, Goto
  <2> QED
    BY <2>1, <2>2, <2>4, <2>5, WindowKept
<1>5. ASSUME NEW q \in Requests, Judge(q), ~Exceeds(current[q])
      PROVE  Lives' /\ Ranks' /\ RanksDiffer'
  <2>1. stage[q] = "ttl" /\ LetThrough(q) /\ UNCHANGED <<redisVars, current, age, life>>
    BY <1>5 DEF Judge
  <2> QED
    BY <1>5, <2>1, WindowLetThrough
<1>6. CASE Tick
  BY <1>6, WindowTick
<1>7. CASE Restart \/ UNCHANGED vars
  <2>1. UNCHANGED <<current, age, life, recent, count, ttl>>
    BY <1>7 DEF Restart, vars, requestVars, redisVars
  <2>2. Elapsed' \in Nat /\ Elapsed' <= Elapsed
    BY <1>1, <2>1 DEF Elapsed
  <2>3. \A p \in Requests : stage'[p] # "idle" => stage[p] # "idle"
    BY <1>7 DEF Restart, vars, requestVars
  <2> QED
    BY <1>1, <2>1, <2>2, <2>3, WindowKept
<1> QED
  BY <1>2, <1>3, <1>4, <1>5, <1>6, <1>7 DEF Next

(* Any window_seconds see at most twice max_requests go through the check  *)
(* of check_rate_limit, whatever fails and however many requests overlap:  *)
(* they have different numbers in two lives of the counter.                *)
THEOREM TwoWindows == Spec => []AtMostTwoWindows
<1>1. ASSUME WindowInv
      PROVE  AtMostTwoWindows
  <2> DEFINE Numbers == {0, 1} \X (1 .. Max)
             number == [r \in recent |-> <<r.life, r.rank>>]
  <2>1. Lives /\ Ranks /\ RanksDiffer
    BY <1>1 DEF WindowInv
  <2>2. \A r \in recent : <<r.life, r.rank>> \in Numbers
    BY <2>1 DEF Lives, NearLife, Ranks
  <2>3. \A r, s \in recent : <<r.life, r.rank>> = <<s.life, s.rank>> => r = s
    BY <2>1 DEF RanksDiffer
  <2>4. number \in Injection(recent, Numbers)
    BY <2>2, <2>3 DEF Injection, IsInjective
  <2>5. IsFiniteSet(Numbers) /\ Cardinality(Numbers) = 2 * Max
    <3>1. IsFiniteSet({0, 1}) /\ Cardinality({0, 1}) = 2
      <4>1. {0} \cup {1} = {0, 1} /\ 1 \notin {0}
        OBVIOUS
      <4>2. IsFiniteSet({0}) /\ Cardinality({0}) = 1
        BY FS_Singleton
      <4> QED
        BY <4>1, <4>2, FS_AddElement
    <3>2. IsFiniteSet(1 .. Max) /\ Cardinality(1 .. Max) = Max
      BY FS_Interval, LimitAssumption
    <3> QED
      <4> DEFINE lives == {0, 1}
                 ranks == 1 .. Max
      <4>1. /\ IsFiniteSet(lives) /\ Cardinality(lives) = 2
            /\ IsFiniteSet(ranks) /\ Cardinality(ranks) = Max
        BY <3>1, <3>2
      <4> HIDE DEF lives, ranks
      <4>2. /\ IsFiniteSet(lives \X ranks)
            /\ Cardinality(lives \X ranks) = Cardinality(lives) * Cardinality(ranks)
        BY <4>1, FS_Product
      <4>3. Cardinality(lives \X ranks) = 2 * Max
        BY <4>1, <4>2
      <4> QED
        BY <4>2, <4>3 DEF lives, ranks
  <2>6. Cardinality(recent) <= Cardinality(Numbers)
    <3> HIDE DEF Numbers, number
    <3> QED
      BY <2>4, <2>5, FS_Injection
  <2> QED
    BY <2>5, <2>6 DEF AtMostTwoWindows
<1> QED
  BY <1>1, WindowInit, WindowStep, PTL DEF Spec
=============================================================================
