----------------------------- MODULE RateLimit ------------------------------
(***************************************************************************)
(* The limiter in front of the authentication handlers                     *)
(* (services/api/middleware/rate_limit.py): a fixed window kept in one     *)
(* Redis counter.  INCR, EXPIRE and TTL are three awaited commands, so     *)
(* that many requests are between them at once; each may fail, with or     *)
(* without having taken effect, and the process may die.                   *)
(*                                                                         *)
(* One key (one endpoint and one identifier) is modelled: keys do not      *)
(* interact.  A tick is the unit of Window.  What the answer says of       *)
(* reset_time is left out.                                                 *)
(***************************************************************************)
EXTENDS Integers, FiniteSets

CONSTANTS
  Requests,  \* bound: how many requests are in the limiter at once
  Max,       \* max_requests
  Window,    \* window_seconds
  MaxCount,  \* bound: the counter goes no further
  None       \* TTL -1: no expiry

ASSUME LimitAssumption ==
  /\ Max \in Nat /\ Window \in Nat \ {0} /\ MaxCount \in Nat
  /\ None \notin Int

VARIABLES
  count,    \* Redis: the counter; 0 stands for no key
  ttl,      \* Redis: the ticks the key has left
  stage,    \* what each request awaits
  current,  \* what its INCR returned
  age,      \* history: ticks since its INCR
  life,     \* history: keys that were deleted since its INCR
  recent,   \* history: the requests that the counter let through, with what
            \* is known of their INCR; not those let through by a failure
  orphaned  \* history: the EXPIRE of this key was lost

redisVars   == <<count, ttl>>
requestVars == <<stage, current, age, life>>
vars == <<redisVars, requestVars, recent, orphaned>>

Ages == 0 .. Window - 1

TypeOK ==
  /\ count   \in Nat
  /\ ttl     \in 1 .. Window \cup {None}
  /\ stage   \in [Requests -> {"idle", "expire", "ttl"}]
  /\ current \in [Requests -> Nat]
  /\ age     \in [Requests -> Ages \cup {Window}]
  /\ life    \in [Requests -> Ages \cup {Window}]
  /\ recent  \subseteq [life : Nat, rank : Nat, age : Ages]
  /\ orphaned \in BOOLEAN

Init ==
  /\ count = 0
  /\ ttl   = None
  /\ stage   = [q \in Requests |-> "idle"]
  /\ current = [q \in Requests |-> 0]
  /\ age     = [q \in Requests |-> 0]
  /\ life    = [q \in Requests |-> 0]
  /\ recent  = {}
  /\ orphaned = FALSE

-----------------------------------------------------------------------------
Goto(q, s) == stage' = [stage EXCEPT ![q] = s]

(* The wrapper calls the handler; the limiter is done with the request. *)
LetThrough(q) ==
  /\ Goto(q, "idle")
  /\ recent' = recent \cup {r \in {[life |-> life[q], rank |-> current[q], age |-> age[q]]} :
                             r.age < Window}

(* The except branch counts 0 requests, which is never too many. *)
FailOpen(q) ==
  /\ Goto(q, "idle")
  /\ UNCHANGED <<current, age, life, recent>>

(* Slip: as if INCR returned the counter before it. *)
IsFirstFromZero(n) == n = 0

IsFirst(n) == n = 1

(* redis.incr *)
Incr(q) ==
  /\ stage[q] = "idle"
  /\ count < MaxCount
  /\ count'   = count + 1
  /\ current' = [current EXCEPT ![q] = count + 1]
  /\ age'     = [age EXCEPT ![q] = 0]
  /\ life'    = [life EXCEPT ![q] = 0]
  /\ Goto(q, IF IsFirst(count + 1) THEN "expire" ELSE "ttl")
  /\ UNCHANGED <<ttl, recent, orphaned>>

(* INCR took effect and its answer was lost.  (One without effect leaves  *)
(* no trace here: the request goes through.)                               *)
IncrUnheard(q) ==
  /\ stage[q] = "idle"
  /\ count < MaxCount
  /\ count'    = count + 1
  /\ orphaned' = (orphaned \/ count = 0)
  /\ FailOpen(q)
  /\ UNCHANGED ttl

(* Slip: an instant, the start of the window after next, for a duration. *)
ExpireAtInstant(q) ==
  /\ stage[q] = "expire"
  /\ ttl' = Window + Window
  /\ Goto(q, "ttl")
  /\ UNCHANGED <<count, current, age, life, recent, orphaned>>

(* INCR took effect, its answer was lost, and the client library sent it   *)
(* again: the first request of a key is told it is the second.             *)
IncrResent(q) ==
  /\ stage[q] = "idle"
  /\ count + 1 < MaxCount
  /\ count'   = count + 2
  /\ current' = [current EXCEPT ![q] = count + 2]
  /\ age'     = [age EXCEPT ![q] = 0]
  /\ life'    = [life EXCEPT ![q] = 0]
  /\ Goto(q, IF IsFirst(count + 2) THEN "expire" ELSE "ttl")
  /\ orphaned' = (orphaned \/ count = 0)
  /\ UNCHANGED <<ttl, recent>>

(* redis.expire *)
Expire(q) ==
  /\ stage[q] = "expire"
  /\ ttl' = Window
  /\ Goto(q, "ttl")
  /\ UNCHANGED <<count, current, age, life, recent, orphaned>>

ExpireFails(q) ==
  /\ stage[q] = "expire"
  /\ FailOpen(q)
  /\ \/ ttl' = Window /\ UNCHANGED orphaned
     \/ orphaned' = TRUE /\ UNCHANGED ttl
  /\ UNCHANGED count

(* Slip: the counter before this request is compared. *)
ExceedsBefore(n) == n - 1 > Max

Exceeds(n) == n > Max

(* redis.ttl, and the verdict *)
Judge(q) ==
  /\ stage[q] = "ttl"
  /\ IF Exceeds(current[q]) THEN Goto(q, "idle") /\ UNCHANGED recent
                            ELSE LetThrough(q)
  /\ UNCHANGED <<redisVars, current, age, life, orphaned>>

JudgeFails(q) ==
  /\ stage[q] = "ttl"
  /\ FailOpen(q)
  /\ UNCHANGED <<redisVars, orphaned>>

-----------------------------------------------------------------------------
(* Time passes; Redis deletes the key when its time has come. *)
Tick ==
  /\ IF ttl = 1 THEN count' = 0 /\ ttl' = None /\ orphaned' = FALSE
     ELSE ttl' = (IF ttl = None THEN None ELSE ttl - 1) /\ UNCHANGED <<count, orphaned>>
  /\ age'  = [q \in Requests |-> IF age[q] = Window THEN Window ELSE age[q] + 1]
  /\ life' = [q \in Requests |-> IF ttl # 1 \/ life[q] = Window THEN life[q]
                                                               ELSE life[q] + 1]
  /\ recent' = {[r EXCEPT !.age = @ + 1, !.life = IF ttl = 1 THEN @ + 1 ELSE @] :
                  r \in {r \in recent : r.age + 1 < Window}}
  /\ UNCHANGED <<stage, current>>

(* The API process dies and is started again. *)
Restart ==
  /\ stage' = [q \in Requests |-> "idle"]
  /\ orphaned' = (orphaned \/ \E q \in Requests : stage[q] = "expire")
  /\ UNCHANGED <<redisVars, current, age, life, recent>>

ExpireStep(q) == Expire(q) \/ ExpireFails(q)

Next ==
  \/ \E q \in Requests : \/ Incr(q) \/ IncrUnheard(q) \/ IncrResent(q)
                         \/ ExpireStep(q) \/ Judge(q) \/ JudgeFails(q)
  \/ Tick
  \/ Restart

Spec == Init /\ [][Next]_vars

(* Time goes on, and a command that was sent returns or fails. *)
FairSpec == Spec /\ WF_vars(Tick) /\ \A q \in Requests : WF_vars(ExpireStep(q))

-----------------------------------------------------------------------------
(* A fixed window lets through at most twice its limit in any stretch of   *)
(* window_seconds, counted at the INCR: however many requests overlap, and *)
(* whatever fails, three lives of the counter never meet one window.       *)
AtMostTwoWindows == Cardinality(recent) <= 2 * Max

Locked == count > Max

(* A counter without an expiry is a matter of one await, unless the EXPIRE *)
(* was lost to a failure or a crash (check_rate_limit, lines 41-45).       *)
ExpiryFollows ==
  count > 0 /\ ttl = None => orphaned \/ \E q \in Requests : stage[q] = "expire"

(* "Try again in ... seconds": a key that refuses is free again some time, *)
(* unless its EXPIRE was lost; then nothing will ever free it.             *)
RefusalsEndUnlessOrphaned == Locked ~> (count = 0 \/ orphaned)
=============================================================================
