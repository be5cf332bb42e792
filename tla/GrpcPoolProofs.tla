--------------------------- MODULE GrpcPoolProofs ---------------------------
(***************************************************************************)
(* Theorems about GrpcPool, for any number of workers and jobs: the safety *)
(* part of the refinement of JobPool, no lost wake-up, and a clean drain.  *)
(***************************************************************************)
EXTENDS GrpcPool, TLAPS, SequenceTheorems

USE DEF Free, Goto

(* The inductive invariant: a worker holds a job exactly while it runs it, *)
(* stopping is set only after the last enqueue, a worker leaves only an    *)
(* empty queue, and no wake-up is lost.                                    *)
PoolInv ==
  /\ TypeOK
  /\ \A w \in Workers : pc[w] \in WorkerAt /\ (job[w] # NoJob <=> pc[w] = "run")
  /\ stopping => pc[Main] \in {"notify_all", "join", "joined"}
  /\ \A w \in Workers : pc[w] = "exited" => stopping /\ grpc_jobs = << >>
  /\ pc[Main] = "joined" => \A w \in Workers : pc[w] = "exited"
  /\ NoLostWakeup

LEMMA PoolInit == Init => PoolInv
<1> SUFFICES ASSUME Init PROVE PoolInv
  OBVIOUS
<1>1. pc \in [Workers \cup {Main} -> WorkerAt \cup MainAt]
  BY DEF Init, WorkerAt, MainAt
<1>2. pc[Main] = "loop" /\ \A w \in Workers : pc[w] = "lock" /\ job[w] = NoJob
  BY PoolAssumption DEF Init
<1>3. grpc_jobs \in Seq(Jobs)
  BY EmptySeq DEF Init
<1>4. job \in [Workers -> Jobs \cup {NoJob}]
  BY DEF Init
<1>5. TypeOK
  BY <1>1, <1>3, <1>4 DEF Init, TypeOK
<1> QED
  BY <1>2, <1>5 DEF Init, PoolInv, WorkerAt, NoLostWakeup

LEMMA QueueSteps ==
  ASSUME NEW S, NEW q \in Seq(S)
  PROVE  /\ \A e \in S : Append(q, e) \in Seq(S)
         /\ q # << >> => Head(q) \in S /\ Tail(q) \in Seq(S)
BY HeadTailProperties, AppendProperties

LEMMA PoolStep == PoolInv /\ [Next]_vars => PoolInv'
<1> SUFFICES ASSUME PoolInv, [Next]_vars PROVE PoolInv'
  OBVIOUS
<1> USE PoolAssumption DEF PoolInv, TypeOK, WorkerAt, MainAt, NoLostWakeup
<1>1. ASSUME NEW w \in Workers, Lock(w) \/ Relock(w) PROVE PoolInv'
  BY <1>1 DEF Lock, Relock, Acquire
<1>2. ASSUME NEW w \in Workers, Sleep(w) PROVE PoolInv'
  BY <1>2 DEF Sleep
<1>3. ASSUME NEW w \in Workers, Return(w) PROVE PoolInv'
  BY <1>3 DEF Return, MayReturn
<1>4. ASSUME NEW w \in Workers, TakeJob(w) PROVE PoolInv'
  BY <1>4, QueueSteps DEF TakeJob
<1>5. ASSUME NEW w \in Workers, RunJob(w) PROVE PoolInv'
  BY <1>5 DEF RunJob
<1>6. ASSUME NEW w \in Workers, WakeSpuriously(w) PROVE PoolInv'
  BY <1>6 DEF WakeSpuriously
<1>7. ASSUME BeginEnqueue \/ BeginStop PROVE PoolInv'
  BY <1>7 DEF BeginEnqueue, BeginStop, Acquire
<1>8. ASSUME NEW j \in Jobs, Push(j) PROVE PoolInv'
  BY <1>8, QueueSteps DEF Push
<1>9. ASSUME NotifyOne PROVE PoolInv'
  BY <1>9 DEF NotifyOne, Wake, Asleep
<1>10. ASSUME SetStopping PROVE PoolInv'
  BY <1>10 DEF SetStopping
<1>11. ASSUME NotifyAll PROVE PoolInv'
  BY <1>11 DEF NotifyAll, Wake, Asleep
<1>12. ASSUME Join PROVE PoolInv'
  BY <1>12 DEF Join
<1>13. CASE UNCHANGED vars
  BY <1>13 DEF vars
<1> QED
  BY <1>1, <1>2, <1>3, <1>4, <1>5, <1>6, <1>7, <1>8, <1>9, <1>10, <1>11, <1>12, <1>13
  DEF Next, MainStep, WorkerStep, Ended

(* The queue holds jobs and the threads are where their code can be. *)
THEOREM TypeCorrect == Spec => []TypeOK
<1>1. PoolInv => TypeOK
  BY DEF PoolInv
<1> QED
  BY <1>1, PoolInit, PoolStep, PTL DEF Spec

(* With work in the queue and no notification under way, a worker is awake *)
(* to take it, for any number of workers going to sleep and waking.        *)
THEOREM WakeupsKept == Spec => []NoLostWakeup
<1>1. PoolInv => NoLostWakeup
  BY DEF PoolInv
<1> QED
  BY <1>1, PoolInit, PoolStep, PTL DEF Spec

(* When the destructor has joined the workers no job is left behind. *)
THEOREM ShutdownDrains == Spec => []DrainedWhenJoined
<1>1. PoolInv => DrainedWhenJoined
  BY PoolAssumption DEF PoolInv, TypeOK, DrainedWhenJoined
<1> QED
  BY <1>1, PoolInit, PoolStep, PTL DEF Spec

(* Every step of the threads is a step of the abstract pool or changes     *)
(* nothing it sees: jobs start in order, once each, and only if submitted. *)
THEOREM PoolRefines == Spec => Pool!SafeSpec
<1>1. Init => Pool!Init
  BY DEF Init, Pool!Init
<1>2. PoolInv /\ [Next]_vars => [Pool!Next]_(Pool!poolVars)
  <2> SUFFICES ASSUME PoolInv, [Next]_vars, UNCHANGED Pool!poolVars => FALSE
               PROVE  Pool!Next
    OBVIOUS
  <2>1. ASSUME NEW w \in Workers, TakeJob(w) PROVE Pool!Next
    BY <2>1 DEF PoolInv, TakeJob, Pool!Next, Pool!Start
  <2>2. ASSUME NEW w \in Workers, RunJob(w) PROVE Pool!Next
    BY <2>2 DEF PoolInv, RunJob, Pool!Next, Pool!Finish
  <2>3. ASSUME NEW j \in Jobs, Push(j) PROVE Pool!Next
    BY <2>3 DEF Push, Enqueued, Pool!Next, Pool!Submit, Pool!Submitted
  <2> QED
    BY <2>1, <2>2, <2>3
    DEF Next, MainStep, WorkerStep, Ended, vars, Pool!poolVars, Lock, Relock, Acquire, Sleep,
        Return, WakeSpuriously, BeginEnqueue, BeginStop, NotifyOne, NotifyAll, Wake,
        SetStopping, Join
<1> QED
  BY <1>1, <1>2, PoolInit, PoolStep, PTL DEF Spec, Pool!SafeSpec
=============================================================================
