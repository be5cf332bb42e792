------------------------------ MODULE GrpcPool ------------------------------
(***************************************************************************)
(* The worker pool of services/gameserver/src/server.cpp, at the grain of  *)
(* its mutex and condition variable: startGrpcWorkers, enqueueGrpcJob and  *)
(* stopGrpcWorkers.  The loop thread enqueues jobs; when run() returns the *)
(* same thread destroys the server, which drains and joins the workers.    *)
(***************************************************************************)
EXTENDS Integers, Sequences, FiniteSets

CONSTANTS
  Jobs,     \* the closures ever enqueued
  Workers,  \* the GRPC_WORKER_COUNT threads
  Main,     \* the thread of the uWS loop, which also runs ~Server
  NoJob

ASSUME PoolAssumption ==
  /\ Workers # {}
  /\ NoJob \notin Jobs
  /\ Main \notin Workers
  /\ NoJob \notin Workers \cup {Main}

VARIABLES
  grpc_jobs,  \* the queue
  mutex,      \* who holds grpc_jobs_mutex_, NoJob if nobody
  stopping,   \* stopping_grpc_workers_
  pc,         \* where each thread is
  job,        \* the local variable job of each worker
  ran         \* the jobs that ran to their end

vars == <<grpc_jobs, mutex, stopping, pc, job, ran>>

Free == NoJob

WorkerAt == {"lock", "check", "asleep", "woken", "run", "exited"}
MainAt   == {"loop", "push", "notify_one", "set", "notify_all", "join", "joined"}

TypeOK ==
  /\ grpc_jobs \in Seq(Jobs)
  /\ mutex \in Workers \cup {Main, Free}
  /\ stopping \in BOOLEAN
  /\ pc \in [Workers \cup {Main} -> WorkerAt \cup MainAt]
  /\ job \in [Workers -> Jobs \cup {NoJob}]
  /\ ran \subseteq Jobs

Init ==
  /\ grpc_jobs = << >>
  /\ mutex = Free
  /\ stopping = FALSE
  /\ pc  = [t \in Workers \cup {Main} |-> IF t = Main THEN "loop" ELSE "lock"]
  /\ job = [w \in Workers |-> NoJob]
  /\ ran = {}

Goto(t, place) == pc' = [pc EXCEPT ![t] = place]

Acquire(t, from, to) ==
  /\ pc[t] = from
  /\ mutex = Free
  /\ mutex' = t
  /\ Goto(t, to)
  /\ UNCHANGED <<grpc_jobs, stopping, job, ran>>

Enqueued(j) ==
  \/ \E i \in DOMAIN grpc_jobs : grpc_jobs[i] = j
  \/ \E w \in Workers : job[w] = j
  \/ j \in ran

-----------------------------------------------------------------------------
(* A worker: lock, wait(lock, stopping || !empty), take or return, run *)

Lock(w)   == Acquire(w, "lock", "check")
Relock(w) == Acquire(w, "woken", "check")

(* Slip: leaving as soon as stopping is set. *)
MayReturnEarly == stopping

MayReturn == stopping /\ grpc_jobs = << >>

Sleep(w) ==
  /\ pc[w] = "check"
  /\ ~ stopping /\ grpc_jobs = << >>
  /\ mutex' = Free
  /\ Goto(w, "asleep")
  /\ UNCHANGED <<grpc_jobs, stopping, job, ran>>

Return(w) ==
  /\ pc[w] = "check"
  /\ MayReturn
  /\ mutex' = Free
  /\ Goto(w, "exited")
  /\ UNCHANGED <<grpc_jobs, stopping, job, ran>>

(* Slip: front() without pop(). *)
TakeJobTwice(w) ==
  /\ pc[w] = "check"
  /\ ~ MayReturn
  /\ grpc_jobs # << >>
  /\ job' = [job EXCEPT ![w] = Head(grpc_jobs)]
  /\ mutex' = Free
  /\ Goto(w, "run")
  /\ UNCHANGED <<grpc_jobs, stopping, ran>>

TakeJob(w) ==
  /\ pc[w] = "check"
  /\ ~ MayReturn
  /\ grpc_jobs # << >>
  /\ job' = [job EXCEPT ![w] = Head(grpc_jobs)]
  /\ grpc_jobs' = Tail(grpc_jobs)
  /\ mutex' = Free
  /\ Goto(w, "run")
  /\ UNCHANGED <<stopping, ran>>

(* Slip: the closure is moved from before it is called. *)
RunMovedJob(w) ==
  /\ pc[w] = "run"
  /\ ran' = ran \cup {NoJob}
  /\ job' = [job EXCEPT ![w] = NoJob]
  /\ Goto(w, "lock")
  /\ UNCHANGED <<grpc_jobs, mutex, stopping>>

RunJob(w) ==
  /\ pc[w] = "run"
  /\ ran' = ran \cup {job[w]}
  /\ job' = [job EXCEPT ![w] = NoJob]
  /\ Goto(w, "lock")
  /\ UNCHANGED <<grpc_jobs, mutex, stopping>>

(* A condition variable may also wake without being notified. *)
WakeSpuriously(w) ==
  /\ pc[w] = "asleep"
  /\ Goto(w, "woken")
  /\ UNCHANGED <<grpc_jobs, mutex, stopping, job, ran>>

-----------------------------------------------------------------------------
(* The loop thread: enqueueGrpcJob, then stopGrpcWorkers *)

BeginEnqueue == Acquire(Main, "loop", "push") /\ \E j \in Jobs : ~ Enqueued(j)

Push(j) ==
  /\ pc[Main] = "push"
  /\ ~ Enqueued(j)
  /\ grpc_jobs' = Append(grpc_jobs, j)
  /\ mutex' = Free
  /\ Goto(Main, "notify_one")
  /\ UNCHANGED <<stopping, job, ran>>

Asleep == {w \in Workers : pc[w] = "asleep"}

Wake(who, from, to) ==
  /\ pc[Main] = from
  /\ pc' = [t \in Workers \cup {Main} |->
              IF t = Main THEN to ELSE IF t \in who THEN "woken" ELSE pc[t]]
  /\ UNCHANGED <<grpc_jobs, mutex, stopping, job, ran>>

(* Slip: the notification is forgotten. *)
NotifyNone == Wake({}, "notify_one", "loop")

(* notify_one wakes one sleeper, if any. *)
NotifyOne ==
  \/ \E w \in Asleep : Wake({w}, "notify_one", "loop")
  \/ Asleep = {} /\ Wake({}, "notify_one", "loop")

BeginStop == Acquire(Main, "loop", "set")

SetStopping ==
  /\ pc[Main] = "set"
  /\ stopping' = TRUE
  /\ mutex' = Free
  /\ Goto(Main, "notify_all")
  /\ UNCHANGED <<grpc_jobs, job, ran>>

(* Slip: notify_one in the destructor. *)
NotifyFirst ==
  \/ \E w \in Asleep : Wake({w}, "notify_all", "join")
  \/ Asleep = {} /\ Wake({}, "notify_all", "join")

NotifyAll == Wake(Asleep, "notify_all", "join")

Join ==
  /\ pc[Main] = "join"
  /\ \A w \in Workers : pc[w] = "exited"
  /\ Goto(Main, "joined")
  /\ UNCHANGED <<grpc_jobs, mutex, stopping, job, ran>>

(* The process ends. *)
Ended == pc[Main] = "joined" /\ UNCHANGED vars

WorkerStep(w) == Lock(w) \/ Relock(w) \/ Sleep(w) \/ Return(w) \/ TakeJob(w) \/ RunJob(w)

MainStep ==
  \/ BeginEnqueue \/ (\E j \in Jobs : Push(j)) \/ NotifyOne
  \/ BeginStop \/ SetStopping \/ NotifyAll \/ Join

Next ==
  \/ MainStep
  \/ \E w \in Workers : WorkerStep(w) \/ WakeSpuriously(w)
  \/ Ended

Spec == Init /\ [][Next]_vars

(* A thread that can go on does, and so does a call begun by the loop      *)
(* thread.  That the loop ever enqueues or stops is not assumed, nor that  *)
(* a condition variable ever wakes without a notification.                 *)
FairSpec ==
  /\ Spec
  /\ \A w \in Workers : WF_vars(WorkerStep(w))
  /\ WF_vars(NotifyOne \/ SetStopping \/ NotifyAll \/ Join \/ \E j \in Jobs : Push(j))

-----------------------------------------------------------------------------
(* Safety *)

(* No wake-up is lost: with work in the queue, the mutex free and nobody   *)
(* about to be notified, some worker is awake to take it.                  *)
NoLostWakeup ==
  grpc_jobs # << >> /\ pc[Main] \notin {"notify_one", "notify_all"}
    => \E w \in Workers : pc[w] \notin {"asleep", "exited"}

(* Shutdown drains: when ~Server has joined its workers, every job that    *)
(* was enqueued, the last game results among them, has run.                *)
DrainedWhenJoined ==
  pc[Main] = "joined" => grpc_jobs = << >> /\ \A w \in Workers : job[w] = NoJob

(* Liveness *)

(* Shutdown ends: every sleeping worker hears of it and returns. *)
ShutdownEnds == stopping ~> pc[Main] = "joined"

(* The pool does what the rest of the server relies on. *)
Pool == INSTANCE JobPool
          WITH pending <- grpc_jobs, running <- job, finished <- ran

ImplementsJobPool == Pool!Spec
=============================================================================
