------------------------------ MODULE JobPool ------------------------------
(***************************************************************************)
(* What the game server expects of its gRPC workers: jobs are started in   *)
(* the order they were submitted, each by one worker and once, and every   *)
(* job submitted is finished.  GameServer's queue and its action Take rely *)
(* on this; GrpcPool shows that the mutex, the condition variable and the  *)
(* shutdown of server.cpp provide it.                                      *)
(***************************************************************************)
EXTENDS Integers, Sequences

CONSTANTS Jobs, Workers, NoJob  \* NoJob is not a job

VARIABLES
  pending,  \* submitted and not started
  running,  \* what each worker runs
  finished  \* the jobs that ran

poolVars == <<pending, running, finished>>

Submitted(j) ==
  \/ \E i \in DOMAIN pending : pending[i] = j
  \/ \E w \in Workers : running[w] = j
  \/ j \in finished

Init ==
  /\ pending  = << >>
  /\ running  = [w \in Workers |-> NoJob]
  /\ finished = {}

Submit(j) ==
  /\ ~ Submitted(j)
  /\ pending' = Append(pending, j)
  /\ UNCHANGED <<running, finished>>

Start(w) ==
  /\ running[w] = NoJob
  /\ pending # << >>
  /\ running' = [running EXCEPT ![w] = Head(pending)]
  /\ pending' = Tail(pending)
  /\ UNCHANGED finished

Finish(w) ==
  /\ running[w] # NoJob
  /\ finished' = finished \cup {running[w]}
  /\ running'  = [running EXCEPT ![w] = NoJob]
  /\ UNCHANGED pending

Next ==
  \/ \E j \in Jobs : Submit(j)
  \/ \E w \in Workers : Start(w) \/ Finish(w)

SafeSpec == Init /\ [][Next]_poolVars

Spec ==
  /\ SafeSpec
  /\ WF_poolVars(\E w \in Workers : Start(w))
  /\ \A w \in Workers : WF_poolVars(Finish(w))
=============================================================================
