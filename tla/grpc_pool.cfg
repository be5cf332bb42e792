SPECIFICATION FairSpec
CONSTANTS
  Jobs = {j1, j2, j3}
  Workers = {w1, w2}
  Main = Main
  NoJob = NoJob
INVARIANTS
  TypeOK
  NoLostWakeup
  DrainedWhenJoined
PROPERTIES
  ShutdownEnds
  ImplementsJobPool
