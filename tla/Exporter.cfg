SPECIFICATION Spec
CONSTANTS
  q1 = q1
  q2 = q2
  b1 = b1
  Client = {prometheus}
  WorkerQueues <- MCWorkerQueues
  Job = {b1}
  QueueOf <- MCQueueOf
  Server = {s1}
  Proc = {p1, p2}
  MaxEvents = 4
INVARIANTS ExporterInv ErrorsTell QueuesCounted
PROPERTIES CounterFallsOnlyAfterOverlap ScrapeEnds
CHECK_DEADLOCK FALSE
