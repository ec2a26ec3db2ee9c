--------------------------- MODULE MCCaptureBroker ---------------------------
EXTENDS CaptureBroker

Counts(a, k, j) == [accepted |-> a, acked |-> k, rejected |-> j]

\* Matching counts for up to three frames, one with a missing acknowledgement.
MCFinalCounts == {Counts(n, n, 0) : n \in 1..3} \cup {Counts(1, 0, 0), Counts(1, 1, 1)}
LiveCounts == {Counts(2, 2, 0)}

\* Workloads: one claim, and so many requests of each other kind.
Workload(w) == [k \in Kinds |-> IF k \in DOMAIN w THEN w[k] ELSE IF k = "claim" THEN 1 ELSE 0]

FrameLoad == Workload([frame |-> 3, stop |-> 1])
MixedLoad == Workload([frame |-> 3, scroll |-> 1])
OverlapLoad == Workload([frame |-> 1, scroll |-> 2, click |-> 1, fail |-> 1, close |-> 1])
ScrollLoad == Workload([frame |-> 1, scroll |-> 3, stop |-> 1])
MailboxLoad ==
  Workload([frame |-> 1, scroll |-> 2, pointer |-> 1, challenge |-> 2, stop |-> 1])
LiveLoad == Workload([frame |-> 2, stop |-> 1, close |-> 1])
==============================================================================
