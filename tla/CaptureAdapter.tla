---------------------------- MODULE CaptureAdapter ----------------------------
(***************************************************************************)
(* The library screencast adapter: class CaptureAdapter of                 *)
(* src/src/capture/index.ts.  Frames of a CDP transport go through a       *)
(* bounded queue to one worker that stores, acknowledges and reports them; *)
(* start, stop, degradation and failure send commands whose answers come   *)
(* back whenever the transport likes.                                      *)
(*                                                                         *)
(* Frames are counted, not told apart.  A step ends where the code awaits; *)
(* the worker's end and its finally are one step, no frame is delivered    *)
(* between two microtasks.                                                 *)
(***************************************************************************)
EXTENDS Integers

CONSTANTS
  DegradeAbove,  \* DEGRADE_OCCUPANCY in queued frames
  FailAbove,     \* FAIL_OCCUPANCY in queued frames
  MaxReceived    \* bound: frames the transport delivers

VARIABLES
  phase,      \* state, failureReason and degradationRequested
  intake,     \* the queue and the counters
  drain,      \* the worker
  command,    \* the transport commands and the subscription
  stopping    \* the stop() call in flight

adapterVars == <<phase, intake, drain, command, stopping>>

Pending == {"none", "sent", "resolved", "rejected"}
AdapterStates == {"idle", "starting", "running", "stopping", "stopped", "failed"}

AdapterTypeOK ==
  /\ phase \in [state: AdapterStates, failed: BOOLEAN, degraded: BOOLEAN]
  /\ intake \in [queue: 0..FailAbove, received: 0..MaxReceived, accepted: 0..MaxReceived,
                 rejected: 0..(2 * MaxReceived), reported: 0..MaxReceived]
  /\ drain \in {"none", "storing", "acking"}
  /\ command \in [start: Pending, degrade: Pending, stop: Pending, listening: BOOLEAN]
  /\ stopping \in {"none", "command", "worker", "store", "done", "threw"}

AdapterInit ==
  /\ phase = [state |-> "idle", failed |-> FALSE, degraded |-> FALSE]
  /\ intake = [queue |-> 0, received |-> 0, accepted |-> 0, rejected |-> 0, reported |-> 0]
  /\ drain = "none"
  /\ command = [start |-> "none", degrade |-> "none", stop |-> "none", listening |-> FALSE]
  /\ stopping = "none"

-----------------------------------------------------------------------------
(* fail: the first failure wins, and sends Page.stopScreencast unless stop()*)
(* already has.                                                             *)

Failing == [phase EXCEPT !.state = IF phase.failed THEN @ ELSE "failed", !.failed = TRUE]

StopSent(c) == IF c.stop = "none" THEN [c EXCEPT !.stop = "sent"] ELSE c
Stopping(c) == IF phase.failed THEN c ELSE StopSent(c)

Fail == phase' = Failing /\ command' = Stopping(command)

-----------------------------------------------------------------------------
(* start. *)

Start ==
  /\ phase.state = "idle"
  /\ phase' = [phase EXCEPT !.state = "starting"]
  /\ command' = [command EXCEPT !.start = "sent", !.listening = TRUE]
  /\ UNCHANGED <<intake, drain, stopping>>

StartAnswered ==
  /\ command.start = "sent"
  /\ phase' = [phase EXCEPT !.state = IF @ = "starting" THEN "running" ELSE @]
  /\ command' = [command EXCEPT !.start = "resolved"]
  /\ UNCHANGED <<intake, drain, stopping>>

StartRejected ==
  /\ command.start = "sent"
  /\ phase' = [phase EXCEPT !.state = "failed"]
  /\ command' = [command EXCEPT !.start = "rejected", !.listening = FALSE]
  /\ UNCHANGED <<intake, drain, stopping>>

-----------------------------------------------------------------------------
(* Frames. *)

Taking == phase.state \in {"running", "stopping"}

\* receiveFrame for a frame the adapter can queue. An idle worker takes it at once.
Accept ==
  LET queued == intake.queue + 1
      first == queued > DegradeAbove /\ ~phase.degraded
  IN /\ queued <= FailAbove
     /\ intake' = [intake EXCEPT !.received = @ + 1, !.accepted = @ + 1,
                                 !.queue = @ + (IF drain = "none" THEN 0 ELSE 1)]
     /\ drain' = IF drain = "none" THEN "storing" ELSE drain
     /\ phase' = [phase EXCEPT !.degraded = @ \/ first]
     /\ command' = IF first THEN [command EXCEPT !.degrade = "sent"] ELSE command

\* A malformed frame, or one the queue has no room for.
Refuse ==
  /\ intake' = [intake EXCEPT !.received = @ + 1, !.rejected = @ + 1]
  /\ Fail
  /\ UNCHANGED drain

ReceiveFrame ==
  /\ command.listening /\ intake.received < MaxReceived
  /\ IF Taking THEN Accept \/ Refuse ELSE UNCHANGED <<phase, intake, drain, command>>
  /\ UNCHANGED stopping

-----------------------------------------------------------------------------
(* The worker. It goes on with the next frame after a failure too.          *)

TakeNext(i) ==
  IF i.queue = 0 THEN intake' = i /\ drain' = "none"
  ELSE intake' = [i EXCEPT !.queue = @ - 1] /\ drain' = "storing"

Stored ==
  /\ drain = "storing" /\ drain' = "acking"
  /\ UNCHANGED <<phase, intake, command, stopping>>

\* The frame is reported; an answer later than ACK_TIMEOUT_US fails the capture.
Acked ==
  /\ drain = "acking"
  /\ TakeNext([intake EXCEPT !.reported = @ + 1])
  /\ Fail \/ UNCHANGED <<phase, command>>
  /\ UNCHANGED stopping

StoreOrAckFails ==
  /\ drain # "none"
  /\ TakeNext([intake EXCEPT !.rejected = @ + 1])
  /\ Fail
  /\ UNCHANGED stopping

DegradeAnswered ==
  /\ command.degrade = "sent"
  /\ command' = [command EXCEPT !.degrade = "resolved"]
  /\ UNCHANGED <<phase, intake, drain, stopping>>

DegradeRejected ==
  /\ command.degrade = "sent"
  /\ phase' = Failing
  /\ command' = [Stopping(command) EXCEPT !.degrade = "rejected"]
  /\ UNCHANGED <<intake, drain, stopping>>

-----------------------------------------------------------------------------
(* stop: send the command once, wait for its answer, for the worker and for  *)
(* the store.                                                                *)

Stop ==
  /\ phase.state \notin {"idle", "stopped"} /\ stopping \in {"none", "done", "threw"}
  /\ stopping' = "command"
  /\ phase' = [phase EXCEPT !.state = IF command.stop = "none" /\ @ # "failed" THEN "stopping"
                                      ELSE @]
  /\ command' = StopSent(command)
  /\ UNCHANGED <<intake, drain>>

StopAnswered ==
  /\ command.stop = "sent"
  /\ command' = [command EXCEPT !.stop = "resolved", !.listening = FALSE]
  /\ UNCHANGED <<phase, intake, drain, stopping>>

StopRejected ==
  /\ command.stop = "sent"
  /\ command' = [command EXCEPT !.stop = "rejected"]
  /\ UNCHANGED <<phase, intake, drain, stopping>>

\* Mutant: flush waits for the store alone.
StopGoesOn_PastWorker ==
  \/ /\ stopping = "command" /\ command.stop \in {"resolved", "rejected"}
     /\ stopping' = IF command.stop = "resolved" THEN "store" ELSE "threw"
     /\ UNCHANGED phase
  \/ /\ stopping = "store"
     /\ stopping' = "done"
     /\ phase' = [phase EXCEPT !.state = IF @ = "stopping" THEN "stopped" ELSE @]

StopGoesOn ==
  \/ /\ stopping = "command" /\ command.stop \in {"resolved", "rejected"}
     /\ stopping' = IF command.stop = "resolved" THEN "worker" ELSE "threw"
     /\ UNCHANGED phase
  \/ /\ stopping = "worker" /\ drain = "none"
     /\ stopping' = "store"
     /\ UNCHANGED phase
  \/ /\ stopping = "store"
     /\ stopping' = "done"
     /\ phase' = [phase EXCEPT !.state = IF @ = "stopping" THEN "stopped" ELSE @]

ContinueStop == StopGoesOn /\ UNCHANGED <<intake, drain, command>>

\* store.flush rejects: stop() throws and the state stays.
StoreFlushFails ==
  /\ stopping = "store" /\ stopping' = "threw"
  /\ UNCHANGED <<phase, intake, drain, command>>

AdapterNext ==
  \/ Start \/ StartAnswered \/ StartRejected
  \/ ReceiveFrame \/ Stored \/ Acked \/ StoreOrAckFails
  \/ DegradeAnswered \/ DegradeRejected
  \/ Stop \/ StopAnswered \/ StopRejected \/ ContinueStop \/ StoreFlushFails

AdapterSpec == AdapterInit /\ [][AdapterNext]_adapterVars

-----------------------------------------------------------------------------
(* Properties. *)

\* A capture that reports "stopped" is whole: nothing is queued or with the worker,
\* every frame the adapter accepted was stored, acknowledged and reported, none was
\* rejected, and no later frame can reach it.
StoppedIsWhole ==
  phase.state = "stopped" =>
    /\ intake.queue = 0 /\ drain = "none"
    /\ intake.reported = intake.accepted /\ intake.rejected = 0
    /\ ~phase.failed /\ ~command.listening
==============================================================================
