------------------------- MODULE CaptureSideProofs -------------------------
(***************************************************************************)
(* The components through which frames and requests reach a capture: the   *)
(* library screencast adapter, the capture in the browser host, the file   *)
(* mailbox and the observers of the browser helper, each a specification   *)
(* of its own, for every value of its constants.  An invariant is about    *)
(* one component and says, in named parts, what it keeps besides the       *)
(* property that follows from it.                                          *)
(***************************************************************************)
EXTENDS CaptureAdapter, BrowserCapture, CaptureMailbox, BrowserObserver, FiniteSetTheorems, SequenceTheorems, TLAPS

-----------------------------------------------------------------------------
(* 1. The library screencast adapter. *)

Intakes == [queue : Nat, received : Nat, accepted : Nat, rejected : Nat, reported : Nat]

AdapterTypes ==
  /\ phase \in [state : AdapterStates, failed : BOOLEAN, degraded : BOOLEAN]
  /\ intake \in Intakes
  /\ drain \in {"none", "storing", "acking"}
  /\ command \in [start : Pending, degrade : Pending, stop : Pending,
                  listening : BOOLEAN]
  /\ stopping \in {"none", "command", "worker", "store", "done", "threw"}

\* What a capture has accepted and not lost.
InWork == IF drain = "none" THEN 0 ELSE 1
Whole ==
  /\ intake.rejected = 0
  /\ intake.accepted = intake.reported + intake.queue + InWork

\* Nothing has begun before start.
AtRest ==
  /\ command.start = "none" /\ command.degrade = "none" /\ command.stop = "none"
  /\ ~command.listening /\ drain = "none" /\ stopping = "none"

\* A stop goes on when its command is resolved; then no frame comes, and the store is
\* flushed when the worker is done. Until the capture fails every frame is accounted for.
AdapterInv ==
  /\ AdapterTypes
  /\ phase.state = "idle" => AtRest
  /\ phase.failed => phase.state = "failed"
  /\ ~phase.failed => Whole
  /\ drain = "none" => intake.queue = 0
  /\ command.stop = "resolved" => ~command.listening
  /\ stopping \in {"worker", "store"} => command.stop = "resolved"
  /\ stopping = "store" => drain = "none"
  /\ phase.state = "stopped" => drain = "none" /\ ~command.listening

LEMMA AdapterStarts == AdapterInit => AdapterInv
BY DEF AdapterInit, AdapterInv, AtRest, AdapterTypes, AdapterStates, Pending, Whole, InWork, Intakes

\* What a failure leaves of the state and of the commands.
LEMMA Failures ==
  ASSUME AdapterInv
  PROVE  /\ Failing \in [state : AdapterStates, failed : BOOLEAN, degraded : BOOLEAN]
         /\ Failing.failed = TRUE /\ Failing.state = "failed"
         /\ Stopping(command) \in [start : Pending, degrade : Pending,
                                           stop : Pending, listening : BOOLEAN]
         /\ Stopping(command).listening = command.listening
         /\ command.stop = "resolved" <=> Stopping(command).stop = "resolved"
<1>1. /\ Failing \in [state : AdapterStates, failed : BOOLEAN, degraded : BOOLEAN]
      /\ Failing.failed = TRUE /\ Failing.state = "failed"
  BY DEF AdapterInv, AtRest, AdapterTypes, Failing, AdapterStates
<1>2. CASE Stopping(command) = command
  BY <1>1, <1>2 DEF AdapterInv, AtRest, AdapterTypes
<1>3. CASE command.stop = "none" /\ Stopping(command) = [command EXCEPT !.stop = "sent"]
  BY <1>1, <1>3 DEF AdapterInv, AtRest, AdapterTypes, Pending
<1> QED
  BY <1>2, <1>3 DEF Stopping, StopSent

\* What a frame taken in leaves.
LEMMA Accepts ==
  ASSUME AdapterInv, Accept
  PROVE  /\ intake' \in Intakes
         /\ ~phase.failed => Whole'
         /\ drain' # "none" /\ drain' \in {"none", "storing", "acking"}
         /\ phase' \in [state : AdapterStates, failed : BOOLEAN, degraded : BOOLEAN]
         /\ phase'.state = phase.state /\ phase'.failed = phase.failed
         /\ command' \in [start : Pending, degrade : Pending,
                          stop : Pending, listening : BOOLEAN]
         /\ command'.stop = command.stop /\ command'.listening = command.listening
<1> DEFINE first == intake.queue + 1 > DegradeAbove /\ ~phase.degraded
<1>1. /\ drain' = IF drain = "none" THEN "storing" ELSE drain
      /\ phase' = [phase EXCEPT !.degraded = @ \/ first]
      /\ command' = IF first THEN [command EXCEPT !.degrade = "sent"] ELSE command
  <2>1. drain' = IF drain = "none" THEN "storing" ELSE drain
    BY DEF Accept
  <2>2. phase' = [phase EXCEPT !.degraded = @ \/ first]
    BY DEF Accept
  <2>3. command' = IF first THEN [command EXCEPT !.degrade = "sent"] ELSE command
    BY DEF Accept
  <2> QED BY <2>1, <2>2, <2>3
<1>2. first \in BOOLEAN
  OBVIOUS
<1> HIDE DEF first
<1>3. /\ phase' \in [state : AdapterStates, failed : BOOLEAN, degraded : BOOLEAN]
      /\ phase'.state = phase.state /\ phase'.failed = phase.failed
  BY <1>1, <1>2 DEF AdapterInv, AtRest, AdapterTypes
<1>4. /\ command' \in [start : Pending, degrade : Pending,
                       stop : Pending, listening : BOOLEAN]
      /\ command'.stop = command.stop /\ command'.listening = command.listening
  BY <1>1, <1>2 DEF AdapterInv, AtRest, AdapterTypes, Pending
<1>5. /\ drain' # "none" /\ drain' \in {"none", "storing", "acking"}
  BY <1>1 DEF AdapterInv, AtRest, AdapterTypes
<1>6. intake' \in Intakes /\ (~phase.failed => Whole')
  <2> DEFINE left == IF drain = "none" THEN 0 ELSE 1
  <2>1. /\ intake \in Intakes /\ intake.received + 1 \in Nat /\ intake.accepted + 1 \in Nat
        /\ left \in Nat /\ intake.queue + left \in Nat
        /\ drain = "none" => left = 0
        /\ drain # "none" => left = 1
    BY DEF AdapterInv, AtRest, AdapterTypes, Intakes
  <2>2. intake' = [intake EXCEPT !.received = @ + 1, !.accepted = @ + 1, !.queue = @ + left]
    BY DEF Accept
  <2> HIDE DEF left
  <2>3. intake' \in Intakes
    BY <2>1, <2>2, Zenon DEF Intakes
  <2>4. /\ intake'.accepted = intake.accepted + 1 /\ intake'.rejected = intake.rejected
        /\ intake'.reported = intake.reported /\ intake'.queue = intake.queue + left
    BY <2>1, <2>2 DEF Intakes
  <2> QED
    BY <1>5, <2>1, <2>3, <2>4 DEF AdapterInv, Intakes, Whole, InWork
<1> QED BY <1>3, <1>4, <1>5, <1>6

LEMMA FrameKeeps == ASSUME AdapterInv, ReceiveFrame PROVE AdapterInv'
<1>1. command.listening /\ UNCHANGED stopping /\ stopping \notin {"worker", "store"}
  BY DEF ReceiveFrame, AdapterInv
<1>2. CASE Taking /\ Accept
  <2>1. phase.state \notin {"idle", "stopped"}
    BY <1>2 DEF Taking
  <2>2. ~phase'.failed => Whole'
    BY <1>2, Accepts
  <2> QED BY <1>1, <1>2, <2>1, <2>2, Accepts DEF AdapterInv, AtRest, AdapterTypes
<1>3. CASE Taking /\ Refuse
  <2>1. intake' = [intake EXCEPT !.received = @ + 1, !.rejected = @ + 1] /\ drain' = drain
    BY <1>3 DEF Refuse
  <2>2. intake \in Intakes
    BY DEF AdapterInv, AtRest, AdapterTypes
  <2>3. intake' \in Intakes /\ intake'.queue = intake.queue
    <3>1. intake.received + 1 \in Nat /\ intake.rejected + 1 \in Nat
      BY <2>2 DEF Intakes
    <3> QED BY <2>1, <2>2, <3>1, Zenon DEF Intakes
  <2>4. phase' = Failing /\ command' = Stopping(command)
    BY <1>3 DEF Refuse, Fail
  <2> QED BY <1>1, <2>1, <2>3, <2>4, Failures DEF AdapterInv, AtRest, AdapterTypes
<1>4. CASE UNCHANGED <<phase, intake, drain, command>>
  BY <1>1, <1>4 DEF AdapterInv, AtRest, AdapterTypes, Whole, InWork
<1> QED BY <1>2, <1>3, <1>4 DEF ReceiveFrame

\* The worker is done with a frame: it takes the next one, if there is one.
LEMMA WorkerTakes ==
  ASSUME NEW i \in Intakes, TakeNext(i)
  PROVE  /\ intake' \in Intakes /\ drain' \in {"none", "storing"}
         /\ drain' = "none" => intake'.queue = 0
         /\ intake'.rejected = i.rejected /\ intake'.accepted = i.accepted
         /\ intake'.reported = i.reported /\ intake'.queue + InWork' = i.queue
<1>1. CASE i.queue = 0
  BY <1>1 DEF TakeNext, Intakes, InWork
<1>2. CASE i.queue # 0
  BY <1>2 DEF TakeNext, Intakes, InWork
<1> QED BY <1>1, <1>2

LEMMA WorkerKeeps ==
  ASSUME AdapterInv, Acked \/ StoreOrAckFails PROVE AdapterInv'
<1>1. /\ drain # "none" /\ UNCHANGED stopping /\ intake \in Intakes
      /\ phase.state \notin {"idle", "stopped"} /\ stopping # "store"
  BY DEF Acked, StoreOrAckFails, AdapterInv, AtRest, AdapterTypes
<1>2. CASE Acked
  <2> DEFINE i == [intake EXCEPT !.reported = @ + 1]
  <2>1. TakeNext(i)
    BY <1>2 DEF Acked
  <2>2. /\ i \in Intakes /\ i.rejected = intake.rejected /\ i.accepted = intake.accepted
        /\ i.reported = intake.reported + 1 /\ i.queue = intake.queue
    BY <1>1 DEF Intakes
  <2> HIDE DEF i
  <2>3. /\ intake' \in Intakes /\ drain' \in {"none", "storing", "acking"}
        /\ drain' = "none" => intake'.queue = 0
    BY <2>1, <2>2, WorkerTakes
  <2>4. Whole => Whole'
    BY <1>1, <2>1, <2>2, WorkerTakes DEF Whole, InWork, Intakes
  <2>5. CASE Fail
    BY <1>1, <2>3, <2>5, Failures DEF Fail, AdapterInv, AtRest, AdapterTypes
  <2>6. CASE UNCHANGED <<phase, command>>
    BY <1>1, <2>3, <2>4, <2>6 DEF AdapterInv, AtRest, AdapterTypes
  <2> QED BY <1>2, <2>5, <2>6 DEF Acked
<1>3. CASE StoreOrAckFails
  <2> DEFINE i == [intake EXCEPT !.rejected = @ + 1]
  <2>1. TakeNext(i) /\ Fail
    BY <1>3 DEF StoreOrAckFails
  <2>2. i \in Intakes
    BY <1>1 DEF Intakes
  <2> HIDE DEF i
  <2>3. /\ intake' \in Intakes /\ drain' \in {"none", "storing", "acking"}
        /\ drain' = "none" => intake'.queue = 0
    BY <2>1, <2>2, WorkerTakes
  <2> QED BY <1>1, <2>1, <2>3, Failures DEF Fail, AdapterInv, AtRest, AdapterTypes
<1> QED BY <1>2, <1>3

LEMMA StopKeeps == ASSUME AdapterInv, Stop PROVE AdapterInv'
<1> USE DEF AdapterInv, AtRest, AdapterTypes
<1>1. /\ phase' \in [state : AdapterStates, failed : BOOLEAN, degraded : BOOLEAN]
      /\ phase'.failed = phase.failed /\ phase'.state \in {phase.state, "stopping"}
      /\ phase.state = "failed" => phase'.state = "failed"
  BY DEF Stop, AdapterStates
<1>2. /\ command' \in [start : Pending, degrade : Pending,
                       stop : Pending, listening : BOOLEAN]
      /\ command'.listening = command.listening
      /\ command'.stop = "resolved" => command.stop = "resolved"
  BY DEF Stop, StopSent, Pending
<1>3. UNCHANGED <<intake, drain>> /\ stopping' = "command" /\ phase.state # "idle"
  BY DEF Stop
<1> QED BY <1>1, <1>2, <1>3 DEF Whole, InWork

LEMMA AdapterSteps == ASSUME AdapterInv, AdapterNext PROVE AdapterInv'
<1> USE DEF AdapterInv, AtRest, AdapterTypes, Whole, InWork
<1>1. CASE Start
  BY <1>1 DEF Start, AdapterStates, Pending
<1>2. CASE StartAnswered
  BY <1>2 DEF StartAnswered, AdapterStates, Pending
<1>3. CASE StartRejected
  BY <1>3 DEF StartRejected, AdapterStates, Pending
<1>4. CASE Stored
  BY <1>4 DEF Stored
<1>5. CASE DegradeAnswered
  BY <1>5 DEF DegradeAnswered, Pending
<1>6. CASE DegradeRejected
  BY <1>6, Failures DEF DegradeRejected, Pending
<1>7. CASE StopAnswered \/ StopRejected
  BY <1>7 DEF StopAnswered, StopRejected, Pending
<1>8. CASE ContinueStop
  BY <1>8 DEF ContinueStop, StopGoesOn, AdapterStates
<1>9. CASE StoreFlushFails
  BY <1>9 DEF StoreFlushFails
<1> QED
  BY <1>1, <1>2, <1>3, <1>4, <1>5, <1>6, <1>7, <1>8, <1>9, FrameKeeps, WorkerKeeps, StopKeeps
  DEF AdapterNext

\* A capture of the library adapter that ends stopped lost no frame, for every bound of its
\* queue: what it accepted was reported, nothing was rejected (stop and drainQueue of
\* class CaptureAdapter, src/src/capture/index.ts).
THEOREM AdapterStopsWhole == AdapterSpec => []StoppedIsWhole
<1>1. AdapterInv => StoppedIsWhole
  BY DEF AdapterInv, AtRest, AdapterTypes, Intakes, Whole, InWork, StoppedIsWhole
<1>2. AdapterInv /\ UNCHANGED adapterVars => AdapterInv'
  BY DEF AdapterInv, AtRest, AdapterTypes, Whole, InWork, adapterVars
<1> QED
  BY <1>1, <1>2, AdapterStarts, AdapterSteps, PTL DEF AdapterSpec

-----------------------------------------------------------------------------
(* 2. The capture in the browser host. *)

Verdicts == {"none", "stopped", "failed"}
Captures == [status : {"starting", "running", "stopped", "failed"}, queue : Seq(Nat),
             received : Nat, accepted : Nat, acked : Nat, rejected : Nat,
             degraded : {"no", "sent", "answered"}, verdict : Verdicts]
Writers == [pc : {"none", "writing", "acking", "logging", "health"}, frame : Nat]
Lives == [starts : Nat, start : {"none", "checked", "sent", "done", "rejected"},
          registered : BOOLEAN, listening : BOOLEAN,
          stop : {"none", "worker", "command", "summary", "done", "threw"}]
Outputs == [images : SUBSET Nat, log : Seq(Nat),
            summary : [status : Verdicts, accepted : Nat, acked : Nat]]

BrowserTypes ==
  capture \in Captures /\ writer \in Writers /\ life \in Lives /\ files \in Outputs

\* The frames the worker is done with.
Past(c, w) == c.accepted - Len(c.queue) - (IF w.pc = "none" THEN 0 ELSE 1)
Reached(w, pcs) == IF w.pc \in pcs THEN 1 ELSE 0

\* What waits are the last frames that were accepted.
Queued(c) == \A i \in DOMAIN c.queue : c.queue[i] = c.accepted - Len(c.queue) + i

\* Until the capture fails the worker takes one frame after the other, and each through
\* the same steps.
InStep ==
  capture.status # "failed" =>
    /\ Past(capture, writer) \in Nat /\ Queued(capture)
    /\ writer.pc = "none" => capture.queue = <<>>
    /\ writer.pc # "none" => writer.frame = Past(capture, writer) + 1
    /\ files.images = 1..(Past(capture, writer) + Reached(writer, {"acking", "logging", "health"}))
    /\ capture.acked = Past(capture, writer) + Reached(writer, {"logging", "health"})
    /\ files.log = [i \in 1..(Past(capture, writer) + Reached(writer, {"health"})) |-> i]

\* Nothing happens before start has its answer, and no start is repeated after one.
BeforeStart ==
  life.start # "done" => /\ capture = NewCapture /\ writer.pc = "none"
                         /\ files = NoFiles /\ life.stop = "none"

\* A stop beyond the worker has nothing to wait for.
AfterStop ==
  /\ life.stop # "none" => ~life.listening
  /\ life.stop \notin {"none", "worker"} => writer.pc = "none"

Complete ==
  /\ capture.accepted > 0 /\ capture.acked = capture.accepted
  /\ files.log = [i \in 1..capture.accepted |-> i] /\ files.images = 1..capture.accepted

\* The verdict is about what is in the files, and so is the summary.
Judged ==
  /\ capture.verdict # "none" => life.stop \in {"summary", "done", "threw"}
  /\ capture.verdict = "stopped" => Complete
  /\ files.summary.status = "stopped" =>
       /\ capture.verdict = "stopped" /\ files.summary.accepted = capture.accepted
       /\ files.summary.acked = capture.acked

BrowserInv == BrowserTypes /\ InStep /\ BeforeStart /\ AfterStop /\ Judged

LEMMA BrowserStarts == BrowserInit => BrowserInv
<1> SUFFICES ASSUME BrowserInit PROVE BrowserInv
  OBVIOUS
<1>1. BrowserTypes
  BY DEF BrowserInit, NewCapture, NoFiles, BrowserTypes, Captures, Writers,
     Lives, Outputs, Verdicts
<1>2. InStep
  BY DEF BrowserInit, NewCapture, NoFiles, InStep, Past, Reached, Queued
<1>3. BeforeStart /\ AfterStop /\ Judged
  BY DEF BrowserInit, NewCapture, NoFiles, BeforeStart, AfterStop, Judged
<1> QED BY <1>1, <1>2, <1>3 DEF BrowserInv

\* The worker's next turn takes the first frame that waits, if the capture goes on.
LEMMA NextTurn ==
  ASSUME NEW c \in Captures, Turn(c)
  PROVE  /\ capture' \in Captures /\ writer' \in Writers
         /\ capture'.status = c.status /\ capture'.accepted = c.accepted
         /\ capture'.acked = c.acked /\ capture'.verdict = c.verdict
         /\ c.status # "failed" /\ Queued(c) =>
              /\ Past(capture', writer') = c.accepted - Len(c.queue) /\ Queued(capture')
              /\ writer'.pc = "none" => capture'.queue = <<>>
              /\ writer'.pc # "none" => /\ writer'.pc = "writing"
                                       /\ writer'.frame = Past(capture', writer') + 1
<1>1. CASE c.queue # <<>> /\ c.status # "failed"
  <2>1. capture' = [c EXCEPT !.queue = Tail(@)] /\ writer' = [pc |-> "writing", frame |-> Head(c.queue)]
    BY <1>1 DEF Turn
  <2>2. /\ c.queue \in Seq(Nat) /\ c.accepted \in Nat
        /\ Tail(c.queue) \in Seq(Nat) /\ Head(c.queue) \in Nat /\ Head(c.queue) = c.queue[1]
        /\ Len(c.queue) \in Nat /\ Len(c.queue) > 0 /\ Len(Tail(c.queue)) = Len(c.queue) - 1
        /\ \A i \in 1..Len(Tail(c.queue)) : Tail(c.queue)[i] = c.queue[i + 1]
    BY <1>1 DEF Captures
  <2>3. /\ capture' \in Captures /\ writer' \in Writers
        /\ capture'.status = c.status /\ capture'.accepted = c.accepted
        /\ capture'.acked = c.acked /\ capture'.verdict = c.verdict
        /\ capture'.queue = Tail(c.queue)
        /\ writer'.pc = "writing" /\ writer'.frame = c.queue[1]
    BY <2>1, <2>2 DEF Captures, Writers
  <2>4. Past(capture', writer') = c.accepted - Len(c.queue)
    BY <2>2, <2>3 DEF Past
  <2>5. ASSUME Queued(c) PROVE Queued(capture') /\ writer'.frame = Past(capture', writer') + 1
    <3>1. \A i \in 1..Len(c.queue) : c.queue[i] = c.accepted - Len(c.queue) + i
      BY <2>2, <2>5 DEF Queued
    <3>2. writer'.frame = Past(capture', writer') + 1
      BY <2>2, <2>3, <2>4, <3>1
    <3>3. ASSUME NEW i \in DOMAIN Tail(c.queue)
          PROVE  Tail(c.queue)[i] = c.accepted - Len(Tail(c.queue)) + i
      <4>1. i \in 1..Len(Tail(c.queue)) /\ i + 1 \in 1..Len(c.queue) /\ i \in Int
        BY <2>2, <3>3
      <4>2. Tail(c.queue)[i] = c.queue[i + 1]
        BY <2>2, <4>1
      <4>3. c.queue[i + 1] = c.accepted - Len(c.queue) + (i + 1)
        BY <3>1, <4>1, Zenon
      <4>4. /\ Len(Tail(c.queue)) = Len(c.queue) - 1
            /\ Len(c.queue) \in Int /\ c.accepted \in Int
        BY <2>2
      <4> QED BY <4>1, <4>2, <4>3, <4>4
    <3> QED BY <2>3, <3>2, <3>3 DEF Queued
  <2> QED BY <2>3, <2>4, <2>5
<1>2. CASE ~(c.queue # <<>> /\ c.status # "failed")
  <2>1. capture' = c /\ writer' = [pc |-> "none", frame |-> 0]
    BY <1>2 DEF Turn
  <2> QED BY <1>2, <2>1 DEF Captures, Writers, Past, Queued
<1> QED BY <1>1, <1>2

LEMMA NothingPast ==
  ASSUME NEW c, NEW w, c.accepted = 0, c.queue = <<>>, w.pc = "none" PROVE Past(c, w) = 0
<1>1. Len(c.queue) = 0
  OBVIOUS
<1>2. Past(c, w) = 0 - Len(c.queue) - 0
  BY DEF Past
<1> QED BY <1>1, <1>2

\* A capture that has not begun, or has just begun.
LEMMA Untouched ==
  ASSUME BrowserTypes', writer'.pc = "none", files' = NoFiles, life'.stop = "none",
         capture' = NewCapture
           \/ (capture' = [NewCapture EXCEPT !.status = "running"] /\ life'.start = "done")
  PROVE  BrowserInv'
<1>1. /\ capture'.queue = <<>> /\ capture'.accepted = 0 /\ capture'.acked = 0
      /\ capture'.verdict = "none"
  BY DEF NewCapture
<1>2. files'.images = {} /\ files'.log = <<>> /\ files'.summary.status = "none"
  BY DEF NoFiles
<1>3. /\ Past(capture', writer') = 0 /\ Reached(writer', {"acking", "logging", "health"}) = 0
      /\ Reached(writer', {"logging", "health"}) = 0 /\ Reached(writer', {"health"}) = 0
  <2>2. Past(capture', writer') = 0
    BY <1>1, NothingPast
  <2> QED BY <2>2 DEF Reached
<1>4. InStep'
  BY <1>1, <1>2, <1>3 DEF InStep, Queued
<1>5. BeforeStart' /\ AfterStop' /\ Judged'
  BY <1>1, <1>2 DEF BeforeStart, AfterStop, Judged, BrowserTypes, Lives
<1> QED BY <1>4, <1>5 DEF BrowserInv

LEMMA StartKeeps ==
  ASSUME BrowserInv,
         \/ StartCapture \/ Register \/ OpenFails
         \/ Started \/ CaptureRejected
  PROVE  BrowserInv'
<1>1. /\ life.start # "done" /\ UNCHANGED <<writer, files>>
      /\ capture' = capture \/ capture' = NewCapture
         \/ (capture' = [capture EXCEPT !.status = "running"] /\ life'.start = "done")
      /\ life' \in Lives /\ life'.stop = life.stop
  <2> USE DEF BrowserInv, BrowserTypes
  <2>1. CASE StartCapture
    <3>1. life' = [life EXCEPT !.starts = @ + 1, !.start = "checked"] /\ life.starts + 1 \in Nat
      BY <2>1 DEF StartCapture, Lives
    <3>2. life' \in Lives /\ life'.stop = life.stop
      BY <3>1, Zenon DEF Lives
    <3> QED BY <2>1, <3>2 DEF StartCapture
  <2>2. CASE Register
    <3>1. life' = [life EXCEPT !.start = "sent", !.registered = TRUE, !.listening = TRUE]
      BY <2>2 DEF Register
    <3>2. life' \in Lives /\ life'.stop = life.stop
      BY <3>1, Zenon DEF Lives
    <3> QED BY <2>2, <3>2 DEF Register
  <2>3. CASE OpenFails
    BY <2>3 DEF OpenFails, Lives
  <2>4. CASE Started
    BY <2>4 DEF Started, Lives
  <2>5. CASE CaptureRejected
    <3>1. life' = [life EXCEPT !.start = "rejected", !.registered = FALSE, !.listening = FALSE]
      BY <2>5 DEF CaptureRejected
    <3>2. life' \in Lives /\ life'.stop = life.stop
      BY <3>1, Zenon DEF Lives
    <3> QED BY <2>5, <3>2 DEF CaptureRejected
  <2> QED BY <2>1, <2>2, <2>3, <2>4, <2>5
<1>2. /\ capture = NewCapture /\ writer.pc = "none"
      /\ files = NoFiles /\ life.stop = "none"
  BY <1>1 DEF BrowserInv, BeforeStart
<1>3. BrowserTypes'
  BY <1>1, <1>2 DEF BrowserInv, BrowserTypes, Captures, NewCapture, Verdicts
<1> QED BY <1>1, <1>2, <1>3, Untouched

\* The worker is at work only between start and the end of stop.
LEMMA AtWork ==
  ASSUME BrowserInv, writer.pc # "none" \/ life.stop # "none" \/ capture.status = "running"
                       \/ capture.degraded = "sent"
  PROVE  /\ life.start = "done"
         /\ writer.pc # "none" => capture.verdict = "none" /\ life.stop \in {"none", "worker"}
         /\ capture.verdict = "none" => files.summary.status # "stopped"
BY DEF BrowserInv, BeforeStart, AfterStop, Judged, NewCapture, BrowserTypes, Lives

LEMMA DegradedKeeps == ASSUME BrowserInv, Degraded PROVE BrowserInv'
<1>1. /\ capture' \in Captures /\ capture'.queue = capture.queue
      /\ capture'.accepted = capture.accepted /\ capture'.acked = capture.acked
      /\ capture'.verdict = capture.verdict /\ capture'.status \in {capture.status, "failed"}
      /\ UNCHANGED <<writer, files>>
  <2>1. CASE capture' = [capture EXCEPT !.degraded = "answered"]
    BY <2>1 DEF Degraded, BrowserInv, BrowserTypes, Captures
  <2>2. CASE capture' = [[capture EXCEPT !.degraded = "answered"] EXCEPT !.status = "failed"]
    BY <2>2 DEF Degraded, BrowserInv, BrowserTypes, Captures
  <2> QED BY <2>1, <2>2 DEF Degraded, FailNow, Failed
<1>2. /\ life' \in Lives /\ life'.stop = life.stop /\ life'.start = life.start
      /\ life'.listening => life.listening
  BY DEF Degraded, FailNow, Deaf, BrowserInv, BrowserTypes, Lives
<1>3. life.start = "done"
  BY AtWork DEF Degraded
<1>4. BrowserTypes'
  BY <1>1, <1>2 DEF BrowserInv, BrowserTypes
<1>5. InStep'
  BY <1>1 DEF BrowserInv, InStep, Past, Queued
<1>6. BeforeStart' /\ AfterStop'
  BY <1>1, <1>2, <1>3 DEF BrowserInv, BeforeStart, AfterStop
<1>7. Judged'
  BY <1>1, <1>2 DEF BrowserInv, Judged, Complete
<1> QED BY <1>4, <1>5, <1>6, <1>7 DEF BrowserInv

LEMMA EarlierLine ==
  ASSUME NEW s \in Seq(Nat), NEW n \in Nat, NEW i \in 1..Len(s) PROVE Append(s, n)[i] = s[i]
OBVIOUS

LEMMA OneMoreLine ==
  ASSUME NEW n \in Nat PROVE Append([i \in 1..n |-> i], n + 1) = [i \in 1..(n + 1) |-> i]
OBVIOUS

\* A step of the worker on its frame.
LEMMA WorkerWrites ==
  ASSUME BrowserInv, WriteImage \/ Acknowledge \/ LogFrame
  PROVE  BrowserInv'
<1>0. /\ capture \in Captures /\ writer \in Writers /\ life \in Lives /\ files \in Outputs
      /\ writer.pc # "none"
  BY DEF BrowserInv, BrowserTypes, WriteImage, Acknowledge, LogFrame
<1>1. /\ life.start = "done" /\ capture.verdict = "none" /\ life.stop \in {"none", "worker"}
      /\ files.summary.status # "stopped"
  BY <1>0, AtWork
<1>2. /\ UNCHANGED life /\ capture' \in Captures /\ writer' \in Writers /\ files' \in Outputs
      /\ capture'.verdict = capture.verdict /\ capture'.status = capture.status
      /\ capture'.queue = capture.queue /\ capture'.accepted = capture.accepted
      /\ files'.summary = files.summary /\ writer'.frame = writer.frame /\ writer'.pc # "none"
  <2>1. CASE WriteImage
    BY <1>0, <2>1 DEF WriteImage, Captures, Writers, Outputs
  <2>2. CASE Acknowledge
    <3>1. /\ capture' = [capture EXCEPT !.acked = @ + 1] /\ capture.acked + 1 \in Nat
          /\ writer' = [writer EXCEPT !.pc = "logging"] /\ UNCHANGED <<life, files>>
      BY <1>0, <2>2 DEF Acknowledge, Captures
    <3>2. /\ capture' \in Captures /\ capture'.verdict = capture.verdict
          /\ capture'.status = capture.status /\ capture'.queue = capture.queue
          /\ capture'.accepted = capture.accepted
      BY <1>0, <3>1 DEF Captures
    <3>3. writer' \in Writers /\ writer'.frame = writer.frame /\ writer'.pc # "none"
      BY <1>0, <3>1 DEF Writers
    <3> QED BY <1>0, <3>1, <3>2, <3>3
  <2>3. CASE LogFrame
    <3>1. /\ files' = [files EXCEPT !.log = Append(@, writer.frame)]
          /\ Append(files.log, writer.frame) \in Seq(Nat)
          /\ writer' = [writer EXCEPT !.pc = "health"] /\ UNCHANGED <<capture, life>>
      BY <1>0, <2>3 DEF LogFrame, Outputs, Writers
    <3>2. files' \in Outputs /\ files'.summary = files.summary
      BY <1>0, <3>1 DEF Outputs
    <3>3. writer' \in Writers /\ writer'.frame = writer.frame /\ writer'.pc # "none"
      BY <1>0, <3>1 DEF Writers
    <3> QED BY <1>0, <3>1, <3>2, <3>3
  <2> QED BY <2>1, <2>2, <2>3
<1>3. InStep'
  <2> SUFFICES ASSUME capture.status # "failed" PROVE InStep'
    BY <1>2 DEF InStep
  <2>1. PICK n \in Nat : n = Past(capture, writer) /\ Past(capture', writer') = n
    BY <1>0, <1>2 DEF BrowserInv, InStep, Past
  <2>2. Queued(capture') /\ writer'.frame = n + 1
    BY <1>0, <1>2, <2>1 DEF BrowserInv, InStep, Queued
  <2>3. CASE WriteImage
    <3>1. /\ writer.pc = "writing" /\ writer'.pc = "acking" /\ capture' = capture
          /\ files'.images = files.images \cup {n + 1} /\ files'.log = files.log
      BY <1>0, <1>2, <2>2, <2>3 DEF WriteImage, Outputs, Writers
    <3>2. /\ files.images = 1..n /\ capture.acked = n /\ files.log = [i \in 1..n |-> i]
      BY <2>1, <3>1 DEF BrowserInv, InStep, Reached
    <3>3. files'.images = 1..(n + 1)
      BY <3>1, <3>2
    <3> QED BY <2>1, <2>2, <3>1, <3>2, <3>3 DEF InStep, Reached
  <2>4. CASE Acknowledge
    <3>1. /\ writer.pc = "acking" /\ writer'.pc = "logging" /\ files' = files
          /\ capture'.acked = capture.acked + 1
      BY <1>0, <2>4 DEF Acknowledge, Captures, Writers
    <3>2. /\ files.images = 1..(n + 1) /\ capture.acked = n /\ files.log = [i \in 1..n |-> i]
      BY <2>1, <3>1 DEF BrowserInv, InStep, Reached
    <3> QED BY <2>1, <2>2, <3>1, <3>2 DEF InStep, Reached
  <2>5. CASE LogFrame
    <3>1. /\ writer.pc = "logging" /\ writer'.pc = "health" /\ capture' = capture
          /\ files'.images = files.images /\ files'.log = Append(files.log, n + 1)
      BY <1>0, <1>2, <2>2, <2>5 DEF LogFrame, Outputs, Writers
    <3>2. /\ files.images = 1..(n + 1) /\ capture.acked = n + 1 /\ files.log = [i \in 1..n |-> i]
      BY <2>1, <3>1 DEF BrowserInv, InStep, Reached
    <3> QED BY <2>1, <2>2, <3>1, <3>2, OneMoreLine DEF InStep, Reached
  <2> QED BY <2>3, <2>4, <2>5
<1>4. BeforeStart' /\ AfterStop' /\ Judged'
  BY <1>1, <1>2 DEF BrowserInv, BeforeStart, AfterStop, Judged
<1> QED BY <1>2, <1>3, <1>4 DEF BrowserInv, BrowserTypes

\* The worker ends with its frame, in good order or not.
LEMMA WorkerTurns ==
  ASSUME BrowserInv, LogHealth \/ WorkerFault PROVE BrowserInv'
<1>0. /\ capture \in Captures /\ writer \in Writers /\ life \in Lives /\ files \in Outputs
      /\ writer.pc # "none"
  BY DEF BrowserInv, BrowserTypes, LogHealth, WorkerFault
<1>1. /\ life.start = "done" /\ capture.verdict = "none" /\ life.stop \in {"none", "worker"}
      /\ files.summary.status # "stopped"
  BY <1>0, AtWork
<1>2. /\ UNCHANGED files /\ life' \in Lives /\ life'.stop = life.stop
      /\ life'.start = life.start
      /\ life'.listening => life.listening
  BY <1>0 DEF LogHealth, WorkerFault, Deaf, Lives
<1>3. PICK c \in Captures : /\ Turn(c) /\ c.verdict = capture.verdict
                           /\ \/ c = capture /\ LogHealth
                              \/ c.status = "failed"
  <2>1. CASE LogHealth
    <3>1. Turn(capture) \/ Turn(Failed(capture))
      BY <2>1 DEF LogHealth
    <3>2. /\ Failed(capture) \in Captures /\ Failed(capture).status = "failed"
          /\ Failed(capture).verdict = capture.verdict
      BY <1>0 DEF Failed, Captures
    <3> QED BY <1>0, <2>1, <3>1, <3>2
  <2>2. CASE WorkerFault
    <3> DEFINE d == [capture EXCEPT !.rejected = @ + 1]
    <3>1. Turn(Failed(d))
      BY <2>2 DEF WorkerFault
    <3>2. d \in Captures /\ d.verdict = capture.verdict
      BY <1>0 DEF Captures
    <3> HIDE DEF d
    <3>3. /\ Failed(d) \in Captures /\ Failed(d).status = "failed"
          /\ Failed(d).verdict = d.verdict
      BY <3>2 DEF Failed, Captures
    <3> QED BY <3>1, <3>2, <3>3
  <2> QED BY <2>1, <2>2
<1>4. /\ capture' \in Captures /\ writer' \in Writers /\ capture'.status = c.status
      /\ capture'.verdict = "none"
  BY <1>1, <1>3, NextTurn
<1>5. InStep'
  <2> SUFFICES ASSUME c.status # "failed" PROVE InStep'
    BY <1>4 DEF InStep
  <2>1. c = capture /\ writer.pc = "health"
    BY <1>3 DEF LogHealth
  <2>2. PICK n \in Nat : n = Past(capture, writer)
    BY <2>1 DEF BrowserInv, InStep
  <2>3. /\ files.images = 1..(n + 1) /\ capture.acked = n + 1
        /\ files.log = [i \in 1..(n + 1) |-> i] /\ Queued(capture)
    BY <2>1, <2>2 DEF BrowserInv, InStep, Reached
  <2>4. capture.accepted - Len(capture.queue) = n + 1
    BY <1>0, <2>1, <2>2 DEF Past, Captures
  <2>5. /\ Past(capture', writer') = n + 1 /\ Queued(capture') /\ capture'.acked = capture.acked
        /\ writer'.pc = "none" => capture'.queue = <<>>
        /\ writer'.pc # "none" => writer'.pc = "writing" /\ writer'.frame = n + 2
    BY <1>3, <2>1, <2>3, <2>4, NextTurn
  <2>6. /\ Reached(writer', {"acking", "logging", "health"}) = 0
        /\ Reached(writer', {"logging", "health"}) = 0 /\ Reached(writer', {"health"}) = 0
    BY <2>5 DEF Reached
  <2> QED BY <1>2, <2>3, <2>5, <2>6 DEF InStep
<1>6. BeforeStart' /\ AfterStop'
  <2>1. life'.stop \in {"none", "worker"} /\ life'.start = "done"
    BY <1>1, <1>2
  <2>2. life'.stop # "none" => ~life'.listening
    BY <1>2 DEF BrowserInv, AfterStop
  <2> QED BY <2>1, <2>2 DEF BeforeStart, AfterStop
<1>7. Judged'
  BY <1>1, <1>2, <1>4 DEF Judged
<1> QED BY <1>7, <1>0, <1>2, <1>4, <1>5, <1>6 DEF BrowserInv, BrowserTypes

LEMMA DeliverKeeps == ASSUME BrowserInv, Deliver PROVE BrowserInv'
<1>0. /\ capture \in Captures /\ writer \in Writers /\ life \in Lives /\ files \in Outputs
      /\ UNCHANGED files /\ life.stop = "none" /\ capture.verdict = "none"
      /\ files.summary.status # "stopped"
  BY DEF BrowserInv, BrowserTypes, Deliver, AfterStop, Judged
<1>1. CASE DropFrame
  BY <1>0, <1>1 DEF BrowserInv, BrowserTypes, DropFrame, InStep, BeforeStart, AfterStop,
     Judged, Complete
<1>2. CASE RefuseFrame
  <2>1. life.start = "done"
    BY <1>2, AtWork DEF RefuseFrame
  <2>2. /\ life' \in Lives /\ life'.stop = life.stop /\ life'.start = life.start
        /\ life'.listening => life.listening
    BY <1>0, <1>2 DEF RefuseFrame, FailNow, Deaf, Lives
  <2> DEFINE d == [Received EXCEPT !.rejected = @ + 1]
  <2>3. d \in Captures /\ d.verdict = "none"
    <3>1. /\ capture.received + 1 \in Nat /\ capture.rejected + 1 \in Nat
          /\ d = [[capture EXCEPT !.received = @ + 1] EXCEPT !.rejected = @ + 1]
      BY <1>0 DEF Received, Captures
    <3>2. d = [capture EXCEPT !.received = @ + 1, !.rejected = @ + 1]
      BY <1>0, <3>1 DEF Captures
    <3> HIDE DEF d
    <3>3. d \in Captures
      BY <1>0, <3>1, <3>2, Zenon DEF Captures
    <3> QED BY <1>0, <3>2, <3>3 DEF Captures
  <2>4. capture' = [d EXCEPT !.status = "failed"] /\ UNCHANGED writer
    BY <1>2 DEF RefuseFrame, FailNow, Failed
  <2> HIDE DEF d
  <2>5. capture' \in Captures /\ capture'.status = "failed" /\ capture'.verdict = "none"
    BY <2>3, <2>4 DEF Captures
  <2> QED BY <1>0, <2>1, <2>2, <2>4, <2>5 DEF BrowserInv, BrowserTypes, InStep, BeforeStart,
             AfterStop, Judged
<1>3. CASE AcceptFrame
  <2>1. life.start = "done" /\ capture.status = "running" /\ UNCHANGED life
    BY <1>3, AtWork DEF AcceptFrame
  <2> DEFINE soft == Len(capture.queue) + 1 > SoftOccupancy /\ capture.degraded = "no"
             d == [Received EXCEPT !.accepted = capture.accepted + 1,
                     !.queue = Append(@, capture.accepted + 1),
                     !.degraded = IF soft THEN "sent" ELSE @]
  <2>2. IF writer.pc = "none" THEN Turn(d) ELSE capture' = d /\ UNCHANGED writer
    BY <1>3 DEF AcceptFrame
  <2>3. /\ d \in Captures /\ d.verdict = "none" /\ d.status = "running"
        /\ d.accepted = capture.accepted + 1 /\ d.acked = capture.acked
        /\ d.queue = Append(capture.queue, capture.accepted + 1)
    <3>0. capture.received + 1 \in Nat
      BY <1>0 DEF Captures
    <3>1. /\ Received \in Captures /\ Received.verdict = "none"
          /\ Received.queue = capture.queue /\ Received.acked = capture.acked
          /\ Received.status = "running"
      BY <1>0, <2>1, <3>0 DEF Received, Captures
    <3>2. /\ capture.accepted + 1 \in Nat /\ Append(capture.queue, capture.accepted + 1) \in Seq(Nat)
          /\ (IF soft THEN "sent" ELSE Received.degraded) \in {"no", "sent", "answered"}
      BY <1>0, <3>1 DEF Captures
    <3> HIDE DEF soft
    <3>3. d \in Captures
      BY <3>1, <3>2, Zenon DEF Captures
    <3> QED BY <3>1, <3>3 DEF Captures
  <2> HIDE DEF d
  <2>4. /\ Past(capture, writer) \in Nat /\ Queued(capture)
        /\ writer.pc = "none" => capture.queue = <<>>
        /\ writer.pc # "none" => writer.frame = Past(capture, writer) + 1
    BY <2>1 DEF BrowserInv, InStep
  <2>5. /\ Len(d.queue) = Len(capture.queue) + 1 /\ Len(capture.queue) \in Nat
        /\ d.queue \in Seq(Nat)
    BY <1>0, <2>3 DEF Captures
  <2>6. Queued(d)
    <3> SUFFICES ASSUME NEW i \in 1..Len(d.queue)
                 PROVE  d.queue[i] = d.accepted - Len(d.queue) + i
      BY <2>5 DEF Queued
    <3>1. CASE i \in 1..Len(capture.queue)
      <4>1. capture.queue[i] = capture.accepted - Len(capture.queue) + i
        BY <1>0, <2>4, <3>1 DEF Queued, Captures
      <4>2. capture.queue \in Seq(Nat) /\ capture.accepted \in Nat /\ capture.accepted + 1 \in Nat
        BY <1>0 DEF Captures
      <4>3. Append(capture.queue, capture.accepted + 1)[i] = capture.queue[i]
        BY <3>1, <4>2, EarlierLine, Zenon
      <4>4. d.queue[i] = capture.accepted - Len(capture.queue) + i
        BY <2>3, <4>1, <4>3, Zenon
      <4> QED BY <2>3, <2>5, <3>1, <4>2, <4>4
    <3>2. CASE i = Len(capture.queue) + 1
      BY <1>0, <2>3, <2>5, <3>2 DEF Captures
    <3> QED BY <2>5, <3>1, <3>2
  <2>7. /\ capture' \in Captures /\ writer' \in Writers /\ capture'.verdict = "none"
        /\ capture'.acked = capture.acked /\ Queued(capture')
        /\ Past(capture', writer') = Past(capture, writer)
        /\ writer'.pc = "none" => capture'.queue = <<>>
        /\ writer'.pc # "none" => writer'.frame = Past(capture', writer') + 1
        /\ writer'.pc = writer.pc \/ (writer.pc = "none" /\ writer'.pc = "writing")
    <3>1. CASE writer.pc = "none"
      <4>1. d.accepted - Len(d.queue) = Past(capture, writer)
        BY <1>0, <2>3, <2>5, <3>1 DEF Past, Captures
      <4> QED BY <2>2, <2>3, <2>6, <3>1, <4>1, NextTurn
    <3>2. CASE writer.pc # "none"
      <4>1. Past(d, writer) = Past(capture, writer)
        BY <1>0, <2>3, <2>5, <3>2 DEF Past, Captures
      <4> QED BY <1>0, <2>2, <2>3, <2>4, <2>6, <3>2, <4>1
    <3> QED BY <3>1, <3>2
  <2>8. /\ Reached(writer', {"acking", "logging", "health"}) = Reached(writer, {"acking", "logging", "health"})
        /\ Reached(writer', {"logging", "health"}) = Reached(writer, {"logging", "health"})
        /\ Reached(writer', {"health"}) = Reached(writer, {"health"})
    BY <2>7 DEF Reached
  <2>9. InStep'
    BY <1>0, <2>1, <2>4, <2>7, <2>8 DEF BrowserInv, InStep
  <2> QED BY <1>0, <2>1, <2>7, <2>9 DEF BrowserInv, BrowserTypes, BeforeStart, AfterStop, Judged
<1> QED BY <1>1, <1>2, <1>3 DEF Deliver

\* stopBrowserCapture waits for the worker, gives its verdict, and writes it down.
LEMMA StopsKeep ==
  ASSUME BrowserInv, \/ EndCapture \/ AwaitWorker \/ CaptureStopped
                     \/ StopFails \/ SaveSummary
  PROVE  BrowserInv'
<1>0. /\ capture \in Captures /\ writer \in Writers /\ life \in Lives /\ files \in Outputs
      /\ UNCHANGED writer /\ life.start = "done"
  <2>1. life.start = "done"
    BY AtWork DEF EndCapture, AwaitWorker, CaptureStopped, StopFails,
       SaveSummary
  <2> QED BY <2>1 DEF BrowserInv, BrowserTypes, EndCapture, AwaitWorker,
             CaptureStopped, StopFails, SaveSummary
<1>1. CASE EndCapture \/ AwaitWorker \/ StopFails
  <2>1. UNCHANGED <<capture, writer, files>>
    BY <1>1 DEF EndCapture, AwaitWorker, StopFails
  <2>2. life' \in Lives /\ life'.start = "done"
    <3>1. CASE EndCapture
      <4>1. life' = [life EXCEPT !.listening = FALSE, !.stop = "worker"]
        BY <3>1 DEF EndCapture
      <4> QED BY <1>0, <4>1, Zenon DEF Lives
    <3>2. CASE AwaitWorker \/ StopFails
      BY <1>0, <3>2 DEF AwaitWorker, StopFails, Lives
    <3> QED BY <1>1, <3>1, <3>2
  <2>3. InStep'
    BY <2>1 DEF BrowserInv, InStep, Past, Queued, Reached
  <2>4. AfterStop'
    BY <1>0, <1>1 DEF BrowserInv, AfterStop, EndCapture, AwaitWorker,
       StopFails, Lives
  <2>5. Judged'
    <3>1. capture.verdict # "none" => life'.stop \in {"summary", "done", "threw"}
      BY <1>0, <1>1 DEF BrowserInv, Judged, EndCapture, AwaitWorker,
         StopFails, Lives
    <3> QED BY <2>1, <3>1 DEF BrowserInv, Judged, Complete
  <2> QED BY <1>0, <2>1, <2>2, <2>3, <2>4, <2>5 DEF BrowserInv, BrowserTypes, BeforeStart
<1>2. CASE CaptureStopped
  <2> DEFINE v == IF capture.status = "failed" \/ Incomplete THEN "failed" ELSE "stopped"
  <2>1. /\ capture' = [capture EXCEPT !.status = v, !.verdict = v] /\ UNCHANGED files
        /\ life' = [life EXCEPT !.stop = "summary"] /\ life.stop = "command"
        /\ v \in {"failed", "stopped"} /\ writer.pc = "none" /\ ~life.listening
    BY <1>2 DEF BrowserInv, AfterStop, CaptureStopped
  <2>2. v = "stopped" => capture.status # "failed" /\ ~Incomplete
    OBVIOUS
  <2> HIDE DEF v
  <2>3. capture' \in Captures
    <3>1. v \in {"starting", "running", "stopped", "failed"} /\ v \in Verdicts
      BY <2>1 DEF Verdicts
    <3> QED BY <1>0, <2>1, <3>1, Zenon DEF Captures
  <2>4. /\ capture'.queue = capture.queue /\ capture'.accepted = capture.accepted
        /\ capture'.acked = capture.acked /\ capture'.status = v /\ capture'.verdict = v
    BY <1>0, <2>1 DEF Captures
  <2>5. life' \in Lives /\ life'.stop = "summary" /\ life'.start = "done" /\ ~life'.listening
    BY <1>0, <2>1 DEF Lives
  <2>6. InStep'
    BY <1>0, <2>1, <2>2, <2>4 DEF BrowserInv, InStep, Past, Queued, Reached
  <2>7. ASSUME v = "stopped" PROVE Complete'
    <3>1. capture.status # "failed" /\ capture.accepted > 0 /\ capture.acked = capture.accepted
      BY <1>0, <2>2, <2>7 DEF Incomplete, Captures
    <3>2. Past(capture, writer) = capture.accepted - Len(capture.queue) - 0 /\ capture.queue = <<>>
      BY <2>1, <3>1 DEF BrowserInv, InStep, Past
    <3>3. /\ Past(capture, writer) = capture.accepted
          /\ Reached(writer, {"acking", "logging", "health"}) = 0
          /\ Reached(writer, {"logging", "health"}) = 0 /\ Reached(writer, {"health"}) = 0
      BY <1>0, <2>1, <3>2 DEF Reached, Captures
    <3>4. files.images = 1..capture.accepted /\ files.log = [i \in 1..capture.accepted |-> i]
      <4>1. capture.accepted + 0 = capture.accepted
        BY <1>0 DEF Captures
      <4> QED BY <3>1, <3>3, <4>1 DEF BrowserInv, InStep
    <3> QED BY <2>1, <2>4, <3>1, <3>4 DEF Complete
  <2>8. files.summary.status # "stopped"
    BY <2>1 DEF BrowserInv, Judged
  <2> QED BY <1>0, <2>1, <2>3, <2>4, <2>5, <2>6, <2>7, <2>8
          DEF BrowserInv, BrowserTypes, BeforeStart, AfterStop, Judged
<1>3. CASE SaveSummary
  <2>1. /\ UNCHANGED capture /\ life.stop = "summary"
        /\ files' = [files EXCEPT !.summary = [status |-> capture.verdict,
                        accepted |-> capture.accepted, acked |-> capture.acked]]
        /\ life' = [life EXCEPT !.stop = "done", !.registered = FALSE]
    BY <1>3 DEF SaveSummary
  <2>2. life' \in Lives /\ life'.stop = "done" /\ life'.start = "done"
        /\ life'.listening = life.listening
    <3>1. life' \in Lives
      BY <1>0, <2>1, Zenon DEF Lives
    <3> QED BY <1>0, <2>1, <3>1 DEF Lives
  <2>3. /\ files' \in Outputs /\ files'.images = files.images /\ files'.log = files.log
        /\ files'.summary = [status |-> capture.verdict, accepted |-> capture.accepted,
                             acked |-> capture.acked]
    <3>1. [status |-> capture.verdict, accepted |-> capture.accepted, acked |-> capture.acked]
            \in [status : Verdicts, accepted : Nat, acked : Nat]
      BY <1>0 DEF Captures
    <3> QED BY <1>0, <2>1, <3>1 DEF Outputs
  <2>4. InStep'
    BY <1>0, <2>1, <2>3 DEF BrowserInv, InStep, Past, Queued, Reached
  <2>5. Judged'
    BY <2>1, <2>2, <2>3 DEF BrowserInv, Judged, Complete
  <2>6. AfterStop'
    BY <1>0, <2>1, <2>2 DEF BrowserInv, AfterStop
  <2> QED BY <1>0, <2>1, <2>2, <2>3, <2>4, <2>5, <2>6 DEF BrowserInv, BrowserTypes, BeforeStart
<1> QED BY <1>1, <1>2, <1>3

LEMMA BrowserSteps == ASSUME BrowserInv, BrowserNext PROVE BrowserInv'
BY StartKeeps, DegradedKeeps, WorkerWrites, WorkerTurns, DeliverKeeps, StopsKeep
DEF BrowserNext

\* A browser capture's summary that says "stopped" is true of the files, for every number
\* of frames and every occupancy at which the queue degrades or fails: the log and the
\* images are exactly the frames that were accepted and acknowledged
\* (stopBrowserCapture in browser/capture-runtime.js).
THEOREM BrowserSummaryIsTrue == BrowserSpec => []SummaryIsTrue
<1>1. BrowserInv => SummaryIsTrue
  BY DEF BrowserInv, Judged, Complete, SummaryIsTrue
<1>2. BrowserInv /\ UNCHANGED browserVars => BrowserInv'
  BY DEF BrowserInv, BrowserTypes, InStep, BeforeStart, AfterStop, Judged, Complete, Past,
     Reached, Queued, browserVars
<1> QED
  BY <1>1, <1>2, BrowserStarts, BrowserSteps, PTL DEF BrowserSpec

-----------------------------------------------------------------------------
(* 3. The file mailbox between a sandboxed runner and the broker. *)

Answers == {"none", "ok", "refused", "gone"}
Polls == [pc : {"queued", "look", "read", "post", "answer", "rename", "done"},
          names : Seq(Requests), reply : Answers]
Boxes == [open : BOOLEAN, there : BOOLEAN, requests : SUBSET Requests,
          temporary : SUBSET Requests, responses : [Requests -> Answers]]

\* The broker sees a request once at most.
Unseen == <<>>
Outcomes == {Unseen, <<"started">>, <<"ok">>, <<"refused">>}

MailTypes ==
  /\ client \in [Requests -> {"idle", "waiting", "ok", "refused", "timeout", "failed"}]
  /\ box \in Boxes /\ IsFiniteSet(box.requests)
  /\ polls \in Seq(Polls)
  /\ handled \in [Requests -> Outcomes]

\* A consume() waits for those before it.
InTurn == \A p, q \in 1..Len(polls) : q < p /\ polls[p].pc # "queued" => polls[q].pc = "done"

Distinct(names) == \A i, j \in 1..Len(names) : i # j => names[i] # names[j]

\* A consume() x at work: no name comes twice, and the broker has seen none of those ahead.
AtIt(x) == x.pc \notin {"queued", "done"}
Sound(x, h) ==
  AtIt(x) =>
    /\ x.names # <<>> /\ Distinct(x.names)
    /\ \A i \in 1..Len(x.names) : i > 1 \/ x.pc \in {"look", "read"} => h[x.names[i]] = Unseen
    /\ x.pc = "post" => h[x.names[1]] # Unseen
    /\ x.pc \in {"answer", "rename"} /\ x.reply = "ok" => h[x.names[1]] = <<"ok">>
AllSound == \A p \in 1..Len(polls) : Sound(polls[p], handled)

\* A request the broker has seen is in the mailbox only until its consume() answers it.
Takes(x, r) == x.pc \in {"post", "answer"} /\ x.names[1] = r
Asked ==
  \A r \in box.requests : handled[r] # Unseen => \E p \in 1..Len(polls) : Takes(polls[p], r)

Honest ==
  \A r \in Requests :
    /\ client[r] = "idle" => r \notin box.requests /\ handled[r] = Unseen
    /\ client[r] = "ok" \/ box.responses[r] = "ok" => handled[r] = <<"ok">>

MailInv == MailTypes /\ InTurn /\ AllSound /\ Asked /\ Honest

LEMMA MailStarts == MailInit => MailInv
<1> SUFFICES ASSUME MailInit PROVE MailInv
  OBVIOUS
<1>1. MailTypes
  <2>1. IsFiniteSet(box.requests)
    BY FS_EmptySet DEF MailInit
  <2> QED BY <2>1 DEF MailInit, MailTypes, Boxes, Outcomes, Unseen, Answers
<1>2. Len(polls) = 0
  BY DEF MailInit
<1> QED BY <1>1, <1>2 DEF MailInit, MailInv, InTurn, AllSound, Asked, Honest, Unseen

\* Another consume() is at rest while one runs.
LEMMA OthersRest ==
  ASSUME MailInv, NEW p \in 1..Len(polls), Runs(p), polls[p].pc # "done",
         NEW q \in 1..Len(polls), q # p
  PROVE  ~AtIt(polls[q])
<1>1. p \in Int /\ q \in Int
  OBVIOUS
<1>2. CASE q < p
  BY <1>1, <1>2 DEF Runs, AtIt
<1>3. CASE p < q
  BY <1>1, <1>3 DEF MailInv, InTurn, AtIt
<1> QED BY <1>1, <1>2, <1>3

\* The running consume() becomes x.
LEMMA PollBecomes ==
  ASSUME MailInv, NEW p \in 1..Len(polls), Runs(p), polls[p].pc # "done",
         NEW x \in Polls, polls' = [polls EXCEPT ![p] = x], Sound(x, handled')
  PROVE  /\ polls' \in Seq(Polls) /\ InTurn' /\ AllSound'
         /\ Len(polls') = Len(polls) /\ polls'[p] = x
<1>1. polls \in Seq(Polls) /\ Len(polls) \in Nat /\ p \in Int
  BY DEF MailInv, MailTypes
<1>2. /\ polls' \in Seq(Polls) /\ Len(polls') = Len(polls) /\ polls'[p] = x
      /\ \A q \in 1..Len(polls) : q # p => polls'[q] = polls[q]
  BY <1>1
<1>3. InTurn'
  <2> SUFFICES ASSUME NEW r \in 1..Len(polls), NEW q \in 1..Len(polls), q < r,
                      polls'[r].pc # "queued"
               PROVE  polls'[q].pc = "done"
    BY <1>2 DEF InTurn
  <2>1. CASE r = p
    BY <1>1, <1>2, <2>1 DEF Runs
  <2>2. CASE r # p
    <3>1. polls[q].pc = "done"
      BY <1>2, <2>2 DEF MailInv, InTurn
    <3> QED BY <1>2, <3>1
  <2> QED BY <2>1, <2>2
<1>4. AllSound'
  <2> SUFFICES ASSUME NEW q \in 1..Len(polls) PROVE Sound(polls'[q], handled')
    BY <1>2 DEF AllSound
  <2>1. CASE q = p
    BY <1>2, <2>1
  <2>2. CASE q # p
    BY <1>2, <2>2, OthersRest DEF Sound
  <2> QED BY <2>1, <2>2
<1> QED BY <1>2, <1>3, <1>4

LEMMA WriteKeeps == ASSUME MailInv, NEW r \in Requests, Write(r) PROVE MailInv'
<1>1. /\ client' \in [Requests -> {"idle", "waiting", "ok", "refused", "timeout", "failed"}]
      /\ client[r] = "idle" /\ client'[r] \in {"waiting", "failed"}
      /\ \A s \in Requests : s # r => client'[s] = client[s]
      /\ UNCHANGED <<polls, handled>>
  BY DEF MailInv, MailTypes, Write, Becomes
<1>2. /\ box' \in Boxes /\ box'.responses = box.responses
      /\ box'.requests = box.requests \/ box'.requests = box.requests \cup {r}
  BY DEF MailInv, MailTypes, Write, Boxes
<1>3. IsFiniteSet(box'.requests)
  <2>1. IsFiniteSet(box.requests)
    BY DEF MailInv, MailTypes
  <2>2. IsFiniteSet(box.requests \cup {r})
    BY <2>1, FS_AddElement, Zenon
  <2> QED BY <1>2, <2>1, <2>2
<1>4. handled[r] = Unseen
  BY <1>1 DEF MailInv, Honest
<1>5. MailTypes' /\ InTurn' /\ AllSound'
  BY <1>1, <1>2, <1>3 DEF MailInv, MailTypes, InTurn, AllSound
<1>6. Asked'
  BY <1>1, <1>2, <1>4 DEF MailInv, Asked
<1>7. Honest'
  BY <1>1, <1>2 DEF MailInv, Honest
<1> QED BY <1>5, <1>6, <1>7 DEF MailInv

LEMMA CallEnds ==
  ASSUME MailInv, NEW r \in Requests, Read(r) \/ GiveUp(r) PROVE MailInv'
<1>1. /\ client' \in [Requests -> {"idle", "waiting", "ok", "refused", "timeout", "failed"}]
      /\ client'[r] \in {"ok", "refused", "timeout"}
      /\ client'[r] = "ok" => box.responses[r] = "ok"
      /\ \A s \in Requests : s # r => client'[s] = client[s]
      /\ UNCHANGED <<polls, handled>> /\ box' = Cleared(r)
  BY DEF MailInv, MailTypes, Read, GiveUp, Becomes
<1>2. /\ box' \in Boxes /\ box'.requests = box.requests \ {r}
      /\ \A s \in Requests : box'.responses[s] = "ok" => box.responses[s] = "ok"
  <2> DEFINE left == [box.responses EXCEPT ![r] = "none"]
             rest == box.requests \ {r}
  <2>1. left \in [Requests -> Answers] /\ \A s \in Requests : left[s] = "ok" => box.responses[s] = "ok"
    BY DEF MailInv, MailTypes, Boxes, Answers
  <2>2. box' = [box EXCEPT !.requests = rest, !.responses = left]
    BY <1>1 DEF Cleared, MailInv, MailTypes, Boxes
  <2>3. rest \in SUBSET Requests
    BY DEF MailInv, MailTypes, Boxes
  <2> HIDE DEF left
  <2>4. box' \in Boxes
    BY <2>1, <2>2, <2>3, Zenon DEF MailInv, MailTypes, Boxes
  <2>5. box'.requests = rest /\ box'.responses = left
    BY <2>2 DEF MailInv, MailTypes, Boxes
  <2> QED BY <2>1, <2>4, <2>5
<1>3. IsFiniteSet(box'.requests)
  BY <1>2, FS_Subset DEF MailInv, MailTypes
<1>4. MailTypes' /\ InTurn' /\ AllSound'
  BY <1>1, <1>2, <1>3 DEF MailInv, MailTypes, InTurn, AllSound
<1>5. Asked' /\ Honest'
  BY <1>1, <1>2 DEF MailInv, Asked, Honest
<1> QED BY <1>4, <1>5 DEF MailInv

\* The broker's answer.
LEMMA BrokerKeeps == ASSUME MailInv, NEW r \in Requests, BrokerHandles(r) PROVE MailInv'
<1>1. PICK i \in DOMAIN handled[r] : /\ handled[r][i] = "started"
                                    /\ \E reply \in {"ok", "refused"} : handled' = [handled EXCEPT ![r][i] = reply]
  BY DEF BrokerHandles
<1>2. PICK reply \in {"ok", "refused"} : handled' = [handled EXCEPT ![r][i] = reply]
  BY <1>1
<1>3. handled[r] = <<"started">> /\ i = 1
  <2>1. handled[r] \in Outcomes
    BY DEF MailInv, MailTypes
  <2> QED BY <1>1, <2>1 DEF Outcomes, Unseen
<1>4. [handled[r] EXCEPT ![i] = reply] = <<reply>>
  BY <1>3
<1>5. handled' = [handled EXCEPT ![r] = <<reply>>]
  BY <1>2, <1>4
<1>6. /\ handled' \in [Requests -> Outcomes] /\ handled'[r] # Unseen
      /\ \A s \in Requests : s # r => handled'[s] = handled[s]
      /\ UNCHANGED <<client, box, polls>>
  BY <1>5 DEF MailInv, MailTypes, Outcomes, Unseen, BrokerHandles
<1>7. /\ handled[r] # Unseen /\ handled[r] # <<"ok">>
  BY <1>3 DEF Unseen
<1>8. \A s \in Requests : /\ handled[s] = Unseen => handled'[s] = Unseen
                          /\ handled[s] # Unseen <=> handled'[s] # Unseen
                          /\ handled[s] = <<"ok">> => handled'[s] = <<"ok">>
  BY <1>6, <1>7
<1>9. AllSound'
  <2> SUFFICES ASSUME NEW p \in 1..Len(polls) PROVE Sound(polls[p], handled')
    BY <1>6 DEF AllSound
  <2>1. Sound(polls[p], handled) /\ polls[p] \in Polls
    BY DEF MailInv, MailTypes, AllSound
  <2>2. polls[p].names \in Seq(Requests)
    BY <2>1 DEF Polls
  <2>3. \A k \in 1..Len(polls[p].names) : polls[p].names[k] \in Requests
    BY <2>2
  <2>4. polls[p].names # <<>> => polls[p].names[1] \in Requests
    BY <2>2
  <2> QED BY <1>8, <2>1, <2>3, <2>4 DEF Sound
<1>10. MailTypes' /\ InTurn'
  BY <1>6 DEF MailInv, MailTypes, InTurn
<1>11. Asked' /\ Honest'
  <2>1. box.requests \subseteq Requests
    BY DEF MailInv, MailTypes, Boxes
  <2> QED BY <1>6, <1>8, <2>1 DEF MailInv, Asked, Honest
<1> QED BY <1>9, <1>10, <1>11 DEF MailInv

\* What the steps of the running consume() have in common.
LEMMA AtWorkOn ==
  ASSUME MailInv, NEW p, NEW pc \in {"look", "read", "post", "answer", "rename"},
         Poll(p, pc)
  PROVE  /\ p \in 1..Len(polls) /\ Runs(p) /\ polls[p] \in Polls /\ polls[p].pc = pc
         /\ AtIt(polls[p]) /\ Sound(polls[p], handled)
         /\ polls[p].names # <<>> /\ Distinct(polls[p].names)
         /\ polls[p].names \in Seq(Requests) /\ Len(polls[p].names) \in Nat \ {0}
         /\ Current(p) = polls[p].names[1] /\ Current(p) \in Requests
<1>1. p \in 1..Len(polls) /\ Runs(p) /\ polls[p].pc = pc /\ polls[p] \in Polls
  BY DEF MailInv, MailTypes, Poll, Runs
<1>2. Sound(polls[p], handled) /\ AtIt(polls[p])
  BY <1>1 DEF MailInv, AllSound, AtIt
<1>3. polls[p].names # <<>> /\ Distinct(polls[p].names) /\ polls[p].names \in Seq(Requests)
  BY <1>1, <1>2 DEF Sound, Polls
<1> QED BY <1>1, <1>2, <1>3 DEF Current

\* Once the running consume() is past a request nobody waits for it in the mailbox.
LEMMA AskedOf ==
  ASSUME MailInv, NEW p \in 1..Len(polls), Runs(p), polls[p].pc # "done"
  PROVE  \A r \in box.requests : handled[r] # Unseen => Takes(polls[p], r)
BY OthersRest DEF MailInv, Asked, Takes, AtIt

\* The running consume() becomes x, a file is answered or not, the rest stays.
LEMMA PollKeeps ==
  ASSUME MailInv, NEW p \in 1..Len(polls), Runs(p), polls[p].pc # "done",
         NEW x \in Polls, polls' = [polls EXCEPT ![p] = x], Sound(x, handled),
         UNCHANGED <<client, handled>>,
         box' \in Boxes, box'.requests \subseteq box.requests,
         \A r \in Requests : box'.responses[r] = "ok" =>
            box.responses[r] = "ok" \/ handled[r] = <<"ok">>,
         \A r \in box'.requests : Takes(polls[p], r) => Takes(x, r)
  PROVE  MailInv'
<1>1. Sound(x, handled')
  OBVIOUS
<1>2. polls' \in Seq(Polls) /\ InTurn' /\ AllSound' /\ Len(polls') = Len(polls) /\ polls'[p] = x
  BY <1>1, PollBecomes
<1>3. IsFiniteSet(box'.requests)
  BY FS_Subset DEF MailInv, MailTypes
<1>4. Asked'
  BY <1>2, AskedOf DEF Asked
<1>5. Honest'
  BY DEF MailInv, Honest
<1>6. MailTypes'
  BY <1>2, <1>3 DEF MailInv, MailTypes
<1> QED BY <1>2, <1>4, <1>5, <1>6 DEF MailInv

\* A consume() that is over.
Over == [pc |-> "done", names |-> <<>>, reply |-> "none"]

LEMMA NobodyTakes == ASSUME NEW x, x.pc \notin {"post", "answer"}, NEW r PROVE ~Takes(x, r)
BY DEF Takes

LEMMA ListKeeps == ASSUME MailInv, NEW p, List(p) PROVE MailInv'
<1>1. /\ p \in 1..Len(polls) /\ Runs(p) /\ polls[p].pc = "queued" /\ polls \in Seq(Polls)
      /\ UNCHANGED <<client, box, handled>> /\ box \in Boxes
  BY DEF MailInv, MailTypes, List, Poll, Runs
<1>2. PICK names \in SetToAllKPermutations(box.requests) :
        polls' = [polls EXCEPT ![p] = [NewPoll EXCEPT
                     !.pc = IF names = <<>> THEN "done" ELSE "look", !.names = names]]
  BY DEF List
<1>3. names \in Seq(box.requests) /\ Distinct(names)
  <2>1. PICK s \in SUBSET box.requests : names \in SetToSeqs(s)
    BY <1>2 DEF SetToAllKPermutations
  <2>2. IsFiniteSet(s) /\ Cardinality(s) \in Nat
    BY <2>1, FS_Subset, FS_CardinalityType DEF MailInv, MailTypes
  <2>3. /\ names \in [1..Cardinality(s) -> s]
        /\ \A i, j \in 1..Cardinality(s) : i # j => names[i] # names[j]
    BY <2>1 DEF SetToSeqs
  <2>4. names \in Seq(s) /\ Len(names) = Cardinality(s)
    BY <2>2, <2>3
  <2>5. names \in Seq(box.requests)
    BY <2>1, <2>3, <2>4
  <2> QED BY <2>3, <2>4, <2>5 DEF Distinct
<1> DEFINE pc == IF names = <<>> THEN "done" ELSE "look"
           x == [NewPoll EXCEPT !.pc = pc, !.names = names]
<1>4. names \in Seq(Requests) /\ pc \in {"done", "look"} /\ (pc = "look" => names # <<>>)
  BY <1>1, <1>3 DEF Boxes
<1>5. polls' = [polls EXCEPT ![p] = x]
  BY <1>2
<1> HIDE DEF pc
<1>6. x \in Polls /\ x.pc = pc /\ x.names = names
  <2>1. NewPoll \in Polls
    BY DEF NewPoll, Polls, Answers
  <2>2. pc \in {"queued", "look", "read", "post", "answer", "rename", "done"}
    BY <1>4
  <2>3. x \in Polls
    BY <1>4, <2>1, <2>2, Zenon DEF Polls
  <2> QED BY <2>1, <2>3 DEF Polls
<1> HIDE DEF x
<1>7. \A i \in 1..Len(names) : names[i] \in box.requests
  BY <1>3
<1>8. \A r \in box.requests : handled[r] = Unseen
  BY <1>1, AskedOf, NobodyTakes
<1>9. Sound(x, handled)
  BY <1>3, <1>4, <1>6, <1>7, <1>8 DEF Sound, AtIt
<1>10. \A r \in box'.requests : Takes(polls[p], r) => Takes(x, r)
  BY <1>1, NobodyTakes
<1> QED BY <1>1, <1>5, <1>6, <1>9, <1>10, PollKeeps

\* A consume() that throws.
LEMMA ThrowKeeps ==
  ASSUME MailInv, NEW p \in 1..Len(polls), Runs(p), AtIt(polls[p]),
         Throws(p), UNCHANGED <<client, handled>>,
         box' \in Boxes, box'.requests \subseteq box.requests, box'.responses = box.responses,
         \A r \in box'.requests : ~Takes(polls[p], r)
  PROVE  MailInv'
<1>1. polls' = [polls EXCEPT ![p] = Over]
  <2>1. [NewPoll EXCEPT !.pc = "done"] = Over
    BY DEF NewPoll, Over
  <2> QED BY <2>1 DEF Throws
<1>2. Over \in Polls /\ Sound(Over, handled) /\ polls[p].pc # "done"
  BY DEF Over, Polls, Answers, Sound, AtIt
<1> QED BY <1>1, <1>2, PollKeeps

LEMMA LookKeeps == ASSUME MailInv, NEW p, Look(p) PROVE MailInv'
<1>1. Poll(p, "look")
  BY DEF Look
<1>2. /\ p \in 1..Len(polls) /\ Runs(p) /\ polls[p] \in Polls /\ polls[p].pc = "look"
      /\ AtIt(polls[p]) /\ Sound(polls[p], handled) /\ polls \in Seq(Polls)
      /\ UNCHANGED <<client, box, handled>> /\ box \in Boxes
  BY <1>1, AtWorkOn DEF Look, MailInv, MailTypes
<1>3. \A r : ~Takes(polls[p], r)
  BY <1>2, NobodyTakes
<1>4. CASE Throws(p)
  BY <1>2, <1>3, <1>4, ThrowKeeps
<1>5. CASE Moves(p, "read")
  <2> DEFINE x == [polls[p] EXCEPT !.pc = "read"]
  <2>1. polls' = [polls EXCEPT ![p] = x]
    BY <1>2, <1>5 DEF Moves
  <2>2. x \in Polls /\ x.names = polls[p].names /\ x.pc = "read"
    BY <1>2 DEF Polls
  <2> HIDE DEF x
  <2>3. Sound(x, handled)
    BY <1>2, <2>2 DEF Sound, AtIt
  <2> QED BY <1>2, <1>3, <2>1, <2>2, <2>3, PollKeeps
<1> QED BY <1>4, <1>5 DEF Look

LEMMA ReadRequestKeeps == ASSUME MailInv, NEW p, ReadRequest(p) PROVE MailInv'
<1> DEFINE cur == Current(p)
<1>1. Poll(p, "read")
  BY DEF ReadRequest
<1>2. /\ p \in 1..Len(polls) /\ Runs(p) /\ polls[p] \in Polls /\ polls[p].pc = "read"
      /\ AtIt(polls[p]) /\ Sound(polls[p], handled) /\ polls \in Seq(Polls)
      /\ polls[p].names # <<>> /\ Distinct(polls[p].names) /\ polls[p].names \in Seq(Requests)
      /\ Len(polls[p].names) \in Nat \ {0} /\ cur = polls[p].names[1] /\ cur \in Requests
      /\ UNCHANGED <<client, box>> /\ box \in Boxes /\ handled \in [Requests -> Outcomes]
  BY <1>1, AtWorkOn DEF ReadRequest, MailInv, MailTypes
<1> HIDE DEF cur
<1>3. \A r : ~Takes(polls[p], r)
  BY <1>2, NobodyTakes
<1>4. CASE cur \notin box.requests
  <2> DEFINE x == [polls[p] EXCEPT !.pc = "answer", !.reply = "gone"]
  <2>1. polls' = [polls EXCEPT ![p] = x] /\ UNCHANGED handled
    BY <1>2, <1>4 DEF ReadRequest, cur
  <2>2. x \in Polls
    <3>1. "answer" \in {"queued", "look", "read", "post", "answer", "rename", "done"}
          /\ "gone" \in Answers
      BY DEF Answers
    <3> QED BY <1>2, <3>1, Zenon DEF Polls
  <2>3. x.names = polls[p].names /\ x.pc = "answer" /\ x.reply = "gone"
    BY <1>2 DEF Polls
  <2> HIDE DEF x
  <2>4. Sound(x, handled)
    BY <1>2, <2>3 DEF Sound, AtIt
  <2> QED BY <1>2, <1>3, <2>1, <2>2, <2>4, PollKeeps
<1>5. CASE cur \in box.requests
  <2> DEFINE x == [polls[p] EXCEPT !.pc = "post"]
  <2>1. polls' = [polls EXCEPT ![p] = x] /\ handled' = [handled EXCEPT ![cur] = Append(@, "started")]
    BY <1>2, <1>5 DEF ReadRequest, Moves, cur
  <2>2. x \in Polls /\ x.names = polls[p].names /\ x.pc = "post"
    BY <1>2 DEF Polls
  <2> HIDE DEF x
  <2>3. handled[cur] = Unseen
    BY <1>2 DEF Sound
  <2>4. handled' = [handled EXCEPT ![cur] = <<"started">>]
    <3>1. Append(handled[cur], "started") = <<"started">>
      BY <2>3 DEF Unseen
    <3> QED BY <2>1, <3>1
  <2>5. /\ handled' \in [Requests -> Outcomes] /\ handled'[cur] # Unseen
        /\ \A r \in Requests : r # cur => handled'[r] = handled[r]
    BY <1>2, <2>4 DEF Outcomes, Unseen
  <2>6. Sound(x, handled')
    <3>1. \A i \in 1..Len(x.names) : i > 1 => x.names[i] \in Requests /\ x.names[i] # cur
      BY <1>2, <2>2 DEF Distinct
    <3>2. \A i \in 1..Len(x.names) : i > 1 => handled[x.names[i]] = Unseen
      BY <1>2, <2>2 DEF Sound
    <3> QED BY <1>2, <2>2, <2>5, <3>1, <3>2 DEF Sound
  <2>7. polls' \in Seq(Polls) /\ InTurn' /\ AllSound' /\ Len(polls') = Len(polls) /\ polls'[p] = x
    BY <1>2, <2>1, <2>2, <2>6, PollBecomes
  <2>8. Asked'
    <3> SUFFICES ASSUME NEW r \in box.requests, handled'[r] # Unseen
                 PROVE  \E q \in 1..Len(polls') : Takes(polls'[q], r)
      BY <1>2 DEF Asked
    <3>1. r \in Requests
      BY <1>2 DEF Boxes
    <3>2. CASE r = cur
      BY <1>2, <2>2, <2>7, <3>2 DEF Takes
    <3>3. CASE r # cur
      BY <1>2, <1>3, <2>5, <3>1, <3>3, AskedOf
    <3> QED BY <3>2, <3>3
  <2>9. Honest'
    <3>1. <<"ok">> # Unseen
      BY DEF Unseen
    <3>2. client[cur] # "idle" /\ client[cur] # "ok" /\ box.responses[cur] # "ok"
      BY <1>2, <1>5, <2>3, <3>1 DEF MailInv, Honest
    <3> QED BY <1>2, <2>5, <3>2 DEF MailInv, Honest
  <2>10. MailTypes'
    BY <1>2, <2>5, <2>7 DEF MailInv, MailTypes
  <2> QED BY <2>7, <2>8, <2>9, <2>10 DEF MailInv
<1> QED BY <1>4, <1>5

LEMMA PostedKeeps == ASSUME MailInv, NEW p, Posted(p) PROVE MailInv'
<1> DEFINE cur == Current(p)
<1>1. Poll(p, "post")
  BY DEF Posted
<1>2. /\ p \in 1..Len(polls) /\ Runs(p) /\ polls[p] \in Polls /\ polls[p].pc = "post"
      /\ AtIt(polls[p]) /\ Sound(polls[p], handled) /\ polls \in Seq(Polls)
      /\ cur = polls[p].names[1] /\ cur \in Requests
      /\ UNCHANGED <<client, box, handled>> /\ box \in Boxes /\ handled \in [Requests -> Outcomes]
  BY <1>1, AtWorkOn DEF Posted, MailInv, MailTypes
<1>3. PICK reply \in {"ok", "refused", "gone"} :
        /\ reply # "gone" => Last(handled[cur]) = reply
        /\ polls' = [polls EXCEPT ![p].pc = "answer", ![p].reply = reply]
  BY DEF Posted
<1> HIDE DEF cur
<1> DEFINE x == [polls[p] EXCEPT !.pc = "answer", !.reply = reply]
<1>4. polls' = [polls EXCEPT ![p] = x]
  BY <1>2, <1>3
<1>5. x \in Polls
  <2>1. "answer" \in {"queued", "look", "read", "post", "answer", "rename", "done"}
        /\ reply \in Answers
    BY DEF Answers
  <2> QED BY <1>2, <2>1, Zenon DEF Polls
<1>6. x.names = polls[p].names /\ x.pc = "answer" /\ x.reply = reply
  BY <1>2 DEF Polls
<1> HIDE DEF x
<1>7. reply = "ok" => handled[cur] = <<"ok">>
  <2>1. handled[cur] \in Outcomes /\ handled[cur] # Unseen
    BY <1>2 DEF Sound
  <2>2. Last(<<"started">>) = "started" /\ Last(<<"refused">>) = "refused"
    BY DEF Last
  <2> QED BY <1>3, <2>1, <2>2 DEF Outcomes
<1>8. Sound(x, handled)
  BY <1>2, <1>6, <1>7 DEF Sound, AtIt
<1>9. \A r \in box'.requests : Takes(polls[p], r) => Takes(x, r)
  BY <1>6 DEF Takes
<1> QED BY <1>2, <1>4, <1>5, <1>8, <1>9, PollKeeps

LEMMA AnswerKeeps ==
  ASSUME MailInv, NEW p, Answer(p) \/ AnswerFails(p) PROVE MailInv'
<1> DEFINE cur == Current(p)
<1>1. Poll(p, "answer")
  BY DEF Answer, AnswerFails
<1>2. /\ p \in 1..Len(polls) /\ Runs(p) /\ polls[p] \in Polls /\ polls[p].pc = "answer"
      /\ AtIt(polls[p]) /\ Sound(polls[p], handled) /\ polls \in Seq(Polls)
      /\ cur = polls[p].names[1] /\ cur \in Requests
      /\ UNCHANGED <<client, handled>> /\ box \in Boxes
  BY <1>1, AtWorkOn DEF Answer, AnswerFails, MailInv, MailTypes
<1>3. /\ Throws(p) \/ Moves(p, "rename")
      /\ \/ box' = [box EXCEPT !.requests = @ \ {cur}, !.temporary = @ \cup {cur}]
         \/ box' = [box EXCEPT !.requests = @ \ {cur}]
  BY DEF Answer, AnswerFails
<1> HIDE DEF cur
<1>4. /\ box' \in Boxes /\ box'.requests = box.requests \ {cur} /\ box'.responses = box.responses
  <2>1. box.requests \ {cur} \in SUBSET Requests /\ box.temporary \cup {cur} \in SUBSET Requests
    BY <1>2 DEF Boxes
  <2>2. box' \in Boxes
    BY <1>2, <1>3, <2>1, Zenon DEF Boxes
  <2> QED BY <1>2, <1>3, <2>2 DEF Boxes
<1>5. \A r \in box'.requests : ~Takes(polls[p], r)
  BY <1>2, <1>4 DEF Takes
<1>6. box'.requests \subseteq box.requests
  BY <1>4
<1>7. CASE Throws(p)
  BY <1>2, <1>4, <1>5, <1>6, <1>7, ThrowKeeps
<1>8. CASE Moves(p, "rename")
  <2> DEFINE x == [polls[p] EXCEPT !.pc = "rename"]
  <2>1. polls' = [polls EXCEPT ![p] = x]
    BY <1>2, <1>8 DEF Moves
  <2>2. x \in Polls /\ x.names = polls[p].names /\ x.pc = "rename" /\ x.reply = polls[p].reply
    BY <1>2 DEF Polls
  <2> HIDE DEF x
  <2>3. Sound(x, handled)
    BY <1>2, <2>2 DEF Sound, AtIt
  <2> QED BY <1>2, <1>4, <1>5, <1>6, <2>1, <2>2, <2>3, PollKeeps
<1> QED BY <1>3, <1>7, <1>8

LEMMA NamesBehind ==
  ASSUME NEW s \in Seq(Requests), s # <<>>
  PROVE  /\ Tail(s) \in Seq(Requests) /\ Len(Tail(s)) = Len(s) - 1
         /\ \A i \in 1..Len(Tail(s)) : Tail(s)[i] = s[i + 1]
         /\ Len(s) # 1 => Len(Tail(s)) > 0
<1>1. Len(s) \in Nat /\ Len(s) > 0 /\ Tail(s) \in Seq(Requests) /\ Len(Tail(s)) = Len(s) - 1
      /\ \A i \in 1..Len(Tail(s)) : Tail(s)[i] = s[i + 1]
  OBVIOUS
<1> QED BY <1>1

LEMMA RenameKeeps == ASSUME MailInv, NEW p, RenameResponse(p) PROVE MailInv'
<1> DEFINE cur == Current(p)
<1>1. Poll(p, "rename")
  BY DEF RenameResponse
<1>2. /\ p \in 1..Len(polls) /\ Runs(p) /\ polls[p] \in Polls /\ polls[p].pc = "rename"
      /\ AtIt(polls[p]) /\ Sound(polls[p], handled) /\ polls \in Seq(Polls)
      /\ polls[p].names # <<>> /\ Distinct(polls[p].names) /\ polls[p].names \in Seq(Requests)
      /\ Len(polls[p].names) \in Nat \ {0} /\ cur = polls[p].names[1] /\ cur \in Requests
      /\ UNCHANGED <<client, handled>> /\ box \in Boxes
  BY <1>1, AtWorkOn DEF RenameResponse, MailInv, MailTypes
<1>3. /\ NextName(p)
      /\ box' = [box EXCEPT !.temporary = @ \ {cur}, !.responses[cur] = polls[p].reply]
  BY DEF RenameResponse
<1> HIDE DEF cur
<1> DEFINE names == Tail(polls[p].names)
           pc == IF Len(polls[p].names) = 1 THEN "done" ELSE "look"
           x == [pc |-> pc, names |-> names, reply |-> "none"]
<1>4. polls' = [polls EXCEPT ![p] = x]
  BY <1>2, <1>3 DEF NextName
<1>5. /\ names \in Seq(Requests) /\ Len(names) = Len(polls[p].names) - 1
      /\ \A i \in 1..Len(names) : names[i] = polls[p].names[i + 1]
      /\ pc \in {"done", "look"} /\ (pc = "look" => Len(names) > 0)
  <2>1. polls[p].names \in Seq(Requests) /\ polls[p].names # <<>>
    BY <1>2
  <2> QED BY <2>1, NamesBehind
<1> HIDE DEF pc, names
<1>6. x \in Polls
  BY <1>5 DEF Polls, Answers
<1>7. Sound(x, handled)
  <2>1. \A i \in 1..Len(names) : handled[names[i]] = Unseen
    BY <1>2, <1>5 DEF Sound
  <2>2. Distinct(names)
    BY <1>2, <1>5 DEF Distinct
  <2>3. pc = "look" => names # <<>>
    BY <1>5
  <2> QED BY <1>5, <2>1, <2>2, <2>3 DEF Sound, AtIt
<1>8. /\ box' \in Boxes /\ box'.requests = box.requests
      /\ \A r \in Requests : box'.responses[r] = "ok" =>
            box.responses[r] = "ok" \/ handled[r] = <<"ok">>
  <2> DEFINE new == [box.responses EXCEPT ![cur] = polls[p].reply]
             rest == box.temporary \ {cur}
  <2>1. new \in [Requests -> Answers] /\ rest \in SUBSET Requests
    BY <1>2 DEF Boxes, Polls
  <2>2. \A r \in Requests : new[r] = "ok" => box.responses[r] = "ok" \/ handled[r] = <<"ok">>
    BY <1>2 DEF Sound, Boxes
  <2>3. box' = [box EXCEPT !.temporary = rest, !.responses = new]
    BY <1>2, <1>3 DEF Boxes
  <2> HIDE DEF new, rest
  <2>4. box' \in Boxes
    BY <1>2, <2>1, <2>3, Zenon DEF Boxes
  <2>5. box'.requests = box.requests /\ box'.responses = new
    BY <1>2, <2>3 DEF Boxes
  <2> QED BY <2>2, <2>4, <2>5
<1>9. \A r \in box'.requests : Takes(polls[p], r) => Takes(x, r)
  BY <1>2, NobodyTakes
<1> HIDE DEF x
<1> QED BY <1>2, <1>4, <1>6, <1>7, <1>8, <1>9, PollKeeps

LEMMA TimerKeeps ==
  ASSUME MailInv, Tick \/ StopTimer \/ RemoveRoot PROVE MailInv'
<1>1. CASE Tick
  <2>1. /\ polls \in Seq(Polls) /\ Len(polls) \in Nat /\ polls' = Append(polls, NewPoll)
        /\ UNCHANGED <<client, box, handled>>
    BY <1>1 DEF Tick, MailInv, MailTypes
  <2>2. NewPoll \in Polls /\ NewPoll.pc = "queued"
    BY DEF NewPoll, Polls, Answers
  <2>3. /\ polls' \in Seq(Polls) /\ Len(polls') = Len(polls) + 1
        /\ polls'[Len(polls) + 1] = NewPoll
        /\ \A p \in 1..Len(polls) : polls'[p] = polls[p]
    BY <2>1, <2>2
  <2>4. InTurn'
    BY <2>1, <2>2, <2>3 DEF MailInv, InTurn
  <2>5. AllSound'
    <3> SUFFICES ASSUME NEW p \in 1..(Len(polls) + 1) PROVE Sound(polls'[p], handled)
      BY <2>1, <2>3 DEF AllSound
    <3>1. CASE p \in 1..Len(polls)
      BY <2>3, <3>1 DEF MailInv, AllSound
    <3>2. CASE p = Len(polls) + 1
      BY <2>2, <2>3, <3>2 DEF Sound, AtIt
    <3> QED BY <2>1, <3>1, <3>2
  <2>6. Asked'
    BY <2>1, <2>3 DEF MailInv, Asked
  <2> QED BY <2>1, <2>3, <2>4, <2>5, <2>6 DEF MailInv, MailTypes, Honest
<1>2. CASE StopTimer
  <2>1. /\ box' \in Boxes /\ box'.requests = box.requests /\ box'.responses = box.responses
        /\ UNCHANGED <<client, polls, handled>>
    BY <1>2 DEF StopTimer, MailInv, MailTypes, Boxes
  <2> QED BY <2>1 DEF MailInv, MailTypes, InTurn, AllSound, Asked, Honest
<1>3. CASE RemoveRoot
  <2>1. /\ box' \in Boxes /\ box'.requests = {} /\ \A r \in Requests : box'.responses[r] = "none"
        /\ UNCHANGED <<client, polls, handled>>
    BY <1>3 DEF RemoveRoot, Boxes, Answers
  <2>2. IsFiniteSet(box'.requests)
    BY <2>1, FS_EmptySet
  <2> QED BY <2>1, <2>2 DEF MailInv, MailTypes, InTurn, AllSound, Asked, Honest
<1> QED BY <1>1, <1>2, <1>3

LEMMA MailSteps == ASSUME MailInv, MailNext PROVE MailInv'
BY WriteKeeps, CallEnds, BrokerKeeps, TimerKeeps, ListKeeps, LookKeeps, ReadRequestKeeps,
   PostedKeeps, AnswerKeeps, RenameKeeps
DEF MailNext

\* For every number of calls and polls, through both timeouts: the broker sees a request
\* once at most, and a call that ends well is one the broker did (postJson of
\* browser-iab-helper.ts and consume of capture-mailbox.ts).
THEOREM MailboxAnswerIsTrue == MailSpec => []AnswerIsTrue
<1>1. MailInv => AnswerIsTrue
  <2> SUFFICES ASSUME MailInv, NEW r \in Requests
               PROVE  Len(handled[r]) <= 1 /\ (client[r] = "ok" => handled[r] = <<"ok">>)
    BY DEF AnswerIsTrue
  <2>1. handled[r] \in Outcomes
    BY DEF MailInv, MailTypes
  <2>2. Len(handled[r]) <= 1
    <3>1. Len(<<>>) = 0 /\ Len(<<"started">>) = 1 /\ Len(<<"ok">>) = 1 /\ Len(<<"refused">>) = 1
      OBVIOUS
    <3>2. CASE handled[r] = <<>>
      BY <3>1, <3>2
    <3>3. CASE handled[r] # <<>>
      <4>1. Len(handled[r]) = 1
        BY <2>1, <3>1, <3>3, Zenon DEF Outcomes, Unseen
      <4> QED BY <4>1
    <3> QED BY <3>2, <3>3
  <2> QED BY <2>2 DEF MailInv, Honest
<1>2. MailInv /\ UNCHANGED mailVars => MailInv'
  BY DEF MailInv, MailTypes, InTurn, AllSound, Asked, Honest, mailVars
<1> QED
  BY <1>1, <1>2, MailStarts, MailSteps, PTL DEF MailSpec

-----------------------------------------------------------------------------
(* 4. The observers of the browser helper. *)

Installing == {"clean", "world", "evaluate", "discard"}
Solitary == Installing \cup {"flush", "settle", "tree"}
Cleaning == {"clean", "discard", "settle"}
Msg == [kind : Solitary \cup {"navigated", "event", "ready"}, n : Nat,
        how : {"ok", "owed", "fault", "stale"}]
Asks == [kind : Solitary, n : Nat \cup SUBSET Nat]
Install == [doc : Nat, epoch : Nat \ {0},
            pc : {"first", "queued", "challenge"} \cup Installing]
Pages == [shown : Nat, worlds : SUBSET (Nat \ {0}), observing : SUBSET (Nat \ {0})]
Scopes == [epoch : Nat, doc : Nat, evaluated : BOOLEAN, handshake : BOOLEAN, ready : BOOLEAN,
           target : Nat, context : Nat, retired : SUBSET (Nat \ {0})]
Helpers == [active : BOOLEAN, failed : BOOLEAN, armed : BOOLEAN,
            start : {"waiting", "running", "failed"},
            stop : {"no", "flush", "tail", "clean", "done"}]
Tallies == [caused : Nat, owed : Nat, posted : Nat, kept : Nat, faults : Nat]

ObserverTypes ==
  /\ page \in Pages /\ wire \in Seq(Msg) /\ sent \in SUBSET Asks /\ scope \in Scopes
  /\ tasks \in Seq(Install) /\ helper \in Helpers /\ tally \in Tallies

\* The commands under way, of which there is one of a kind, and who waits for an answer.
Due(s, w) == {c.kind : c \in s} \cup {w[i].kind : i \in DOMAIN w}
Lone(s, w) ==
  /\ \A c, d \in s : c.kind = d.kind /\ c.kind \in Solitary => c = d
  /\ \A c \in s : \A i \in DOMAIN w : c.kind \in Solitary => w[i].kind # c.kind
  /\ \A i, j \in DOMAIN w : w[i].kind = w[j].kind /\ w[i].kind \in Solitary => i = j

Awaited(kind) ==
  /\ kind \in Installing => TaskAt(kind)
  /\ kind = "flush" => helper.stop = "flush"
  /\ kind = "settle" => helper.stop = "clean"
  /\ kind = "tree" => ~helper.armed

OneAnswer ==
  /\ Lone(sent, wire)
  /\ \A kind \in Due(sent, wire) : Awaited(kind)
  /\ \A c \in sent : c.kind \in {"world", "evaluate"} => c.n = Epoch
  /\ \A c \in sent : c.kind = "flush" => c.n \in Nat

\* Installations are for ever later scopes, and none is of the scope that is committed.
TasksInOrder ==
  /\ \A i \in DOMAIN tasks : tasks[i].epoch <= scope.epoch
  /\ \A i \in DOMAIN tasks : tasks[i].epoch = scope.epoch => ~scope.evaluated /\ helper.stop = "no"
  /\ tasks # <<>> => helper.armed
  /\ \A i, j \in DOMAIN tasks : i < j => tasks[i].epoch < tasks[j].epoch

ScopeSound ==
  /\ scope.evaluated => /\ scope.context = scope.epoch /\ scope.epoch > 0 /\ helper.armed
                        /\ helper.failed \/ helper.stop \in {"no", "flush"}
  /\ ~scope.evaluated => scope.context = 0
  /\ scope.ready => scope.evaluated /\ helper.start # "waiting"
  /\ helper.start = "running" => helper.armed
  /\ helper.stop # "no" => helper.start = "running"
  /\ ~helper.active => helper.failed \/ helper.start = "failed" \/ helper.stop = "done"
  /\ helper.stop = "flush" => helper.failed \/ scope.evaluated
  /\ helper.stop \in {"clean", "done"} /\ ~helper.failed => tasks = <<>> /\ scope.retired = {}

\* Where an observer that is not the committed one is known.
Cleaned(e, s) == \E c \in s : c.kind \in Cleaning /\ e \in c.n
CleanFails(w) == \E i \in DOMAIN w : w[i].kind \in Cleaning /\ w[i].how = "fault"
Known(e) ==
  \/ e = scope.context \/ e \in scope.retired \/ helper.failed
  \/ TaskAt("evaluate") /\ Epoch = e
  \/ Cleaned(e, sent) \/ CleanFails(wire)
Covered == \A e \in page.observing : Known(e)

ObserverInv == ObserverTypes /\ OneAnswer /\ TasksInOrder /\ ScopeSound /\ Covered

-----------------------------------------------------------------------------
(* Messages that come, and are taken from the wire. *)

LEMMA Removed ==
  ASSUME NEW S, NEW w \in Seq(S), NEW i \in DOMAIN w
  PROVE  /\ RemoveAt(w, i) \in Seq(S)
         /\ DOMAIN RemoveAt(w, i) = 1..(Len(w) - 1)
         /\ \A j \in 1..(Len(w) - 1) : /\ (IF j < i THEN j ELSE j + 1) \in DOMAIN w \ {i}
                                       /\ RemoveAt(w, i)[j] = w[IF j < i THEN j ELSE j + 1]
<1>1. Len(w) \in Nat /\ DOMAIN w = 1..Len(w) /\ i \in 1..Len(w)
  OBVIOUS
<1>2. /\ SubSeq(w, 1, i - 1) \in Seq(S) /\ Len(SubSeq(w, 1, i - 1)) = i - 1
      /\ \A j \in 1..(i - 1) : SubSeq(w, 1, i - 1)[j] = w[j]
  BY <1>1
<1>3. /\ SubSeq(w, i + 1, Len(w)) \in Seq(S) /\ Len(SubSeq(w, i + 1, Len(w))) = Len(w) - i
      /\ \A j \in 1..(Len(w) - i) : SubSeq(w, i + 1, Len(w))[j] = w[j + i]
  <2>1. CASE i < Len(w)
    BY <1>1, <2>1
  <2>2. CASE i = Len(w)
    BY <1>1, <2>2
  <2> QED BY <1>1, <2>1, <2>2
<1> DEFINE a == SubSeq(w, 1, i - 1)
           b == SubSeq(w, i + 1, Len(w))
<1>4. RemoveAt(w, i) = a \o b
  BY DEF RemoveAt
<1>5. /\ a \in Seq(S) /\ b \in Seq(S) /\ Len(a) = i - 1 /\ Len(b) = Len(w) - i
      /\ \A j \in 1..(i - 1) : a[j] = w[j]
      /\ \A j \in 1..(Len(w) - i) : b[j] = w[j + i]
  BY <1>2, <1>3
<1> HIDE DEF a, b
<1>6. a \o b \in Seq(S) /\ Len(a \o b) = Len(w) - 1 /\ DOMAIN (a \o b) = 1..(Len(w) - 1)
  <2>1. a \o b \in Seq(S) /\ Len(a \o b) = Len(a) + Len(b)
    BY <1>5, ConcatProperties, Zenon
  <2>2. Len(a \o b) = Len(w) - 1
    BY <1>1, <1>5, <2>1
  <2> QED BY <2>1, <2>2
<1>7. ASSUME NEW j \in 1..(Len(w) - 1) PROVE (a \o b)[j] = w[IF j < i THEN j ELSE j + 1]
  <2>1. CASE j < i
    BY <1>1, <1>5, <2>1
  <2>2. CASE ~(j < i)
    <3>1. (a \o b)[j] = b[j - (i - 1)] /\ j - (i - 1) \in 1..(Len(w) - i)
      BY <1>1, <1>5, <2>2
    <3>2. b[j - (i - 1)] = w[j - (i - 1) + i]
      BY <1>5, <3>1
    <3> QED BY <1>1, <2>2, <3>1, <3>2
  <2> QED BY <2>1, <2>2
<1>8. \A j \in 1..(Len(w) - 1) : (IF j < i THEN j ELSE j + 1) \in DOMAIN w \ {i}
  BY <1>1
<1> QED BY <1>4, <1>6, <1>7, <1>8

\* A message is taken: what is left is under way as before, but for its kind.
LEMMA TakenLeaves ==
  ASSUME NEW s, NEW w \in Seq(Msg), Lone(s, w), NEW i \in DOMAIN w
  PROVE  /\ RemoveAt(w, i) \in Seq(Msg) /\ Lone(s, RemoveAt(w, i))
         /\ Due(s, RemoveAt(w, i)) \subseteq Due(s, w)
         /\ w[i].kind \in Due(s, w)
         /\ w[i].kind \in Solitary => w[i].kind \notin Due(s, RemoveAt(w, i))
         /\ CleanFails(w) => CleanFails(RemoveAt(w, i)) \/ (w[i].kind \in Cleaning /\ w[i].how = "fault")
<1> DEFINE v == RemoveAt(w, i)
           P(j) == IF j < i THEN j ELSE j + 1
<1>1. /\ v \in Seq(Msg) /\ DOMAIN v = 1..(Len(w) - 1) /\ Len(w) \in Nat /\ DOMAIN w = 1..Len(w)
      /\ \A j \in 1..(Len(w) - 1) : P(j) \in DOMAIN w \ {i} /\ v[j] = w[P(j)]
  BY Removed
<1>2. \A j, k \in 1..(Len(w) - 1) : P(j) = P(k) => j = k
  BY <1>1
<1>3. \A k \in DOMAIN w \ {i} : \E j \in DOMAIN v : k = P(j)
  <2> SUFFICES ASSUME NEW k \in DOMAIN w \ {i} PROVE \E j \in DOMAIN v : k = P(j)
    OBVIOUS
  <2>1. CASE k < i
    <3>1. k \in DOMAIN v /\ k = P(k)
      BY <1>1, <2>1
    <3> QED BY <3>1
  <2>2. CASE ~(k < i)
    <3>1. k - 1 \in DOMAIN v /\ k = P(k - 1)
      BY <1>1, <2>2
    <3> QED BY <3>1
  <2> QED BY <2>1, <2>2
<1> HIDE DEF v, P
<1>4. Lone(s, v)
  <2>1. \A j \in DOMAIN v : P(j) \in DOMAIN w /\ v[j] = w[P(j)]
    BY <1>1
  <2>2. \A j, k \in DOMAIN v : v[j].kind = v[k].kind /\ v[j].kind \in Solitary => P(j) = P(k)
    BY <2>1 DEF Lone
  <2>3. \A j, k \in DOMAIN v : v[j].kind = v[k].kind /\ v[j].kind \in Solitary => j = k
    BY <1>1, <1>2, <2>2
  <2> QED BY <2>1, <2>3, Zenon DEF Lone
<1>5. Due(s, v) \subseteq Due(s, w) /\ w[i].kind \in Due(s, w)
  BY <1>1 DEF Due
<1>6. ASSUME w[i].kind \in Solitary PROVE w[i].kind \notin Due(s, v)
  <2>1. \A c \in s : c.kind # w[i].kind
    BY <1>6 DEF Lone
  <2>2. \A j \in DOMAIN v : v[j].kind # w[i].kind
    BY <1>1, <1>6 DEF Lone
  <2> QED BY <2>1, <2>2 DEF Due
<1>7. ASSUME CleanFails(w), ~(w[i].kind \in Cleaning /\ w[i].how = "fault") PROVE CleanFails(v)
  <2>1. PICK k \in DOMAIN w : w[k].kind \in Cleaning /\ w[k].how = "fault"
    BY <1>7 DEF CleanFails
  <2>2. PICK j \in DOMAIN v : k = P(j)
    BY <1>3, <1>7, <2>1
  <2>3. v[j].kind \in Cleaning /\ v[j].how = "fault"
    BY <1>1, <2>1, <2>2
  <2> QED BY <2>3 DEF CleanFails
<1> QED BY <1>1, <1>4, <1>5, <1>6, <1>7 DEF v

\* A message that is not the second of its kind is put on the wire.
LEMMA SentOn ==
  ASSUME NEW s, NEW w \in Seq(Msg), Lone(s, w), NEW m \in Msg,
         m.kind \in Solitary => m.kind \notin Due(s, w)
  PROVE  /\ Append(w, m) \in Seq(Msg) /\ Lone(s, Append(w, m))
         /\ Due(s, Append(w, m)) = Due(s, w) \cup {m.kind}
         /\ CleanFails(w) => CleanFails(Append(w, m))
         /\ m.kind \in Cleaning /\ m.how = "fault" => CleanFails(Append(w, m))
<1> DEFINE v == Append(w, m)
<1>1. /\ v \in Seq(Msg) /\ Len(w) \in Nat /\ DOMAIN w = 1..Len(w) /\ DOMAIN v = 1..(Len(w) + 1)
      /\ \A j \in DOMAIN w : v[j] = w[j]
      /\ v[Len(w) + 1] = m
  OBVIOUS
<1>2. \A j \in DOMAIN v : (j \in DOMAIN w /\ v[j] = w[j]) \/ (j = Len(w) + 1 /\ v[j] = m)
  BY <1>1
<1>3. DOMAIN w \subseteq DOMAIN v /\ Len(w) + 1 \in DOMAIN v
  BY <1>1
<1> HIDE DEF v
<1>4. /\ m.kind \in Solitary => \A c \in s : c.kind # m.kind
      /\ m.kind \in Solitary => \A j \in DOMAIN w : w[j].kind # m.kind
  BY DEF Due
<1>5. Lone(s, v)
  <2>1. \A c, d \in s : c.kind = d.kind /\ c.kind \in Solitary => c = d
    BY DEF Lone
  <2>2. \A c \in s : \A j \in DOMAIN v : c.kind \in Solitary => v[j].kind # c.kind
    BY <1>2, <1>4 DEF Lone
  <2>3. \A j, k \in DOMAIN v : v[j].kind = v[k].kind /\ v[j].kind \in Solitary => j = k
    BY <1>2, <1>4 DEF Lone
  <2> QED BY <2>1, <2>2, <2>3 DEF Lone
<1>6. Due(s, v) = Due(s, w) \cup {m.kind}
  <2>1. Due(s, v) \subseteq Due(s, w) \cup {m.kind}
    BY <1>2 DEF Due
  <2>2. Due(s, w) \subseteq Due(s, v) /\ m.kind \in Due(s, v)
    BY <1>1, <1>3 DEF Due
  <2> QED BY <2>1, <2>2
<1>7. /\ CleanFails(w) => CleanFails(v)
      /\ m.kind \in Cleaning /\ m.how = "fault" => CleanFails(v)
  BY <1>1, <1>3 DEF CleanFails
<1> QED BY <1>1, <1>5, <1>6, <1>7 DEF v

\* A command leaves for its answer, or is sent.
LEMMA Run ==
  ASSUME NEW s, NEW w, Lone(s, w), NEW c \in s
  PROVE  /\ Lone(s \ {c}, w) /\ Due(s \ {c}, w) \subseteq Due(s, w) /\ c.kind \in Due(s, w)
         /\ c.kind \in Solitary => c.kind \notin Due(s \ {c}, w)
<1>1. Lone(s \ {c}, w)
  BY DEF Lone
<1>2. Due(s \ {c}, w) \subseteq Due(s, w) /\ c.kind \in Due(s, w)
  BY DEF Due
<1>3. ASSUME c.kind \in Solitary PROVE c.kind \notin Due(s \ {c}, w)
  BY <1>3 DEF Due, Lone
<1> QED BY <1>1, <1>2, <1>3

LEMMA SentOut ==
  ASSUME NEW s, NEW w, Lone(s, w), NEW c, c.kind \in Solitary => c.kind \notin Due(s, w)
  PROVE  /\ Lone(s \cup {c}, w) /\ Due(s \cup {c}, w) = Due(s, w) \cup {c.kind}
<1>1. /\ c.kind \in Solitary => \A d \in s : d.kind # c.kind
      /\ c.kind \in Solitary => \A j \in DOMAIN w : w[j].kind # c.kind
  BY DEF Due
<1>2. Lone(s \cup {c}, w)
  BY <1>1 DEF Lone
<1>3. Due(s \cup {c}, w) = Due(s, w) \cup {c.kind}
  BY DEF Due
<1> QED BY <1>2, <1>3

-----------------------------------------------------------------------------
(* The installations, and the scope that is replaced. *)

LEMMA TasksGo ==
  ASSUME ObserverTypes, tasks # <<>>,
         NEW pc \in {"first", "queued", "challenge"} \cup Installing, Goes(pc)
  PROVE  /\ tasks' \in Seq(Install) /\ tasks' # <<>> /\ DOMAIN tasks' = DOMAIN tasks
         /\ Head(tasks').pc = pc /\ Head(tasks').epoch = Epoch
         /\ \A i \in DOMAIN tasks : tasks'[i].epoch = tasks[i].epoch
<1>1. /\ tasks \in Seq(Install) /\ 1 \in DOMAIN tasks /\ Head(tasks) = tasks[1]
      /\ tasks[1] \in Install
  BY DEF ObserverTypes
<1>2. tasks' = [tasks EXCEPT ![1] = [tasks[1] EXCEPT !.pc = pc]]
  BY DEF Goes
<1>3. /\ [tasks[1] EXCEPT !.pc = pc] \in Install
      /\ [tasks[1] EXCEPT !.pc = pc].pc = pc
      /\ [tasks[1] EXCEPT !.pc = pc].epoch = tasks[1].epoch
  BY <1>1 DEF Install
<1> DEFINE first == [tasks[1] EXCEPT !.pc = pc]
<1>4. first \in Install /\ first.pc = pc /\ first.epoch = tasks[1].epoch
      /\ tasks' = [tasks EXCEPT ![1] = first]
  BY <1>2, <1>3
<1> HIDE DEF first
<1>5. /\ tasks' \in Seq(Install) /\ tasks' # <<>> /\ DOMAIN tasks' = DOMAIN tasks
      /\ Head(tasks') = first
  BY <1>1, <1>4
<1>6. \A i \in DOMAIN tasks : tasks'[i].epoch = tasks[i].epoch
  BY <1>1, <1>4
<1> QED BY <1>1, <1>4, <1>5, <1>6 DEF Epoch

LEMMA TasksEnd ==
  ASSUME ObserverTypes, tasks # <<>>, Ends
  PROVE  /\ tasks' \in Seq(Install)
         /\ \A i \in DOMAIN tasks' : i + 1 \in DOMAIN tasks /\ tasks'[i] = tasks[i + 1]
BY DEF ObserverTypes, Ends

\* Each installation that is left has the place, and the epoch, of an earlier one.
Shifted ==
  \/ DOMAIN tasks' = DOMAIN tasks /\ \A i \in DOMAIN tasks : tasks'[i].epoch = tasks[i].epoch
  \/ \A i \in DOMAIN tasks' : i + 1 \in DOMAIN tasks /\ tasks'[i] = tasks[i + 1]

LEMMA StillInOrder ==
  ASSUME ObserverTypes, TasksInOrder, tasks' \in Seq(Install), Shifted,
         scope' \in Scopes, helper' \in Helpers, helper'.armed = helper.armed,
         \/ scope'.epoch = scope.epoch + 1
         \/ /\ scope'.epoch = scope.epoch /\ scope'.evaluated = scope.evaluated
            /\ helper'.stop = helper.stop
  PROVE  TasksInOrder'
<1>1. /\ tasks \in Seq(Install) /\ scope \in Scopes /\ helper \in Helpers
      /\ Len(tasks) \in Nat /\ DOMAIN tasks = 1..Len(tasks)
      /\ Len(tasks') \in Nat /\ DOMAIN tasks' = 1..Len(tasks')
      /\ \A i \in DOMAIN tasks : tasks[i].epoch \in Nat
      /\ scope.epoch \in Nat /\ scope'.epoch \in Nat
  <2>1. tasks \in Seq(Install) /\ scope \in Scopes /\ helper \in Helpers
    BY DEF ObserverTypes
  <2>2. /\ Len(tasks) \in Nat /\ DOMAIN tasks = 1..Len(tasks)
        /\ Len(tasks') \in Nat /\ DOMAIN tasks' = 1..Len(tasks')
        /\ \A i \in DOMAIN tasks : tasks[i] \in Install
    BY <2>1
  <2>3. \A i \in DOMAIN tasks : tasks[i].epoch \in Nat
    BY <2>2 DEF Install
  <2>4. scope.epoch \in Nat /\ scope'.epoch \in Nat
    BY <2>1 DEF Scopes
  <2> QED BY <2>1, <2>2, <2>3, <2>4
<1>2. \A i \in DOMAIN tasks' : /\ tasks'[i].epoch <= scope.epoch
                               /\ tasks'[i].epoch = scope.epoch => ~scope.evaluated /\ helper.stop = "no"
                               /\ tasks'[i].epoch \in Nat
  BY <1>1 DEF Shifted, TasksInOrder
<1>3. tasks' # <<>> => tasks # <<>>
  <2> SUFFICES ASSUME tasks' # <<>> PROVE tasks # <<>>
    OBVIOUS
  <2>1. 1 \in DOMAIN tasks'
    BY <1>1
  <2>2. DOMAIN tasks # {}
    BY <2>1 DEF Shifted
  <2> QED BY <1>1, <2>2
<1>4. \A i, j \in DOMAIN tasks' : i < j => tasks'[i].epoch < tasks'[j].epoch
  <2>1. CASE DOMAIN tasks' = DOMAIN tasks /\ \A i \in DOMAIN tasks : tasks'[i].epoch = tasks[i].epoch
    BY <2>1 DEF TasksInOrder
  <2>2. CASE \A i \in DOMAIN tasks' : i + 1 \in DOMAIN tasks /\ tasks'[i] = tasks[i + 1]
    <3> SUFFICES ASSUME NEW i \in DOMAIN tasks', NEW j \in DOMAIN tasks', i < j
                 PROVE  tasks'[i].epoch < tasks'[j].epoch
      OBVIOUS
    <3>1. /\ i + 1 \in DOMAIN tasks /\ tasks'[i] = tasks[i + 1]
          /\ j + 1 \in DOMAIN tasks /\ tasks'[j] = tasks[j + 1] /\ i + 1 < j + 1
      BY <1>1, <2>2
    <3> QED BY <3>1 DEF TasksInOrder
  <2> QED BY <2>1, <2>2 DEF Shifted
<1>5. \A i \in DOMAIN tasks' : tasks'[i].epoch <= scope'.epoch
  BY <1>1, <1>2
<1>6. \A i \in DOMAIN tasks' : tasks'[i].epoch = scope'.epoch => ~scope'.evaluated /\ helper'.stop = "no"
  BY <1>1, <1>2
<1> QED BY <1>3, <1>4, <1>5, <1>6 DEF TasksInOrder

\* What replacing the scope does to it.
LEMMA ReplacedScope ==
  ASSUME ObserverTypes, NEW doc \in Nat, scope' = Replaced(scope, doc)
  PROVE  /\ scope' \in Scopes /\ scope'.epoch = scope.epoch + 1 /\ scope'.epoch > 0
         /\ ~scope'.evaluated /\ ~scope'.ready /\ scope'.context = 0 /\ ~scope'.handshake
         /\ scope.retired \subseteq scope'.retired
         /\ scope.context # 0 => scope.context \in scope'.retired
         /\ scope.context = 0 => scope'.retired = scope.retired
<1>1. /\ scope.epoch \in Nat /\ scope.context \in Nat /\ scope.retired \in SUBSET (Nat \ {0})
  BY DEF ObserverTypes, Scopes
<1> DEFINE kept == scope.retired \cup ({scope.context} \ {0})
<1>2. kept \in SUBSET (Nat \ {0}) /\ scope.epoch + 1 \in Nat /\ scope.epoch + 1 > 0
  BY <1>1
<1>3. /\ scope.retired \subseteq kept /\ (scope.context # 0 => scope.context \in kept)
      /\ scope.context = 0 => kept = scope.retired
  OBVIOUS
<1>4. scope' = [epoch |-> scope.epoch + 1, doc |-> doc, evaluated |-> FALSE, handshake |-> FALSE,
                ready |-> FALSE, target |-> doc, context |-> 0, retired |-> kept]
  BY DEF Replaced
<1> HIDE DEF kept
<1>5. scope' \in Scopes
  BY <1>2, <1>4 DEF Scopes
<1> QED BY <1>2, <1>3, <1>4, <1>5

\* A failure keeps everything it need keep.
LEMMA FailureKeeps ==
  ASSUME ObserverTypes, TasksInOrder, ScopeSound, FailObserved, tasks' \in Seq(Install), Shifted
  PROVE  /\ scope' \in Scopes /\ helper' \in Helpers /\ helper'.failed
         /\ helper'.stop = helper.stop /\ helper'.armed = helper.armed
         /\ TasksInOrder' /\ ScopeSound' /\ Covered'
<1>1. /\ scope' \in Scopes /\ scope'.epoch = scope.epoch + 1
      /\ ~scope'.evaluated /\ ~scope'.ready /\ scope'.context = 0
  BY ReplacedScope DEF FailObserved, NoDocument
<1>2. /\ helper' \in Helpers /\ helper'.failed /\ ~helper'.active
      /\ helper'.stop = helper.stop /\ helper'.armed = helper.armed
      /\ helper'.start = IF helper.start = "waiting" THEN "failed" ELSE helper.start
  BY DEF FailObserved, ObserverTypes, Helpers
<1>3. TasksInOrder'
  BY <1>1, <1>2, StillInOrder
<1>4. ScopeSound'
  BY <1>1, <1>2 DEF ScopeSound
<1>5. Covered'
  BY <1>2 DEF Covered, Known
<1> QED BY <1>1, <1>2, <1>3, <1>4, <1>5

\* An installation that waits for no answer, or has had it, leaves none due.
LEMMA OnlyAnswer ==
  ASSUME ObserverInv, NEW kind \in Due(sent, wire) \cap Installing
  PROVE  tasks # <<>> /\ kind = Head(tasks).pc
BY DEF ObserverInv, OneAnswer, Awaited, TaskAt

-----------------------------------------------------------------------------
(* The browser. *)

LEMMA ObserverStarts == ObserverInit => ObserverInv
<1> SUFFICES ASSUME ObserverInit PROVE ObserverInv
  OBVIOUS
<1>1. ObserverTypes
  BY DEF ObserverInit, ObserverTypes, Pages, Scopes, Helpers, Tallies, NoScope, NoDocument
<1>2. OneAnswer
  BY DEF ObserverInit, OneAnswer, Lone, Due
<1>3. TasksInOrder
  BY DEF ObserverInit, TasksInOrder
<1>4. ScopeSound
  BY DEF ObserverInit, ScopeSound, NoScope
<1>5. Covered
  BY DEF ObserverInit, Covered
<1> QED BY <1>1, <1>2, <1>3, <1>4, <1>5 DEF ObserverInv

\* What every step of the browser leaves alone: the helper has not seen it.
LEMMA HelperUnaware ==
  ASSUME ObserverInv, UNCHANGED <<scope, tasks, helper>>,
         page' \in Pages, tally' \in Tallies, wire' \in Seq(Msg), sent' \subseteq sent,
         Lone(sent', wire'),
         Due(sent', wire') \subseteq Due(sent, wire) \cup {"navigated", "event", "ready"},
         \A e \in page'.observing :
           \/ e \in page.observing /\ (Cleaned(e, sent) => Cleaned(e, sent') \/ CleanFails(wire'))
           \/ TaskAt("evaluate") /\ Epoch = e,
         CleanFails(wire) => CleanFails(wire')
  PROVE  ObserverInv'
<1>1. ObserverTypes'
  BY DEF ObserverInv, ObserverTypes
<1>2. OneAnswer'
  <2>1. \A kind \in Due(sent', wire') : Awaited(kind)'
    <3> SUFFICES ASSUME NEW kind \in Due(sent', wire') PROVE Awaited(kind)'
      OBVIOUS
    <3>1. kind \in Due(sent, wire) => Awaited(kind)
      BY DEF ObserverInv, OneAnswer
    <3>2. kind \notin Due(sent, wire) => Awaited(kind)
      BY DEF Awaited, Solitary, Installing
    <3>3. Awaited(kind)
      BY <3>1, <3>2
    <3> QED BY <3>3 DEF Awaited, TaskAt
  <2> QED BY <2>1 DEF ObserverInv, OneAnswer, Epoch
<1>3. TasksInOrder' /\ ScopeSound'
  BY DEF ObserverInv, TasksInOrder, ScopeSound
<1>4. Covered'
  BY DEF ObserverInv, Covered, Known, TaskAt, Epoch
<1> QED BY <1>1, <1>2, <1>3, <1>4 DEF ObserverInv

\* A command is answered, after what the script may have sent before.
LEMMA AnsweredKeeps ==
  ASSUME ObserverInv, NEW c \in sent, sent' = sent \ {c},
         NEW w \in Seq(Msg), Lone(sent, w), Due(sent, w) \subseteq Due(sent, wire) \cup {"event", "ready"},
         CleanFails(wire) => CleanFails(w),
         NEW m \in Msg, m.kind = c.kind, wire' = Append(w, m),
         UNCHANGED <<scope, tasks, helper>>, page' \in Pages, tally' \in Tallies,
         \A e \in page'.observing :
           \/ e \in page.observing /\ (c.kind \in Cleaning => e \notin c.n \/ m.how = "fault")
           \/ TaskAt("evaluate") /\ Epoch = e
  PROVE  ObserverInv'
<1>1. /\ Lone(sent', w) /\ Due(sent', w) \subseteq Due(sent, w) /\ c.kind \in Due(sent, w)
      /\ c.kind \in Solitary => c.kind \notin Due(sent', w)
  BY Run
<1>2. /\ wire' \in Seq(Msg) /\ Lone(sent', wire') /\ Due(sent', wire') = Due(sent', w) \cup {m.kind}
      /\ CleanFails(w) => CleanFails(wire')
      /\ m.kind \in Cleaning /\ m.how = "fault" => CleanFails(wire')
  <2> DEFINE s == sent'
  <2>1. Lone(s, w) /\ (m.kind \in Solitary => m.kind \notin Due(s, w))
    BY <1>1
  <2> HIDE DEF s
  <2>2. /\ Append(w, m) \in Seq(Msg) /\ Lone(s, Append(w, m))
        /\ Due(s, Append(w, m)) = Due(s, w) \cup {m.kind}
        /\ CleanFails(w) => CleanFails(Append(w, m))
        /\ m.kind \in Cleaning /\ m.how = "fault" => CleanFails(Append(w, m))
    BY <2>1, SentOn
  <2> QED BY <2>2, Zenon DEF s
<1>3. Due(sent', wire') \subseteq Due(sent, wire) \cup {"navigated", "event", "ready"}
  <2>1. c.kind \in Due(sent, wire)
    BY DEF Due
  <2> QED BY <1>1, <1>2, <2>1
<1>4. ASSUME NEW e \in page'.observing
      PROVE  \/ e \in page.observing /\ (Cleaned(e, sent) => Cleaned(e, sent') \/ CleanFails(wire'))
             \/ TaskAt("evaluate") /\ Epoch = e
  <2>1. CASE TaskAt("evaluate") /\ Epoch = e
    BY <2>1
  <2>2. CASE e \in page.observing /\ (c.kind \in Cleaning => e \notin c.n \/ m.how = "fault")
    <3> SUFFICES ASSUME Cleaned(e, sent), ~Cleaned(e, sent') PROVE CleanFails(wire')
      BY <2>2
    <3>1. c.kind \in Cleaning /\ e \in c.n
      BY DEF Cleaned
    <3> QED BY <1>2, <2>2, <3>1
  <2> QED BY <1>4, <2>1, <2>2
<1> QED BY <1>2, <1>3, <1>4, HelperUnaware

LEMMA CausedTally ==
  ASSUME tally \in Tallies, NEW epoch
  PROVE  /\ Caused(epoch) \in Tallies /\ Caused(epoch).kept = tally.kept
         /\ Caused(epoch).owed = tally.owed + (IF Owed(epoch) THEN 1 ELSE 0)
<1> DEFINE owed == IF Owed(epoch) THEN 1 ELSE 0
<1>1. owed \in Nat
  OBVIOUS
<1>2. Caused(epoch) = [tally EXCEPT !.caused = @ + 1, !.owed = @ + owed]
  BY DEF Caused
<1> HIDE DEF owed
<1>3. tally.caused + 1 \in Nat /\ tally.owed + owed \in Nat
  BY <1>1 DEF Tallies
<1>4. /\ Caused(epoch) \in Tallies /\ Caused(epoch).kept = tally.kept
      /\ Caused(epoch).owed = tally.owed + owed
  BY <1>2, <1>3 DEF Tallies
<1> QED BY <1>4 DEF owed

LEMMA BrowserKeeps ==
  ASSUME ObserverInv, Navigate \/ UserEvent PROVE ObserverInv'
<1>1. /\ page \in Pages /\ tally \in Tallies /\ wire \in Seq(Msg) /\ Lone(sent, wire)
  BY DEF ObserverInv, ObserverTypes, OneAnswer
<1>2. PICK m \in Msg : /\ m.kind \in {"navigated", "event"} /\ wire' = Append(wire, m)
                       /\ page' \in Pages /\ page'.observing \subseteq page.observing
                       /\ tally' \in Tallies
  <2>1. CASE Navigate
    <3> DEFINE m == [kind |-> "navigated", n |-> page.shown + 1, how |-> "ok"]
    <3>1. m \in Msg /\ m.kind = "navigated"
      BY <1>1 DEF Msg, Pages
    <3>2. page' \in Pages /\ page'.observing = {} /\ tally' = tally /\ wire' = Append(wire, m)
      BY <1>1, <2>1 DEF Navigate, Pages
    <3> HIDE DEF m
    <3> QED BY <1>1, <3>1, <3>2
  <2>2. CASE UserEvent
    <3>1. PICK epoch \in page.observing : wire' = Append(wire, Event(epoch)) /\ tally' = Caused(epoch)
      BY <2>2 DEF UserEvent
    <3>2. Event(epoch) \in Msg /\ Event(epoch).kind = "event"
      BY <1>1 DEF Event, Msg, Pages
    <3>3. tally' \in Tallies
      BY <1>1, <3>1, CausedTally
    <3>4. page' = page
      BY <2>2 DEF UserEvent
    <3> QED BY <1>1, <3>1, <3>2, <3>3, <3>4
  <2> QED BY <2>1, <2>2
<1>3. UNCHANGED <<sent, scope, tasks, helper>>
  BY DEF Navigate, UserEvent
<1>4. /\ wire' \in Seq(Msg) /\ Lone(sent', wire') /\ Due(sent', wire') = Due(sent, wire) \cup {m.kind}
      /\ CleanFails(wire) => CleanFails(wire')
  BY <1>1, <1>2, <1>3, SentOn DEF Solitary, Installing
<1> QED BY <1>2, <1>3, <1>4, HelperUnaware

LEMMA FaultKeeps == ASSUME ObserverInv, CommandFails PROVE ObserverInv'
<1>1. PICK c \in sent : /\ sent' = sent \ {c}
                        /\ wire' = Append(wire, Answered([c EXCEPT !.n = 0], "fault"))
  BY DEF CommandFails
<1>2. /\ page \in Pages /\ wire \in Seq(Msg) /\ Lone(sent, wire) /\ c \in Asks /\ tally \in Tallies
  BY DEF ObserverInv, ObserverTypes, OneAnswer
<1> DEFINE m == Answered([c EXCEPT !.n = 0], "fault")
<1>3. m \in Msg /\ m.kind = c.kind /\ m.how = "fault"
  BY <1>2 DEF Answered, Msg, Asks
<1>4. tally' \in Tallies /\ UNCHANGED <<page, scope, tasks, helper>>
  BY <1>2 DEF CommandFails, Tallies
<1>5. wire' = Append(wire, m)
  BY <1>1
<1> HIDE DEF m
<1> QED BY <1>1, <1>2, <1>3, <1>4, <1>5, AnsweredKeeps

\* The command a script runs: the tree, a world, an evaluation, a flush, a clean-up.
LEMMA CommandKeeps == ASSUME ObserverInv, RunCommand PROVE ObserverInv'
<1>1. PICK c \in sent :
        /\ sent' = sent \ {c}
        /\ \/ c.kind = "tree" /\ RunTree(c)
           \/ c.kind = "world" /\ RunWorld(c)
           \/ c.kind = "evaluate" /\ RunEvaluate(c)
           \/ c.kind = "flush" /\ RunFlush(c)
           \/ c.kind \in {"clean", "discard", "settle"} /\ RunCleanup(c)
        /\ UNCHANGED <<scope, tasks, helper>>
  BY DEF RunCommand
<1>2. /\ page \in Pages /\ wire \in Seq(Msg) /\ Lone(sent, wire) /\ c \in Asks /\ tally \in Tallies
      /\ Due(sent, wire) \subseteq Due(sent, wire)
  BY DEF ObserverInv, ObserverTypes, OneAnswer
<1>3. ASSUME c.kind \in {"world", "evaluate"}
      PROVE  c.n = Epoch /\ c.n \in Nat \ {0} /\ TaskAt(c.kind)
  <2>1. c.kind \in Due(sent, wire)
    BY DEF Due
  <2>2. c.n = Epoch /\ TaskAt(c.kind)
    BY <1>3, <2>1 DEF ObserverInv, OneAnswer, Awaited, Installing
  <2>3. Head(tasks) \in Install
    BY <2>2 DEF ObserverInv, ObserverTypes, TaskAt
  <2> QED BY <2>2, <2>3 DEF Install, Epoch
<1>4. CASE c.kind = "tree" /\ RunTree(c)
  <2> DEFINE m == Answered([c EXCEPT !.n = page.shown], "ok")
  <2>1. m \in Msg /\ m.kind = c.kind /\ wire' = Append(wire, m)
    BY <1>2, <1>4 DEF Answered, Msg, Asks, Pages, RunTree
  <2>2. UNCHANGED <<page, tally>>
    BY <1>4 DEF RunTree
  <2> HIDE DEF m
  <2>3. c.kind \notin Cleaning
    BY <1>4 DEF Cleaning
  <2> QED BY <1>1, <1>2, <2>1, <2>2, <2>3, AnsweredKeeps
<1>5. CASE c.kind = "world" /\ RunWorld(c)
  <2> DEFINE m == Answered(c, "ok")
  <2>1. m \in Msg /\ m.kind = c.kind /\ wire' = Append(wire, m)
    BY <1>2, <1>3, <1>5 DEF Answered, Msg, Asks, RunWorld
  <2>2. page' \in Pages /\ page'.observing = page.observing /\ tally' = tally
    BY <1>2, <1>3, <1>5 DEF RunWorld, Pages
  <2> HIDE DEF m
  <2>3. c.kind \notin Cleaning
    BY <1>5 DEF Cleaning
  <2> QED BY <1>1, <1>2, <2>1, <2>2, <2>3, AnsweredKeeps
<1>6. CASE c.kind = "evaluate" /\ RunEvaluate(c)
  <2>1. c.kind \notin Cleaning /\ tally' = tally
    BY <1>6 DEF Cleaning, RunEvaluate
  <2>2. CASE c.n \in page.worlds
    <3> DEFINE r == [kind |-> "ready", n |-> c.n, how |-> "ok"]
               m == Answered(c, "ok")
               w == Append(wire, r)
    <3>1. /\ r \in Msg /\ r.kind = "ready" /\ m \in Msg /\ m.kind = c.kind
      BY <1>2, <1>3, <1>6 DEF Answered, Msg, Asks
    <3>2. wire' = wire \o <<r, m>>
      BY <1>6, <2>2 DEF RunEvaluate
    <3> HIDE DEF r, m
    <3>3. wire' = Append(w, m)
      BY <1>2, <3>1, <3>2
    <3>4. /\ w \in Seq(Msg) /\ Lone(sent, w) /\ Due(sent, w) \subseteq Due(sent, wire) \cup {"event", "ready"}
          /\ CleanFails(wire) => CleanFails(w)
      BY <1>2, <3>1, SentOn DEF Solitary, Installing
    <3> HIDE DEF w
    <3>5. page' \in Pages /\ page'.observing = page.observing \cup {c.n}
      <4>1. page' = [page EXCEPT !.observing = page.observing \cup {c.n}]
        BY <1>6, <2>2 DEF RunEvaluate
      <4>2. page.observing \cup {c.n} \in SUBSET (Nat \ {0})
        BY <1>2, <1>3, <1>6 DEF Pages
      <4> QED BY <1>2, <4>1, <4>2, Zenon DEF Pages
    <3>6. \A e \in page'.observing : e \in page.observing \/ (TaskAt("evaluate") /\ Epoch = e)
      BY <1>3, <1>6, <3>5
    <3> QED BY <1>1, <1>2, <2>1, <3>1, <3>3, <3>4, <3>5, <3>6, AnsweredKeeps
  <2>3. CASE c.n \notin page.worlds
    <3> DEFINE m == Answered(c, "stale")
    <3>1. m \in Msg /\ m.kind = c.kind /\ wire' = Append(wire, m) /\ page' = page
      BY <1>2, <1>3, <1>6, <2>3 DEF Answered, Msg, Asks, RunEvaluate
    <3> HIDE DEF m
    <3> QED BY <1>1, <1>2, <2>1, <3>1, AnsweredKeeps
  <2> QED BY <2>2, <2>3
<1>7. CASE c.kind = "flush" /\ RunFlush(c)
  <2> DEFINE m == Answered(c, "ok")
  <2>1. c.kind \notin Cleaning /\ page' = page
    BY <1>7 DEF Cleaning, RunFlush
  <2>2. c.n \in Nat
    BY <1>7 DEF ObserverInv, OneAnswer
  <2>3. m \in Msg /\ m.kind = c.kind
    BY <1>2, <2>2 DEF Answered, Msg, Asks
  <2>4. CASE wire' = Append(wire, Answered(c, "ok")) /\ UNCHANGED tally
    <3>1. wire' = Append(wire, m) /\ tally' = tally
      BY <2>4
    <3> HIDE DEF m
    <3> QED BY <1>1, <1>2, <2>1, <2>3, <3>1, AnsweredKeeps
  <2>5. CASE /\ c.n \in page.observing
             /\ wire' = wire \o <<Event(c.n), Answered(c, "ok")>> /\ tally' = Caused(c.n)
    <3> DEFINE r == Event(c.n)
               w == Append(wire, r)
    <3>1. r \in Msg /\ r.kind = "event"
      BY <2>2 DEF Event, Msg
    <3>2. wire' = wire \o <<r, m>>
      BY <2>5
    <3> HIDE DEF r, m
    <3>3. wire' = Append(w, m)
      BY <1>2, <2>3, <3>1, <3>2
    <3>4. /\ w \in Seq(Msg) /\ Lone(sent, w) /\ Due(sent, w) \subseteq Due(sent, wire) \cup {"event", "ready"}
          /\ CleanFails(wire) => CleanFails(w)
      BY <1>2, <3>1, SentOn DEF Solitary, Installing
    <3> HIDE DEF w
    <3>5. tally' \in Tallies
      BY <1>2, <2>5, CausedTally
    <3> QED BY <1>1, <1>2, <2>1, <2>3, <3>3, <3>4, <3>5, AnsweredKeeps
  <2> QED BY <1>7, <2>4, <2>5 DEF RunFlush
<1>8. CASE c.kind \in {"clean", "discard", "settle"} /\ RunCleanup(c)
  <2> DEFINE m == Answered([c EXCEPT !.n = 0], "ok")
  <2>1. m \in Msg /\ m.kind = c.kind /\ wire' = Append(wire, m)
    BY <1>2, <1>8 DEF Answered, Msg, Asks, RunCleanup
  <2>2. page' \in Pages /\ page'.observing = page.observing \ c.n /\ tally' = tally
    BY <1>2, <1>8 DEF RunCleanup, Pages
  <2> HIDE DEF m
  <2> QED BY <1>1, <1>2, <2>1, <2>2, AnsweredKeeps
<1> QED BY <1>1, <1>4, <1>5, <1>6, <1>7, <1>8

-----------------------------------------------------------------------------
(* Messages that arrive. *)

LEMMA Arrived ==
  ASSUME ObserverInv, NEW kinds, NEW i, Arrives(kinds, i)
  PROVE  /\ i \in DOMAIN wire /\ wire[i] \in Msg /\ wire[i].kind \in kinds
         /\ wire' \in Seq(Msg) /\ Lone(sent, wire') /\ Due(sent, wire') \subseteq Due(sent, wire)
         /\ wire[i].kind \in Due(sent, wire)
         /\ wire[i].kind \in Solitary => wire[i].kind \notin Due(sent, wire')
         /\ CleanFails(wire) => CleanFails(wire') \/ (wire[i].kind \in Cleaning /\ wire[i].how = "fault")
<1>1. wire \in Seq(Msg) /\ Lone(sent, wire)
  BY DEF ObserverInv, ObserverTypes, OneAnswer
<1>2. i \in DOMAIN wire /\ wire[i].kind \in kinds /\ wire' = RemoveAt(wire, i)
  BY DEF Arrives
<1>3. wire[i] \in Msg
  BY <1>1, <1>2
<1> DEFINE v == RemoveAt(wire, i)
<1>4. /\ v \in Seq(Msg) /\ Lone(sent, v)
      /\ Due(sent, v) \subseteq Due(sent, wire) /\ wire[i].kind \in Due(sent, wire)
      /\ wire[i].kind \in Solitary => wire[i].kind \notin Due(sent, v)
      /\ CleanFails(wire) => CleanFails(v) \/ (wire[i].kind \in Cleaning /\ wire[i].how = "fault")
  BY <1>1, <1>2, TakenLeaves
<1>5. wire' = v
  BY <1>2
<1> HIDE DEF v
<1> QED BY <1>2, <1>3, <1>4, <1>5

\* The answers due stay due, and no others.
LEMMA AnswersStay ==
  ASSUME ObserverInv, UNCHANGED sent, Lone(sent, wire'), Due(sent, wire') \subseteq Due(sent, wire),
         \A kind \in Due(sent, wire') : Awaited(kind) => Awaited(kind)',
         \/ \A kind \in Due(sent, wire') : kind \notin {"world", "evaluate"}
         \/ tasks # <<>> => Epoch' = Epoch
  PROVE  OneAnswer'
<1>1. \A kind \in Due(sent', wire') : Awaited(kind)'
  BY DEF ObserverInv, OneAnswer
<1>2. ASSUME NEW c \in sent', c.kind \in {"world", "evaluate"} PROVE c.n = Epoch'
  <2>1. c \in sent /\ c.n = Epoch
    BY <1>2 DEF ObserverInv, OneAnswer
  <2>2. c.kind \in Due(sent, wire') /\ c.kind \in Due(sent, wire)
    BY <2>1 DEF Due
  <2>3. tasks # <<>>
    BY <1>2, <2>2, OnlyAnswer DEF Installing
  <2> QED BY <1>2, <2>1, <2>2, <2>3
<1> QED BY <1>1, <1>2 DEF ObserverInv, OneAnswer

LEMMA SameTasks ==
  ASSUME ObserverInv, UNCHANGED <<sent, tasks>>, Lone(sent, wire'), Due(sent, wire') \subseteq Due(sent, wire),
         helper'.stop = helper.stop, helper'.armed = helper.armed
  PROVE  OneAnswer'
<1>1. \A kind \in Due(sent, wire') : Awaited(kind) => Awaited(kind)'
  BY DEF Awaited, TaskAt
<1>2. Epoch' = Epoch
  BY DEF Epoch
<1> QED BY <1>1, <1>2, AnswersStay

\* A capture that fails keeps the invariant, if its answers are kept.
LEMMA FailsKeeps ==
  ASSUME ObserverInv, FailObserved, tasks' \in Seq(Install), Shifted, page' = page,
         tally' \in Tallies, wire' \in Seq(Msg), sent' \in SUBSET Asks, OneAnswer'
  PROVE  ObserverInv'
<1>1. ObserverTypes /\ TasksInOrder /\ ScopeSound
  BY DEF ObserverInv
<1>2. /\ scope' \in Scopes /\ helper' \in Helpers
      /\ TasksInOrder' /\ ScopeSound' /\ Covered'
  BY <1>1, FailureKeeps
<1> QED BY <1>1, <1>2 DEF ObserverInv, ObserverTypes

LEMMA FailsAlone ==
  ASSUME ObserverInv, FailObserved, UNCHANGED <<page, sent, tasks>>, tally' \in Tallies,
         wire' \in Seq(Msg), Lone(sent, wire'), Due(sent, wire') \subseteq Due(sent, wire)
  PROVE  ObserverInv'
<1>1. tasks' \in Seq(Install) /\ Shifted /\ sent' \in SUBSET Asks
  BY DEF ObserverInv, ObserverTypes, Shifted
<1>2. helper'.stop = helper.stop /\ helper'.armed = helper.armed
  BY <1>1, FailureKeeps DEF ObserverInv
<1>3. OneAnswer'
  BY <1>2, SameTasks
<1> QED BY <1>1, <1>3, FailsKeeps

\* What the committed ready state is made of.
LEMMA Commits ==
  ASSUME NEW s \in Scopes, helper \in Helpers, Commit(s)
  PROVE  /\ scope' \in Scopes /\ scope'.epoch = s.epoch /\ scope'.evaluated = s.evaluated
         /\ scope'.context = s.context /\ scope'.retired = s.retired
         /\ scope'.ready = (s.ready \/ (s.evaluated /\ s.handshake))
         /\ helper' \in Helpers /\ helper'.armed = helper.armed /\ helper'.stop = helper.stop
         /\ helper'.failed = helper.failed /\ helper'.active = helper.active
         /\ helper'.start = IF s.evaluated /\ s.handshake /\ helper.start = "waiting"
                            THEN "running" ELSE helper.start
<1> DEFINE ready == s.evaluated /\ s.handshake
           start == IF ready /\ helper.start = "waiting" THEN "running" ELSE helper.start
           all == s.ready \/ ready
<1>1. ready \in BOOLEAN /\ start \in {"waiting", "running", "failed"} /\ all \in BOOLEAN
  BY DEF Helpers, Scopes
<1>2. scope' = [s EXCEPT !.ready = all] /\ helper' = [helper EXCEPT !.start = start]
  BY DEF Commit
<1> HIDE DEF start, all
<1>3. /\ scope' \in Scopes /\ scope'.epoch = s.epoch /\ scope'.evaluated = s.evaluated
      /\ scope'.context = s.context /\ scope'.retired = s.retired /\ scope'.ready = all
  BY <1>1, <1>2 DEF Scopes
<1>4. /\ helper' \in Helpers /\ helper'.armed = helper.armed /\ helper'.stop = helper.stop
      /\ helper'.failed = helper.failed /\ helper'.active = helper.active
      /\ helper'.start = start
  BY <1>1, <1>2 DEF Helpers
<1> QED BY <1>3, <1>4, Zenon DEF start, all

LEMMA HandshakeKeeps == ASSUME ObserverInv, Handshake PROVE ObserverInv'
<1>1. PICK i : /\ Arrives({"ready"}, i)
               /\ \/ Commit([scope EXCEPT !.handshake = TRUE])
                  \/ UNCHANGED <<scope, helper>>
  BY DEF Handshake
<1>2. /\ wire' \in Seq(Msg) /\ Lone(sent, wire') /\ Due(sent, wire') \subseteq Due(sent, wire)
      /\ CleanFails(wire) => CleanFails(wire')
  BY <1>1, Arrived DEF Cleaning
<1>3. UNCHANGED <<page, sent, tasks, tally>>
  BY DEF Handshake
<1>4. /\ scope' \in Scopes /\ helper' \in Helpers
      /\ scope'.epoch = scope.epoch /\ scope'.evaluated = scope.evaluated
      /\ scope'.context = scope.context /\ scope'.retired = scope.retired
      /\ helper'.armed = helper.armed /\ helper'.stop = helper.stop
      /\ helper'.failed = helper.failed /\ helper'.active = helper.active
      /\ scope'.ready => scope'.evaluated /\ helper'.start # "waiting"
      /\ helper'.start = helper.start \/ (helper'.start = "running" /\ scope.evaluated)
      /\ helper.start = "running" => helper'.start = "running"
      /\ helper.start = "failed" => helper'.start = "failed"
  <2>1. scope \in Scopes /\ helper \in Helpers /\ ScopeSound
    BY DEF ObserverInv, ObserverTypes
  <2>2. CASE UNCHANGED <<scope, helper>>
    BY <2>1, <2>2 DEF ScopeSound
  <2>3. CASE Commit([scope EXCEPT !.handshake = TRUE])
    <3> DEFINE s == [scope EXCEPT !.handshake = TRUE]
    <3>1. /\ s \in Scopes /\ s.epoch = scope.epoch /\ s.evaluated = scope.evaluated /\ s.handshake
          /\ s.context = scope.context /\ s.retired = scope.retired /\ s.ready = scope.ready
      BY <2>1 DEF Scopes
    <3>2. Commit(s)
      BY <2>3
    <3> HIDE DEF s
    <3> QED BY <2>1, <3>1, <3>2, Commits DEF ScopeSound
  <2> QED BY <1>1, <2>2, <2>3
<1>5. OneAnswer'
  BY <1>2, <1>3, <1>4, SameTasks
<1>6. TasksInOrder'
  BY <1>3, <1>4, StillInOrder DEF ObserverInv, ObserverTypes, Shifted
<1>7. ScopeSound'
  BY <1>3, <1>4 DEF ObserverInv, ScopeSound
<1>8. Covered'
  BY <1>2, <1>3, <1>4 DEF ObserverInv, Covered, Known, TaskAt, Epoch
<1> QED BY <1>2, <1>3, <1>4, <1>5, <1>6, <1>7, <1>8 DEF ObserverInv, ObserverTypes

LEMMA ObservedKeeps == ASSUME ObserverInv, Observed PROVE ObserverInv'
<1>1. PICK i :
        /\ Arrives({"event"}, i)
        /\ \/ UNCHANGED <<scope, helper, tally>>
           \/ /\ tally' = [tally EXCEPT !.posted = @ + 1,
                                        !.kept = @ + (IF wire[i].how = "owed" THEN 1 ELSE 0)]
              /\ UNCHANGED <<scope, helper>>
           \/ FailObserved /\ UNCHANGED tally
  BY DEF Observed
<1>2. /\ wire' \in Seq(Msg) /\ Lone(sent, wire') /\ Due(sent, wire') \subseteq Due(sent, wire)
      /\ CleanFails(wire) => CleanFails(wire')
  BY <1>1, Arrived DEF Cleaning
<1>3. UNCHANGED <<page, sent, tasks>>
  BY DEF Observed
<1>4. tally' \in Tallies
  <2> DEFINE k == IF wire[i].how = "owed" THEN 1 ELSE 0
  <2>1. k \in Nat /\ tally \in Tallies
    BY DEF ObserverInv, ObserverTypes
  <2>2. tally' = tally \/ tally' = [tally EXCEPT !.posted = @ + 1, !.kept = @ + k]
    BY <1>1
  <2> HIDE DEF k
  <2>3. tally.posted + 1 \in Nat /\ tally.kept + k \in Nat
    BY <2>1 DEF Tallies
  <2> QED BY <2>1, <2>2, <2>3 DEF Tallies
<1>5. CASE UNCHANGED <<scope, helper>>
  <2>1. OneAnswer'
    BY <1>2, <1>3, <1>5, SameTasks
  <2>2. TasksInOrder' /\ ScopeSound'
    BY <1>3, <1>5 DEF ObserverInv, TasksInOrder, ScopeSound
  <2>3. Covered'
    BY <1>2, <1>3, <1>5 DEF ObserverInv, Covered, Known, TaskAt, Epoch
  <2> QED BY <1>2, <1>3, <1>4, <1>5, <2>1, <2>2, <2>3 DEF ObserverInv, ObserverTypes
<1>6. CASE FailObserved
  BY <1>2, <1>3, <1>4, <1>6, FailsAlone
<1> QED BY <1>1, <1>5, <1>6

LEMMA PostFailsKeeps == ASSUME ObserverInv, PostFails PROVE ObserverInv'
<1>1. /\ FailObserved /\ UNCHANGED <<page, wire, sent, tasks>>
      /\ tally' = [tally EXCEPT !.faults = @ + 1]
  BY DEF PostFails
<1>2. /\ tally' \in Tallies /\ wire' \in Seq(Msg) /\ Lone(sent, wire')
      /\ Due(sent, wire') \subseteq Due(sent, wire)
  BY <1>1 DEF ObserverInv, ObserverTypes, OneAnswer, Tallies
<1> QED BY <1>1, <1>2, FailsAlone

-----------------------------------------------------------------------------
(* The scope that is replaced, with or without an installation. *)

\* What is known stays known when the scope is replaced and no command is forgotten.
LEMMA ReplacedKnown ==
  ASSUME ObserverInv, NEW doc \in Nat, scope' = Replaced(scope, doc), UNCHANGED <<page, sent>>,
         helper'.failed = helper.failed, CleanFails(wire) => CleanFails(wire'),
         tasks # <<>> => tasks' # <<>> /\ Head(tasks') = Head(tasks)
  PROVE  Covered'
<1>1. /\ scope.retired \subseteq scope'.retired
      /\ scope.context # 0 => scope.context \in scope'.retired
  BY ReplacedScope DEF ObserverInv
<1>2. \A e \in page.observing : e # 0
  BY DEF ObserverInv, ObserverTypes, Pages
<1> QED BY <1>1, <1>2 DEF ObserverInv, Covered, Known, TaskAt, Epoch

LEMMA OneMore ==
  ASSUME ObserverInv, NEW doc \in Nat, scope' = Replaced(scope, doc), helper' \in Helpers,
         NEW task \in Install, task.epoch = scope.epoch + 1, tasks' = Append(tasks, task),
         helper'.armed, helper'.stop = "no"
  PROVE  /\ TasksInOrder' /\ tasks' \in Seq(Install) /\ tasks' # <<>>
         /\ tasks # <<>> => Head(tasks') = Head(tasks)
<1>1. /\ tasks \in Seq(Install) /\ Len(tasks) \in Nat /\ DOMAIN tasks = 1..Len(tasks)
      /\ scope.epoch \in Nat
  BY DEF ObserverInv, ObserverTypes, Scopes
<1>2. /\ tasks' \in Seq(Install) /\ tasks' # <<>> /\ DOMAIN tasks' = 1..(Len(tasks) + 1)
      /\ \A i \in DOMAIN tasks : tasks'[i] = tasks[i]
      /\ tasks'[Len(tasks) + 1] = task
      /\ tasks # <<>> => Head(tasks') = Head(tasks)
  BY <1>1
<1>3. scope'.epoch = scope.epoch + 1 /\ ~scope'.evaluated
  BY ReplacedScope DEF ObserverInv
<1>4. \A i \in DOMAIN tasks : tasks[i].epoch \in Nat /\ tasks[i].epoch <= scope.epoch
  <2>1. \A i \in DOMAIN tasks : tasks[i] \in Install
    BY <1>1
  <2> QED BY <2>1 DEF Install, ObserverInv, TasksInOrder
<1>5. \A i \in DOMAIN tasks' : i \in DOMAIN tasks \/ i = Len(tasks) + 1
  BY <1>1, <1>2
<1>6. \A i \in DOMAIN tasks' : tasks'[i].epoch <= scope'.epoch
  BY <1>1, <1>2, <1>3, <1>4, <1>5
<1>7. \A i, j \in DOMAIN tasks' : i < j => tasks'[i].epoch < tasks'[j].epoch
  <2> SUFFICES ASSUME NEW i \in DOMAIN tasks', NEW j \in DOMAIN tasks', i < j
               PROVE  tasks'[i].epoch < tasks'[j].epoch
    OBVIOUS
  <2>1. i \in DOMAIN tasks /\ tasks'[i] = tasks[i]
    BY <1>1, <1>2
  <2>2. CASE j \in DOMAIN tasks
    BY <1>2, <2>1, <2>2 DEF ObserverInv, TasksInOrder
  <2>3. CASE j = Len(tasks) + 1
    BY <1>1, <1>2, <1>4, <2>1, <2>3
  <2> QED BY <1>5, <2>2, <2>3
<1> QED BY <1>2, <1>3, <1>6, <1>7 DEF TasksInOrder

LEMMA InstallationType ==
  ASSUME scope \in Scopes, NEW doc \in Nat
  PROVE  /\ Installation(doc) \in Install /\ Installation(doc).epoch = scope.epoch + 1
         /\ [Installation(doc) EXCEPT !.pc = "first"] \in Install
         /\ [Installation(doc) EXCEPT !.pc = "first"].epoch = scope.epoch + 1
<1>1. scope.epoch + 1 \in Nat \ {0}
  BY DEF Scopes
<1> QED BY <1>1 DEF Installation, Install

LEMMA ArmedKeeps == ASSUME ObserverInv, Armed PROVE ObserverInv'
<1>1. PICK i :
        /\ Arrives({"tree"}, i)
        /\ \/ /\ helper' = [helper EXCEPT !.armed = TRUE]
              /\ scope' = Replaced(scope, wire[i].n)
              /\ tasks' = Append(tasks, [Installation(wire[i].n) EXCEPT !.pc = "first"])
           \/ FailObserved /\ UNCHANGED tasks
  BY DEF Armed
<1>2. /\ wire[i] \in Msg /\ wire[i].kind = "tree" /\ "tree" \in Due(sent, wire)
      /\ "tree" \notin Due(sent, wire')
      /\ wire' \in Seq(Msg) /\ Lone(sent, wire') /\ Due(sent, wire') \subseteq Due(sent, wire)
      /\ CleanFails(wire) => CleanFails(wire')
  BY <1>1, Arrived DEF Cleaning, Solitary
<1>3. UNCHANGED <<page, sent, tally>> /\ tally' \in Tallies
  BY DEF Armed, ObserverInv, ObserverTypes
<1>4. CASE FailObserved /\ UNCHANGED tasks
  BY <1>2, <1>3, <1>4, FailsAlone
<1>5. CASE /\ helper' = [helper EXCEPT !.armed = TRUE]
           /\ scope' = Replaced(scope, wire[i].n)
           /\ tasks' = Append(tasks, [Installation(wire[i].n) EXCEPT !.pc = "first"])
  <2>1. ~helper.armed /\ tasks = <<>> /\ helper.start # "running" /\ helper.stop = "no"
    <3>1. ~helper.armed
      BY <1>2 DEF ObserverInv, OneAnswer, Awaited
    <3> QED BY <3>1 DEF ObserverInv, ObserverTypes, Helpers, TasksInOrder, ScopeSound
  <2>2. /\ helper' \in Helpers /\ helper'.armed /\ helper'.stop = "no" /\ helper'.start = helper.start
        /\ helper'.failed = helper.failed /\ helper'.active = helper.active
    BY <1>5, <2>1 DEF ObserverInv, ObserverTypes, Helpers
  <2> DEFINE task == [Installation(wire[i].n) EXCEPT !.pc = "first"]
  <2>3. wire[i].n \in Nat
    BY <1>2 DEF Msg
  <2>4. task \in Install /\ task.epoch = scope.epoch + 1 /\ tasks' = Append(tasks, task)
    BY <1>5, <2>3, InstallationType DEF ObserverInv, ObserverTypes
  <2> HIDE DEF task
  <2>5. TasksInOrder' /\ tasks' \in Seq(Install)
    BY <1>5, <2>2, <2>3, <2>4, OneMore
  <2>6. /\ scope' \in Scopes /\ scope'.epoch = scope.epoch + 1 /\ ~scope'.evaluated
        /\ ~scope'.ready /\ scope'.context = 0
    BY <1>5, <2>3, ReplacedScope DEF ObserverInv
  <2>7. ScopeSound'
    BY <2>1, <2>2, <2>6 DEF ObserverInv, ScopeSound
  <2>8. Covered'
    BY <1>2, <1>3, <1>5, <2>1, <2>2, <2>3, ReplacedKnown
  <2>9. OneAnswer'
    <3>1. \A kind \in Due(sent, wire) : kind \notin Installing
      BY <2>1, OnlyAnswer
    <3>2. \A kind \in Due(sent, wire') : Awaited(kind) => Awaited(kind)'
      BY <1>2, <2>1, <2>2, <3>1 DEF Awaited
    <3>3. \A kind \in Due(sent, wire') : kind \notin {"world", "evaluate"}
      BY <1>2, <3>1 DEF Installing
    <3> QED BY <1>2, <1>3, <3>2, <3>3, AnswersStay
  <2> QED BY <1>2, <1>3, <2>2, <2>5, <2>6, <2>7, <2>8, <2>9 DEF ObserverInv, ObserverTypes
<1> QED BY <1>1, <1>4, <1>5

LEMMA NavigatedKeeps == ASSUME ObserverInv, Navigated PROVE ObserverInv'
<1>1. PICK i :
        /\ Arrives({"navigated"}, i)
        /\ \/ UNCHANGED <<scope, tasks, helper>>
           \/ /\ ~helper.armed /\ scope' = [scope EXCEPT !.target = wire[i].n]
              /\ UNCHANGED <<tasks, helper>>
           \/ FailObserved /\ UNCHANGED tasks
           \/ /\ helper.armed /\ helper.stop = "no" /\ scope' = Replaced(scope, wire[i].n)
              /\ tasks' = Append(tasks, Installation(wire[i].n)) /\ UNCHANGED helper
  BY DEF Navigated
<1>2. /\ wire[i] \in Msg
      /\ wire' \in Seq(Msg) /\ Lone(sent, wire') /\ Due(sent, wire') \subseteq Due(sent, wire)
      /\ CleanFails(wire) => CleanFails(wire')
  BY <1>1, Arrived DEF Cleaning
<1>3. wire[i].n \in Nat
  BY <1>2 DEF Msg
<1>4. UNCHANGED <<page, sent, tally>> /\ tally' \in Tallies
  BY DEF Navigated, ObserverInv, ObserverTypes
<1>5. CASE /\ scope' = scope \/ scope' = [scope EXCEPT !.target = wire[i].n]
           /\ UNCHANGED <<tasks, helper>>
  <2>1. /\ scope' \in Scopes /\ scope'.epoch = scope.epoch /\ scope'.evaluated = scope.evaluated
        /\ scope'.context = scope.context /\ scope'.retired = scope.retired
        /\ scope'.ready = scope.ready
    BY <1>3, <1>5 DEF ObserverInv, ObserverTypes, Scopes
  <2>2. OneAnswer'
    BY <1>2, <1>4, <1>5, SameTasks
  <2>3. TasksInOrder' /\ ScopeSound'
    BY <1>5, <2>1 DEF ObserverInv, TasksInOrder, ScopeSound
  <2>4. Covered'
    BY <1>2, <1>4, <1>5, <2>1 DEF ObserverInv, Covered, Known, TaskAt, Epoch
  <2> QED BY <1>2, <1>4, <1>5, <2>1, <2>2, <2>3, <2>4 DEF ObserverInv, ObserverTypes
<1>6. CASE FailObserved /\ UNCHANGED tasks
  BY <1>2, <1>4, <1>6, FailsAlone
<1>7. CASE /\ helper.armed /\ helper.stop = "no" /\ scope' = Replaced(scope, wire[i].n)
           /\ tasks' = Append(tasks, Installation(wire[i].n)) /\ UNCHANGED helper
  <2>1. helper' \in Helpers
    BY <1>7 DEF ObserverInv, ObserverTypes
  <2> DEFINE task == Installation(wire[i].n)
  <2>2. task \in Install /\ task.epoch = scope.epoch + 1 /\ tasks' = Append(tasks, task)
    BY <1>3, <1>7, InstallationType DEF ObserverInv, ObserverTypes
  <2> HIDE DEF task
  <2>3. /\ TasksInOrder' /\ tasks' \in Seq(Install) /\ tasks' # <<>>
        /\ tasks # <<>> => Head(tasks') = Head(tasks)
    BY <1>3, <1>7, <2>1, <2>2, OneMore
  <2>4. /\ scope' \in Scopes /\ scope'.epoch = scope.epoch + 1 /\ ~scope'.evaluated
        /\ ~scope'.ready /\ scope'.context = 0
    BY <1>3, <1>7, ReplacedScope DEF ObserverInv
  <2>5. ScopeSound'
    BY <1>7, <2>4 DEF ObserverInv, ScopeSound
  <2>6. Covered'
    BY <1>2, <1>3, <1>4, <1>7, <2>3, ReplacedKnown
  <2>7. OneAnswer'
    <3>1. \A kind \in Due(sent, wire') : Awaited(kind) => Awaited(kind)'
      BY <1>7, <2>3 DEF Awaited, TaskAt
    <3>2. tasks # <<>> => Epoch' = Epoch
      BY <2>3 DEF Epoch
    <3> QED BY <1>2, <1>4, <3>1, <3>2, AnswersStay
  <2> QED BY <1>2, <1>4, <2>1, <2>3, <2>4, <2>5, <2>6, <2>7 DEF ObserverInv, ObserverTypes
<1> QED BY <1>1, <1>5, <1>6, <1>7

LEMMA FirstFrameKeeps == ASSUME ObserverInv, FirstFrame PROVE ObserverInv'
<1> DEFINE c == Command("tree", 0)
<1>1. /\ sent' = sent \cup {c} /\ UNCHANGED <<page, wire, scope, tasks, helper, tally>>
      /\ ~helper.armed /\ "tree" \notin Due(sent, wire)
  BY DEF FirstFrame, Due
<1>2. c \in Asks /\ c.kind = "tree" /\ Lone(sent, wire)
  BY DEF Command, Asks, Solitary, ObserverInv, OneAnswer
<1> HIDE DEF c
<1>3. Lone(sent', wire') /\ Due(sent', wire') = Due(sent, wire) \cup {"tree"}
  BY <1>1, <1>2, SentOut
<1>4. ObserverTypes'
  BY <1>1, <1>2 DEF ObserverInv, ObserverTypes
<1>5. OneAnswer'
  <2>1. \A kind \in Due(sent', wire') : Awaited(kind)
    BY <1>1, <1>3 DEF ObserverInv, OneAnswer, Awaited, Installing
  <2>2. \A kind \in Due(sent', wire') : Awaited(kind)'
    BY <1>1, <2>1 DEF Awaited, TaskAt
  <2> QED BY <1>1, <1>2, <1>3, <2>2 DEF ObserverInv, OneAnswer, Epoch
<1>6. TasksInOrder' /\ ScopeSound'
  BY <1>1 DEF ObserverInv, TasksInOrder, ScopeSound
<1>7. Covered'
  BY <1>1 DEF ObserverInv, Covered, Known, TaskAt, Epoch, Cleaned
<1> QED BY <1>4, <1>5, <1>6, <1>7 DEF ObserverInv

-----------------------------------------------------------------------------
(* Start and stop. *)

LEMMA TimeoutKeeps == ASSUME ObserverInv, StartTimeout PROVE ObserverInv'
<1>1. /\ scope' = Replaced(scope, NoDocument) /\ UNCHANGED <<page, wire, sent, tasks, tally>>
      /\ NoDocument \in Nat /\ helper \in Helpers /\ helper.start = "waiting"
  BY DEF StartTimeout, NoDocument, ObserverInv, ObserverTypes
<1>2. /\ helper' \in Helpers /\ helper'.start = "failed" /\ helper'.stop = helper.stop
      /\ helper'.armed = helper.armed /\ helper'.failed = helper.failed
  BY <1>1 DEF StartTimeout, Helpers
<1>3. /\ scope' \in Scopes /\ scope'.epoch = scope.epoch + 1 /\ ~scope'.evaluated
      /\ ~scope'.ready /\ scope'.context = 0
  BY <1>1, ReplacedScope DEF ObserverInv
<1>4. helper.stop = "no"
  BY <1>1 DEF ObserverInv, ScopeSound
<1>5. TasksInOrder'
  BY <1>1, <1>2, <1>3, StillInOrder DEF ObserverInv, ObserverTypes, Shifted
<1>6. ScopeSound'
  BY <1>1, <1>2, <1>3, <1>4 DEF ScopeSound
<1>7. Covered'
  BY <1>1, <1>2, ReplacedKnown
<1>8. OneAnswer'
  BY <1>1, <1>2, SameTasks DEF ObserverInv, OneAnswer
<1> QED BY <1>1, <1>2, <1>3, <1>5, <1>6, <1>7, <1>8 DEF ObserverInv, ObserverTypes

\* No scope is committed, and no installation is of the scope: stopping goes on.
LEMMA StopInTail ==
  ASSUME ObserverInv, scope' = Replaced(scope, NoDocument), UNCHANGED <<page, sent, tasks, tally>>,
         helper' = [helper EXCEPT !.stop = "tail"], helper.start = "running",
         wire' \in Seq(Msg), Lone(sent, wire'), Due(sent, wire') \subseteq Due(sent, wire),
         CleanFails(wire) => CleanFails(wire'),
         "flush" \notin Due(sent, wire'), "settle" \notin Due(sent, wire'),
         ~helper.active => helper.failed
  PROVE  ObserverInv'
<1>1. NoDocument \in Nat /\ helper \in Helpers
  BY DEF NoDocument, ObserverInv, ObserverTypes
<1>2. /\ helper' \in Helpers /\ helper'.start = "running" /\ helper'.stop = "tail"
      /\ helper'.armed = helper.armed /\ helper'.failed = helper.failed
      /\ helper'.active = helper.active
  BY <1>1 DEF Helpers
<1>3. /\ scope' \in Scopes /\ scope'.epoch = scope.epoch + 1 /\ ~scope'.evaluated
      /\ ~scope'.ready /\ scope'.context = 0
  BY <1>1, ReplacedScope DEF ObserverInv
<1>4. TasksInOrder'
  BY <1>2, <1>3, StillInOrder DEF ObserverInv, ObserverTypes, Shifted
<1>5. ScopeSound'
  BY <1>2, <1>3 DEF ObserverInv, ScopeSound
<1>6. Covered'
  BY <1>1, <1>2, ReplacedKnown
<1>7. OneAnswer'
  <2>1. \A kind \in Due(sent, wire') : Awaited(kind) => Awaited(kind)'
    BY <1>2 DEF Awaited, TaskAt
  <2> QED BY <2>1, AnswersStay DEF Epoch
<1> QED BY <1>2, <1>3, <1>4, <1>5, <1>6, <1>7 DEF ObserverInv, ObserverTypes

LEMMA NotDue ==
  ASSUME ObserverInv
  PROVE  /\ helper.stop # "flush" => "flush" \notin Due(sent, wire)
         /\ helper.stop # "clean" => "settle" \notin Due(sent, wire)
         /\ tasks = <<>> => \A kind \in Due(sent, wire) : kind \notin Installing
BY OnlyAnswer DEF ObserverInv, OneAnswer, Awaited

LEMMA StopKeepsIt == ASSUME ObserverInv, StopObserving PROVE ObserverInv'
<1>1. /\ helper.start = "running" /\ helper.stop = "no" /\ UNCHANGED <<page, wire, tasks, tally>>
      /\ helper \in Helpers /\ scope \in Scopes /\ wire \in Seq(Msg) /\ Lone(sent, wire)
      /\ "flush" \notin Due(sent, wire) /\ "settle" \notin Due(sent, wire)
      /\ ~helper.active => helper.failed
  BY NotDue DEF StopObserving, ObserverInv, ObserverTypes, OneAnswer, ScopeSound
<1>2. CASE scope.context = 0
  <2>1. /\ scope' = Replaced(scope, NoDocument) /\ helper' = [helper EXCEPT !.stop = "tail"]
        /\ UNCHANGED sent
    BY <1>2 DEF StopObserving
  <2> QED BY <1>1, <2>1, StopInTail
<1>3. CASE scope.context # 0
  <2> DEFINE c == Command("flush", scope.context)
  <2>1. /\ helper' = [helper EXCEPT !.stop = "flush"] /\ sent' = sent \cup {c} /\ UNCHANGED scope
    BY <1>3 DEF StopObserving
  <2>2. c \in Asks /\ c.kind = "flush" /\ c.n \in Nat
    BY <1>1 DEF Command, Asks, Solitary, Scopes
  <2> HIDE DEF c
  <2>3. /\ helper' \in Helpers /\ helper'.start = "running" /\ helper'.stop = "flush"
        /\ helper'.armed = helper.armed /\ helper'.failed = helper.failed
        /\ helper'.active = helper.active
    BY <1>1, <2>1 DEF Helpers
  <2>4. scope.evaluated
    BY <1>3 DEF ObserverInv, ScopeSound
  <2>5. Lone(sent', wire') /\ Due(sent', wire') = Due(sent, wire) \cup {"flush"}
    <3>1. c.kind \in Solitary => c.kind \notin Due(sent, wire)
      BY <1>1, <2>2
    <3>2. Lone(sent \cup {c}, wire) /\ Due(sent \cup {c}, wire) = Due(sent, wire) \cup {c.kind}
      BY <1>1, <3>1, SentOut
    <3> QED BY <1>1, <2>1, <2>2, <3>2, Zenon
  <2>6. OneAnswer'
    <3>1. \A kind \in Due(sent', wire') : Awaited(kind)'
      BY <1>1, <2>3, <2>5 DEF ObserverInv, OneAnswer, Awaited, TaskAt, Installing
    <3>2. \A d \in sent' : d.kind \in {"world", "evaluate"} => d \in sent
      BY <2>1, <2>2
    <3> QED BY <1>1, <2>1, <2>2, <2>5, <3>1, <3>2 DEF ObserverInv, OneAnswer, Epoch
  <2>7. TasksInOrder'
    BY <1>1, <2>1, <2>3, <2>4 DEF ObserverInv, TasksInOrder
  <2>8. ScopeSound'
    BY <1>1, <2>1, <2>3, <2>4 DEF ObserverInv, ScopeSound
  <2>9. Covered'
    BY <1>1, <2>1, <2>3 DEF ObserverInv, Covered, Known, TaskAt, Epoch, Cleaned
  <2> QED BY <1>1, <2>1, <2>2, <2>3, <2>6, <2>7, <2>8, <2>9 DEF ObserverInv, ObserverTypes
<1> QED BY <1>2, <1>3

LEMMA FlushedKeeps == ASSUME ObserverInv, Flushed PROVE ObserverInv'
<1>1. PICK i :
        /\ Arrives({"flush"}, i)
        /\ \/ helper' = [Stopped EXCEPT !.failed = TRUE] /\ UNCHANGED scope
           \/ /\ helper' = [helper EXCEPT !.stop = "tail"]
              /\ scope' = Replaced(scope, NoDocument)
  BY DEF Flushed
<1>2. /\ wire' \in Seq(Msg) /\ Lone(sent, wire') /\ Due(sent, wire') \subseteq Due(sent, wire)
      /\ CleanFails(wire) => CleanFails(wire')
      /\ "flush" \in Due(sent, wire) /\ "flush" \notin Due(sent, wire')
  BY <1>1, Arrived DEF Cleaning, Solitary
<1>3. /\ UNCHANGED <<page, sent, tasks, tally>> /\ helper \in Helpers
      /\ helper.stop = "flush" /\ helper.start = "running"
      /\ ~helper.active => helper.failed
      /\ "settle" \notin Due(sent, wire')
  <2>1. helper.stop = "flush"
    BY <1>2 DEF ObserverInv, OneAnswer, Awaited
  <2> QED BY <1>2, <2>1, NotDue DEF Flushed, ObserverInv, ObserverTypes, ScopeSound
<1>4. CASE helper' = [helper EXCEPT !.stop = "tail"] /\ scope' = Replaced(scope, NoDocument)
  BY <1>2, <1>3, <1>4, StopInTail
<1>5. CASE helper' = [Stopped EXCEPT !.failed = TRUE] /\ UNCHANGED scope
  <2>1. /\ helper' \in Helpers /\ helper'.start = "running" /\ helper'.stop = "done"
        /\ helper'.armed = helper.armed /\ helper'.failed
    BY <1>3, <1>5 DEF Stopped, Helpers
  <2>2. OneAnswer'
    <3>1. \A kind \in Due(sent, wire') : Awaited(kind) => Awaited(kind)'
      BY <1>2, <1>3, <2>1 DEF Awaited, TaskAt
    <3> QED BY <1>2, <1>3, <3>1, AnswersStay DEF Epoch
  <2>3. TasksInOrder'
    BY <1>3, <1>5, <2>1 DEF ObserverInv, TasksInOrder
  <2>4. ScopeSound'
    BY <1>3, <1>5, <2>1 DEF ObserverInv, ScopeSound
  <2>5. Covered'
    BY <2>1 DEF Covered, Known
  <2> QED BY <1>2, <1>3, <1>5, <2>1, <2>2, <2>3, <2>4, <2>5 DEF ObserverInv, ObserverTypes
<1> QED BY <1>1, <1>4, <1>5

\* A clean-up that is sent knows what was retired.
LEMMA SettleKeeps == ASSUME ObserverInv, SettleObserved PROVE ObserverInv'
<1> DEFINE c == Command("settle", scope.retired)
<1>1. /\ helper.stop = "tail" /\ tasks = <<>> /\ UNCHANGED <<page, wire, tasks, tally>>
      /\ helper' = [helper EXCEPT !.stop = "clean"]
      /\ sent' = sent \cup {c} /\ scope' = [scope EXCEPT !.retired = {}]
      /\ helper \in Helpers /\ scope \in Scopes /\ wire \in Seq(Msg) /\ Lone(sent, wire)
      /\ "flush" \notin Due(sent, wire) /\ "settle" \notin Due(sent, wire)
  BY NotDue DEF SettleObserved, TailDone, SendCleanup, ObserverInv, ObserverTypes, OneAnswer
<1>2. c \in Asks /\ c.kind = "settle" /\ c.n = scope.retired
  BY <1>1 DEF Command, Asks, Solitary, Scopes
<1> HIDE DEF c
<1>3. /\ helper' \in Helpers /\ helper'.start = helper.start /\ helper'.stop = "clean"
      /\ helper'.armed = helper.armed /\ helper'.failed = helper.failed
      /\ helper'.active = helper.active
  BY <1>1 DEF Helpers
<1>4. /\ scope' \in Scopes /\ scope'.epoch = scope.epoch /\ scope'.evaluated = scope.evaluated
      /\ scope'.context = scope.context /\ scope'.retired = {} /\ scope'.ready = scope.ready
  BY <1>1 DEF Scopes
<1>5. Lone(sent', wire') /\ Due(sent', wire') = Due(sent, wire) \cup {"settle"}
  <2>1. Lone(sent, wire) /\ (c.kind \in Solitary => c.kind \notin Due(sent, wire))
    BY <1>1, <1>2
  <2>2. Lone(sent \cup {c}, wire) /\ Due(sent \cup {c}, wire) = Due(sent, wire) \cup {c.kind}
    BY <2>1, SentOut
  <2> QED BY <1>1, <1>2, <2>2, Zenon
<1>6. OneAnswer'
  <2>1. \A kind \in Due(sent', wire') : Awaited(kind)'
    BY <1>1, <1>3, <1>5 DEF ObserverInv, OneAnswer, Awaited, TaskAt, Installing
  <2>2. \A d \in sent' : d.kind \in {"world", "evaluate", "flush"} => d \in sent
    BY <1>1, <1>2
  <2> QED BY <1>1, <1>2, <1>5, <2>1, <2>2 DEF ObserverInv, OneAnswer, Epoch
<1>7. TasksInOrder'
  BY <1>1 DEF TasksInOrder
<1>8. ScopeSound'
  BY <1>1, <1>3, <1>4 DEF ObserverInv, ScopeSound
<1>9. Covered'
  <2> SUFFICES ASSUME NEW e \in page.observing, Known(e) PROVE Known(e)'
    BY <1>1 DEF ObserverInv, Covered
  <2>1. CASE e \in scope.retired
    BY <1>1, <1>2, <2>1 DEF Known, Cleaned, Cleaning
  <2>2. CASE e \notin scope.retired
    BY <1>1, <1>3, <1>4, <2>2 DEF Known, Cleaned, TaskAt
  <2> QED BY <2>1, <2>2
<1> QED BY <1>1, <1>2, <1>3, <1>4, <1>6, <1>7, <1>8, <1>9 DEF ObserverInv, ObserverTypes

LEMMA SettledKeeps == ASSUME ObserverInv, Settled PROVE ObserverInv'
<1>1. PICK i : /\ Arrives({"settle"}, i)
               /\ helper' = [Stopped EXCEPT !.failed = helper.failed \/ wire[i].how = "fault"]
  BY DEF Settled, Stopped
<1>2. /\ wire' \in Seq(Msg) /\ Lone(sent, wire') /\ Due(sent, wire') \subseteq Due(sent, wire)
      /\ CleanFails(wire) => CleanFails(wire') \/ wire[i].how = "fault"
      /\ "settle" \in Due(sent, wire) /\ "settle" \notin Due(sent, wire')
  BY <1>1, Arrived DEF Cleaning, Solitary
<1>3. /\ UNCHANGED <<page, sent, scope, tasks, tally>> /\ helper \in Helpers
      /\ helper.stop = "clean" /\ "flush" \notin Due(sent, wire')
  <2>1. helper.stop = "clean"
    BY <1>2 DEF ObserverInv, OneAnswer, Awaited
  <2> QED BY <1>2, <2>1, NotDue DEF Settled, ObserverInv, ObserverTypes
<1> DEFINE failed == helper.failed \/ wire[i].how = "fault"
<1>4. /\ helper' \in Helpers /\ helper'.start = helper.start /\ helper'.stop = "done"
      /\ helper'.armed = helper.armed /\ helper'.failed = failed
  <2>1. failed \in BOOLEAN /\ helper' = [[helper EXCEPT !.stop = "done", !.active = FALSE]
                                          EXCEPT !.failed = failed]
    BY <1>1, <1>3 DEF Stopped, Helpers
  <2> HIDE DEF failed
  <2> QED BY <1>3, <2>1 DEF Helpers
<1>5. OneAnswer'
  <2>1. \A kind \in Due(sent, wire') : Awaited(kind) => Awaited(kind)'
    BY <1>2, <1>3, <1>4 DEF Awaited, TaskAt
  <2> QED BY <1>2, <1>3, <2>1, AnswersStay DEF Epoch
<1>6. TasksInOrder'
  BY <1>3, <1>4 DEF ObserverInv, TasksInOrder
<1>7. ScopeSound'
  BY <1>3, <1>4 DEF ObserverInv, ScopeSound
<1>8. Covered'
  BY <1>2, <1>3, <1>4 DEF ObserverInv, Covered, Known, TaskAt, Epoch
<1> QED BY <1>2, <1>3, <1>4, <1>5, <1>6, <1>7, <1>8 DEF ObserverInv, ObserverTypes

-----------------------------------------------------------------------------
(* An installation goes on. *)

LEMMA AtTask ==
  ASSUME ObserverInv, NEW pc, TaskAt(pc)
  PROVE  tasks # <<>> /\ Epoch \in Nat \ {0} /\ 1 \in DOMAIN tasks /\ tasks[1].epoch = Epoch
<1>1. tasks # <<>> /\ tasks \in Seq(Install)
  BY DEF TaskAt, ObserverInv, ObserverTypes
<1>2. 1 \in DOMAIN tasks /\ Head(tasks) = tasks[1] /\ tasks[1] \in Install
  BY <1>1
<1> QED BY <1>1, <1>2 DEF Epoch, Install

\* An installation without a command under way.
Idle(s, w) == \A kind \in Due(s, w) : kind \notin Installing

LEMMA NothingUnderWay ==
  ASSUME ObserverInv, NEW pc \in {"first", "queued", "challenge"}, TaskAt(pc)
  PROVE  Idle(sent, wire)
BY OnlyAnswer DEF Idle, TaskAt, Installing

LEMMA NothingMore ==
  ASSUME ObserverInv, NEW pc \in Installing, TaskAt(pc), NEW i, Arrives({pc}, i)
  PROVE  Idle(sent, wire')
<1>1. /\ Due(sent, wire') \subseteq Due(sent, wire) /\ wire[i].kind = pc
      /\ wire[i].kind \in Solitary => wire[i].kind \notin Due(sent, wire')
  BY Arrived
<1> QED BY <1>1, OnlyAnswer DEF Idle, TaskAt, Solitary

\* It ends, goes on, or fails the capture, and sends nothing.
LEMMA TaskMoves ==
  ASSUME ObserverInv, tasks # <<>>, Ends \/ (\E pc \in {"challenge"} : Goes(pc)),
         UNCHANGED <<page, sent>>, tally' \in Tallies,
         wire' \in Seq(Msg), Lone(sent, wire'), Due(sent, wire') \subseteq Due(sent, wire), Idle(sent, wire'),
         \/ FailObserved
         \/ /\ UNCHANGED <<scope, helper>>
            /\ CleanFails(wire) => CleanFails(wire')
            /\ ~TaskAt("evaluate")
  PROVE  ObserverInv'
<1>1. tasks' \in Seq(Install) /\ Shifted
  BY TasksEnd, TasksGo DEF ObserverInv, Shifted
<1>2. ASSUME helper'.stop = helper.stop, helper'.armed = helper.armed PROVE OneAnswer'
  <2>1. \A kind \in Due(sent, wire') : Awaited(kind) => Awaited(kind)'
    BY <1>2 DEF Awaited, Idle
  <2>2. \A kind \in Due(sent, wire') : kind \notin {"world", "evaluate"}
    BY DEF Idle, Installing
  <2> QED BY <2>1, <2>2, AnswersStay
<1>3. CASE FailObserved
  <2>1. helper'.stop = helper.stop /\ helper'.armed = helper.armed
    BY <1>1, <1>3, FailureKeeps DEF ObserverInv
  <2>2. sent' \in SUBSET Asks
    BY DEF ObserverInv, ObserverTypes
  <2> QED BY <1>1, <1>2, <1>3, <2>1, <2>2, FailsKeeps
<1>4. CASE /\ UNCHANGED <<scope, helper>>
           /\ CleanFails(wire) => CleanFails(wire')
           /\ ~TaskAt("evaluate")
  <2>1. TasksInOrder'
    BY <1>1, <1>4, StillInOrder DEF ObserverInv, ObserverTypes
  <2>2. ScopeSound'
    BY <1>4 DEF ObserverInv, ScopeSound
  <2>3. Covered'
    BY <1>4 DEF ObserverInv, Covered, Known
  <2> QED BY <1>1, <1>2, <1>4, <2>1, <2>2, <2>3 DEF ObserverInv, ObserverTypes
<1> QED BY <1>3, <1>4

\* It goes on and sends a command; what it cleans up is known by that command.
LEMMA TaskAsks ==
  ASSUME ObserverInv, tasks # <<>>, NEW c \in Asks, c.kind \in Installing, Goes(c.kind),
         UNCHANGED <<page, tally, helper>>, sent' = sent \cup {c},
         c.kind \in {"world", "evaluate"} => c.n = Epoch,
         wire' \in Seq(Msg), Lone(sent, wire'), Due(sent, wire') \subseteq Due(sent, wire), Idle(sent, wire'),
         CleanFails(wire) => CleanFails(wire'),
         scope' = scope \/ scope' = [scope EXCEPT !.retired = {}],
         \A e \in page.observing : Known(e) =>
           \/ e \in scope.retired /\ scope'.retired = scope.retired
           \/ e = scope.context \/ helper.failed \/ Cleaned(e, sent) \/ CleanFails(wire)
           \/ c.kind \in Cleaning /\ e \in c.n
  PROVE  ObserverInv'
<1>1. /\ tasks' \in Seq(Install) /\ Shifted /\ tasks' # <<>> /\ Head(tasks').pc = c.kind
      /\ Head(tasks').epoch = Epoch
  BY TasksGo DEF ObserverInv, Shifted
<1>2. /\ scope' \in Scopes /\ scope'.epoch = scope.epoch /\ scope'.evaluated = scope.evaluated
      /\ scope'.context = scope.context /\ scope'.ready = scope.ready
      /\ scope.retired = {} => scope'.retired = {}
  BY DEF ObserverInv, ObserverTypes, Scopes
<1>3. Lone(sent', wire') /\ Due(sent', wire') = Due(sent, wire') \cup {c.kind}
  <2>1. c.kind \in Solitary => c.kind \notin Due(sent, wire')
    BY DEF Idle
  <2> DEFINE w == wire'
  <2>2. Lone(sent, w) /\ (c.kind \in Solitary => c.kind \notin Due(sent, w))
    BY <2>1
  <2> HIDE DEF w
  <2>3. Lone(sent \cup {c}, w) /\ Due(sent \cup {c}, w) = Due(sent, w) \cup {c.kind}
    BY <2>2, SentOut
  <2> QED BY <2>3, Zenon DEF w
<1>4. OneAnswer'
  <2>1. \A kind \in Due(sent', wire') : Awaited(kind)'
    <3>1. TaskAt(c.kind)' /\ c.kind \in Installing
      BY <1>1 DEF TaskAt
    <3>2. \A kind \in Due(sent, wire') : Awaited(kind)'
      BY DEF ObserverInv, OneAnswer, Awaited, Idle
    <3> QED BY <1>3, <3>1, <3>2 DEF Awaited, Installing
  <2>2. \A d \in sent : d.kind \notin Installing
    BY DEF Idle, Due
  <2>3. ASSUME NEW d \in sent', d.kind \in {"world", "evaluate"} PROVE d.n = Epoch'
    BY <1>1, <2>2, <2>3 DEF Installing, Epoch
  <2>4. ASSUME NEW d \in sent', d.kind = "flush" PROVE d.n \in Nat
    BY <2>4 DEF ObserverInv, OneAnswer, Installing
  <2> QED BY <1>3, <2>1, <2>3, <2>4 DEF OneAnswer
<1>5. TasksInOrder'
  BY <1>1, <1>2, StillInOrder DEF ObserverInv, ObserverTypes
<1>6. ScopeSound'
  BY <1>2 DEF ObserverInv, ScopeSound
<1>7. Covered'
  <2> SUFFICES ASSUME NEW e \in page.observing PROVE Known(e)'
    BY DEF Covered
  <2>1. \/ e \in scope.retired /\ scope'.retired = scope.retired
        \/ e = scope.context \/ helper.failed \/ Cleaned(e, sent) \/ CleanFails(wire)
        \/ c.kind \in Cleaning /\ e \in c.n
    BY DEF ObserverInv, Covered
  <2> QED BY <1>2, <2>1 DEF Known, Cleaned
<1> QED BY <1>1, <1>2, <1>4, <1>5, <1>6, <1>7 DEF ObserverInv, ObserverTypes

LEMMA BeginKeeps == ASSUME ObserverInv, BeginInstallation PROVE ObserverInv'
<1>1. /\ UNCHANGED <<page, wire, helper, tally>> /\ wire \in Seq(Msg) /\ tally \in Tallies
      /\ Lone(sent, wire) /\ tasks # <<>> /\ ~TaskAt("evaluate")
  BY DEF BeginInstallation, ObserverInv, ObserverTypes, OneAnswer, TaskAt
<1>2. Idle(sent, wire)
  BY NothingUnderWay DEF BeginInstallation
<1>3. CASE (Ends \/ Goes("challenge")) /\ UNCHANGED <<sent, scope>>
  BY <1>1, <1>2, <1>3, TaskMoves
<1>4. CASE Goes("clean") /\ SendCleanup("clean", scope)
  <2> DEFINE c == Command("clean", scope.retired)
  <2>1. c \in Asks /\ c.kind = "clean" /\ c.n = scope.retired
    BY DEF Command, Asks, Solitary, Installing, ObserverInv, ObserverTypes, Scopes
  <2>2. sent' = sent \cup {c} /\ scope' = [scope EXCEPT !.retired = {}]
    BY <1>4 DEF SendCleanup
  <2> HIDE DEF c
  <2>3. \A e \in page.observing : Known(e) =>
           \/ e = scope.context \/ helper.failed \/ Cleaned(e, sent) \/ CleanFails(wire)
           \/ c.kind \in Cleaning /\ e \in c.n
    BY <1>1, <2>1 DEF Known, Cleaning
  <2>4. Goes(c.kind) /\ c.kind \in Installing /\ c.kind \notin {"world", "evaluate"}
    BY <1>4, <2>1 DEF Installing
  <2> QED BY <1>1, <1>2, <2>1, <2>2, <2>3, <2>4, TaskAsks
<1> QED BY <1>3, <1>4 DEF BeginInstallation

LEMMA CleanedUpKeeps == ASSUME ObserverInv, CleanedUp \/ Discarded PROVE ObserverInv'
<1>1. PICK pc \in {"clean", "discard"}, i \in DOMAIN wire :
        /\ TaskAt(pc) /\ Arrives({pc}, i) /\ UNCHANGED <<page, sent, tally>>
        /\ Ends \/ Goes("challenge")
        /\ \/ FailObserved
           \/ wire[i].how # "fault" /\ UNCHANGED <<scope, helper>>
  BY DEF CleanedUp, Discarded
<1>2. /\ wire' \in Seq(Msg) /\ Lone(sent, wire') /\ Due(sent, wire') \subseteq Due(sent, wire)
      /\ CleanFails(wire) => CleanFails(wire') \/ wire[i].how = "fault"
  BY <1>1, Arrived
<1>3. Idle(sent, wire') /\ tasks # <<>> /\ ~TaskAt("evaluate")
  BY <1>1, NothingMore DEF Installing, TaskAt
<1>4. tally' \in Tallies
  BY <1>1 DEF ObserverInv, ObserverTypes
<1> QED BY <1>1, <1>2, <1>3, <1>4, TaskMoves

LEMMA ChallengedKeeps == ASSUME ObserverInv, Challenged PROVE ObserverInv'
<1>1. /\ UNCHANGED <<page, wire>> /\ wire \in Seq(Msg) /\ TaskAt("challenge")
      /\ Lone(sent, wire) /\ tasks # <<>> /\ ~TaskAt("evaluate")
  BY DEF Challenged, ObserverInv, ObserverTypes, OneAnswer, TaskAt
<1>2. Idle(sent, wire)
  BY <1>1, NothingUnderWay
<1>3. tally' \in Tallies
  <2>1. tally \in Tallies
    BY DEF ObserverInv, ObserverTypes
  <2>2. tally' = tally \/ tally' = [tally EXCEPT !.faults = @ + 1]
    BY DEF Challenged
  <2> QED BY <2>1, <2>2 DEF Tallies
<1>4. CASE Ends /\ UNCHANGED sent /\ (FailObserved \/ UNCHANGED <<scope, helper>>)
  BY <1>1, <1>2, <1>3, <1>4, TaskMoves
<1>5. CASE Goes("world") /\ sent' = sent \cup {Command("world", Epoch)} /\ UNCHANGED <<scope, helper, tally>>
  <2> DEFINE c == Command("world", Epoch)
  <2>1. c \in Asks /\ c.kind = "world" /\ c.n = Epoch
    BY <1>1, AtTask DEF Command, Asks, Solitary, Installing
  <2>2. sent' = sent \cup {c}
    BY <1>5
  <2> HIDE DEF c
  <2>3. \A e \in page.observing : Known(e) =>
           \/ e \in scope.retired /\ scope'.retired = scope.retired
           \/ e = scope.context \/ helper.failed \/ Cleaned(e, sent) \/ CleanFails(wire)
    BY <1>1, <1>5 DEF Known
  <2>4. Goes(c.kind) /\ c.kind \in Installing
    BY <1>5, <2>1 DEF Installing
  <2> QED BY <1>1, <1>2, <1>5, <2>1, <2>2, <2>3, <2>4, TaskAsks
<1> QED BY <1>4, <1>5 DEF Challenged

\* A world that comes too late is retired, and cleaned up by the command that is sent.
LEMMA DiscardKeeps ==
  ASSUME ObserverInv, NEW pc \in {"world", "evaluate"}, TaskAt(pc), NEW i, Arrives({pc}, i),
         Discard, UNCHANGED <<page, tally>>
  PROVE  ObserverInv'
<1>1. /\ wire' \in Seq(Msg) /\ Lone(sent, wire') /\ Due(sent, wire') \subseteq Due(sent, wire)
      /\ CleanFails(wire) => CleanFails(wire')
  BY Arrived DEF Cleaning
<1>2. Idle(sent, wire') /\ tasks # <<>> /\ Epoch \in Nat \ {0}
  BY NothingMore, AtTask DEF Installing
<1> DEFINE late == scope.retired \cup {Epoch}
           c == Command("discard", late)
<1>3. scope \in Scopes /\ late \in SUBSET (Nat \ {0})
  BY <1>2 DEF ObserverInv, ObserverTypes, Scopes
<1>4. c \in Asks /\ c.kind = "discard" /\ c.n = late
  BY <1>3 DEF Command, Asks, Solitary, Installing
<1>5. sent' = sent \cup {c} /\ scope' = [scope EXCEPT !.retired = {}] /\ Goes("discard") /\ helper' = helper
  BY <1>3 DEF Discard, SendCleanup, Scopes
<1> HIDE DEF c
<1>6. \A e \in page.observing : Known(e) =>
         \/ e = scope.context \/ helper.failed \/ Cleaned(e, sent) \/ CleanFails(wire)
         \/ c.kind \in Cleaning /\ e \in c.n
  BY <1>4 DEF Known, Cleaning
<1>7. Goes(c.kind) /\ c.kind \in Installing /\ c.kind \notin {"world", "evaluate"}
  BY <1>4, <1>5 DEF Installing
<1> QED BY <1>1, <1>2, <1>4, <1>5, <1>6, <1>7, TaskAsks

LEMMA WorldMadeKeeps == ASSUME ObserverInv, WorldMade PROVE ObserverInv'
<1>1. PICK i \in DOMAIN wire :
        /\ TaskAt("world") /\ Arrives({"world"}, i) /\ UNCHANGED <<page, tally>>
        /\ \/ /\ Goes("evaluate") /\ sent' = sent \cup {Command("evaluate", Epoch)}
              /\ UNCHANGED <<scope, helper>>
           \/ Ends /\ UNCHANGED sent /\ (FailObserved \/ UNCHANGED <<scope, helper>>)
           \/ Discard
  BY DEF WorldMade
<1>2. /\ wire' \in Seq(Msg) /\ Lone(sent, wire') /\ Due(sent, wire') \subseteq Due(sent, wire)
      /\ CleanFails(wire) => CleanFails(wire')
  BY <1>1, Arrived DEF Cleaning
<1>3. Idle(sent, wire') /\ tasks # <<>> /\ ~TaskAt("evaluate") /\ tally' \in Tallies
  BY <1>1, NothingMore DEF Installing, TaskAt, ObserverInv, ObserverTypes
<1>4. CASE Ends /\ UNCHANGED sent /\ (FailObserved \/ UNCHANGED <<scope, helper>>)
  BY <1>1, <1>2, <1>3, <1>4, TaskMoves
<1>5. CASE Discard
  BY <1>1, <1>5, DiscardKeeps
<1>6. CASE /\ Goes("evaluate") /\ sent' = sent \cup {Command("evaluate", Epoch)}
           /\ UNCHANGED <<scope, helper>>
  <2> DEFINE c == Command("evaluate", Epoch)
  <2>1. c \in Asks /\ c.kind = "evaluate" /\ c.n = Epoch
    BY <1>1, AtTask DEF Command, Asks, Solitary, Installing
  <2>2. sent' = sent \cup {c}
    BY <1>6
  <2> HIDE DEF c
  <2>3. \A e \in page.observing : Known(e) =>
           \/ e \in scope.retired /\ scope'.retired = scope.retired
           \/ e = scope.context \/ helper.failed \/ Cleaned(e, sent) \/ CleanFails(wire)
    BY <1>3, <1>6 DEF Known
  <2>4. Goes(c.kind) /\ c.kind \in Installing
    BY <1>6, <2>1 DEF Installing
  <2> QED BY <1>1, <1>2, <1>3, <1>6, <2>1, <2>2, <2>3, <2>4, TaskAsks
<1> QED BY <1>1, <1>4, <1>5, <1>6

LEMMA EvaluatedKeeps == ASSUME ObserverInv, Evaluated PROVE ObserverInv'
<1>1. PICK i \in DOMAIN wire :
        /\ TaskAt("evaluate") /\ Arrives({"evaluate"}, i) /\ UNCHANGED <<page, tally>>
        /\ \/ /\ ScopeCurrent /\ Ends /\ Commit([scope EXCEPT !.evaluated = TRUE, !.context = Epoch])
              /\ UNCHANGED sent
           \/ Ends /\ UNCHANGED sent /\ FailObserved
           \/ Discard
  BY DEF Evaluated
<1>2. /\ wire' \in Seq(Msg) /\ Lone(sent, wire') /\ Due(sent, wire') \subseteq Due(sent, wire)
      /\ CleanFails(wire) => CleanFails(wire')
  BY <1>1, Arrived DEF Cleaning
<1>3. Idle(sent, wire') /\ tasks # <<>> /\ tally' \in Tallies
  BY <1>1, NothingMore DEF Installing, TaskAt, ObserverInv, ObserverTypes
<1>4. CASE Ends /\ UNCHANGED sent /\ FailObserved
  BY <1>1, <1>2, <1>3, <1>4, TaskMoves
<1>5. CASE Discard
  BY <1>1, <1>5, DiscardKeeps
<1>6. CASE /\ ScopeCurrent /\ Ends /\ Commit([scope EXCEPT !.evaluated = TRUE, !.context = Epoch])
           /\ UNCHANGED sent
  <2>1. /\ scope \in Scopes /\ helper \in Helpers /\ ScopeSound /\ ObserverTypes /\ TasksInOrder
        /\ tasks \in Seq(Install)
    BY DEF ObserverInv, ObserverTypes
  <2>2. /\ Epoch \in Nat \ {0} /\ 1 \in DOMAIN tasks /\ tasks[1].epoch = Epoch
        /\ scope.epoch = Epoch
    BY <1>1, <1>6, AtTask DEF ScopeCurrent
  <2>3. /\ ~scope.evaluated /\ helper.stop = "no" /\ helper.armed /\ scope.context = 0
        /\ ~scope.ready
    BY <1>3, <2>1, <2>2 DEF TasksInOrder, ScopeSound
  <2> DEFINE s == [scope EXCEPT !.evaluated = TRUE, !.context = Epoch]
  <2>4. /\ s \in Scopes /\ s.epoch = scope.epoch /\ s.evaluated /\ s.context = Epoch
        /\ s.retired = scope.retired /\ s.ready = scope.ready /\ s.handshake = scope.handshake
    BY <2>1, <2>2 DEF Scopes
  <2>5. Commit(s)
    BY <1>6
  <2> HIDE DEF s
  <2>6. /\ scope' \in Scopes /\ scope'.epoch = Epoch /\ scope'.evaluated
        /\ scope'.context = Epoch /\ scope'.retired = scope.retired
        /\ scope'.ready = s.handshake
        /\ helper' \in Helpers /\ helper'.armed = helper.armed /\ helper'.stop = helper.stop
        /\ helper'.failed = helper.failed /\ helper'.active = helper.active
        /\ helper'.start = IF s.handshake /\ helper.start = "waiting" THEN "running" ELSE helper.start
    BY <2>1, <2>2, <2>3, <2>4, <2>5, Commits DEF Scopes
  <2>7. tasks' \in Seq(Install) /\ \A j \in DOMAIN tasks' : j + 1 \in DOMAIN tasks /\ tasks'[j] = tasks[j + 1]
    BY <1>3, <1>6, <2>1, TasksEnd
  <2>8. TasksInOrder'
    <3>1. \A j \in DOMAIN tasks' : /\ j \in Nat \ {0} /\ j + 1 \in DOMAIN tasks
                                   /\ tasks'[j] = tasks[j + 1]
      BY <2>7
    <3>2. \A j \in DOMAIN tasks' : /\ tasks'[j].epoch \in Nat /\ tasks'[j].epoch <= scope.epoch
                                   /\ Epoch < tasks'[j].epoch
      <4> SUFFICES ASSUME NEW j \in DOMAIN tasks'
                   PROVE  /\ tasks'[j].epoch \in Nat /\ tasks'[j].epoch <= scope.epoch
                          /\ Epoch < tasks'[j].epoch
        OBVIOUS
      <4>1. j + 1 \in DOMAIN tasks /\ tasks'[j] = tasks[j + 1] /\ 1 < j + 1
        BY <3>1
      <4>2. tasks[j + 1] \in Install
        BY <2>1, <4>1
      <4> QED BY <2>1, <2>2, <4>1, <4>2 DEF TasksInOrder, Install
    <3>3. DOMAIN tasks' = {}
      <4> SUFFICES ASSUME NEW j \in DOMAIN tasks' PROVE FALSE
        OBVIOUS
      <4>1. /\ tasks'[j].epoch \in Nat /\ tasks'[j].epoch <= scope.epoch
            /\ Epoch < tasks'[j].epoch
        BY <3>2
      <4> QED BY <2>2, <4>1
    <3>4. tasks' = <<>>
      BY <2>7, <3>3
    <3> QED BY <3>3, <3>4 DEF TasksInOrder
  <2>9. ScopeSound'
    BY <2>1, <2>2, <2>3, <2>6 DEF ScopeSound
  <2>10. Covered'
    BY <1>1, <1>2, <1>6, <2>1, <2>3, <2>6 DEF ObserverInv, ObserverTypes, Pages, Covered, Known
  <2>11. OneAnswer'
    <3>1. \A kind \in Due(sent, wire') : Awaited(kind) => Awaited(kind)'
      BY <1>3, <2>6 DEF Awaited, Idle
    <3>2. \A kind \in Due(sent, wire') : kind \notin {"world", "evaluate"}
      BY <1>3 DEF Idle, Installing
    <3> QED BY <1>2, <1>6, <3>1, <3>2, AnswersStay
  <2> QED BY <1>1, <1>2, <1>3, <1>6, <2>6, <2>7, <2>8, <2>9, <2>10, <2>11 DEF ObserverInv, ObserverTypes
<1> QED BY <1>1, <1>4, <1>5, <1>6

LEMMA ObserverSteps == ASSUME ObserverInv, ObserverNext PROVE ObserverInv'
BY BrowserKeeps, CommandKeeps, FaultKeeps, FirstFrameKeeps, ArmedKeeps, NavigatedKeeps,
   HandshakeKeeps, ObservedKeeps, PostFailsKeeps, BeginKeeps, CleanedUpKeeps, ChallengedKeeps,
   WorldMadeKeeps, EvaluatedKeeps, TimeoutKeeps, StopKeepsIt, FlushedKeeps, SettleKeeps,
   SettledKeeps
DEF ObserverNext

LEMMA NoObserverLeft == ObserverInv => ObserversGone
<1> SUFFICES ASSUME ObserverInv, helper.stop = "done", ~helper.failed
             PROVE  page.observing = {} /\ tasks = <<>>
  BY DEF ObserversGone
<1>1. /\ tasks = <<>> /\ scope.retired = {} /\ ~scope.evaluated /\ scope.context = 0
  BY DEF ObserverInv, ScopeSound
<1>2. \A kind \in Due(sent, wire) : kind \notin Cleaning
  BY <1>1, NotDue DEF Cleaning, Installing
<1>3. \A e : ~Cleaned(e, sent) /\ ~CleanFails(wire)
  BY <1>2 DEF Cleaned, CleanFails, Due
<1>4. \A e \in page.observing : e # 0
  BY DEF ObserverInv, ObserverTypes, Pages
<1> QED BY <1>1, <1>3, <1>4 DEF ObserverInv, Covered, Known, TaskAt

\* A stop that ends well leaves no observer in the page and no installation to come,
\* whatever navigation, late world or answer it met, and in whichever order the
\* connection delivers: settleObserved waits for observationTail and then cleans up what
\* every retired scope left (src/mcp/browser-helper.ts).
THEOREM ObserversAreGone == ObserverSpec => []ObserversGone
<1>1. ObserverInv /\ UNCHANGED observerVars => ObserverInv'
  BY DEF ObserverInv, observerVars, ObserverTypes, OneAnswer, Awaited, TaskAt, Epoch,
         TasksInOrder, ScopeSound, Covered, Known
<1> QED BY <1>1, ObserverStarts, ObserverSteps, NoObserverLeft, PTL DEF ObserverSpec

-----------------------------------------------------------------------------
(* The events that are owed, on a wire that keeps its order. *)

Owings(w) == {i \in DOMAIN w : w[i].how = "owed"}
OwedFirst(w, epoch) ==
  \A i \in Owings(w) : /\ w[i].kind = "event" /\ w[i].n = epoch
                       /\ \A j \in 1..(i - 1) : w[j].kind \notin {"navigated", "flush"}
NoneGone(w) == \A i \in DOMAIN w : w[i].kind # "navigated"

\* The committed document is the one shown, or its observer is gone with it.
Fresh == scope.evaluated /\ scope.epoch \in page.observing => NoneGone(wire)
Aligned == \A i, j \in DOMAIN wire :
  i < j /\ wire[i].kind = "evaluate" /\ wire[i].how = "ok" /\ Epoch \in page.observing
    => wire[j].kind # "navigated"
Active == scope.evaluated => helper.active \/ helper.failed
Account == ~helper.failed =>
  /\ OwedFirst(wire, scope.epoch)
  /\ Owings(wire) # {} => scope.ready
  /\ tally.owed = tally.kept + Cardinality(Owings(wire))

KeptInv == ObserverInv /\ Fresh /\ Aligned /\ Active /\ Account

LEMMA OwingsFinite ==
  ASSUME NEW w \in Seq(Msg)
  PROVE  IsFiniteSet(Owings(w)) /\ Cardinality(Owings(w)) \in Nat
<1>1. IsFiniteSet(1..Len(w)) /\ Owings(w) \subseteq 1..Len(w)
  BY FS_Interval DEF Owings
<1> QED BY <1>1, FS_Subset, FS_CardinalityType

LEMMA OneOwed ==
  ASSUME NEW w \in Seq(Msg), NEW m \in Msg, NEW epoch, OwedFirst(w, epoch),
         m.how = "owed" => /\ m.kind = "event" /\ m.n = epoch
                           /\ \A i \in DOMAIN w : w[i].kind \notin {"navigated", "flush"}
  PROVE  /\ OwedFirst(Append(w, m), epoch)
         /\ m.how = "owed" => /\ Owings(Append(w, m)) # {}
                              /\ Cardinality(Owings(Append(w, m))) = Cardinality(Owings(w)) + 1
         /\ m.how # "owed" => Owings(Append(w, m)) = Owings(w)
<1> DEFINE v == Append(w, m)
           k == Len(w) + 1
<1>1. /\ Len(w) \in Nat /\ DOMAIN w = 1..Len(w) /\ DOMAIN v = DOMAIN w \cup {k} /\ k \notin DOMAIN w
      /\ \A i \in DOMAIN w : v[i] = w[i]
      /\ v[k] = m
  OBVIOUS
<1>2. \A i \in DOMAIN v : \A j \in 1..(i - 1) : j \in DOMAIN w
  BY <1>1
<1>3. 1..(k - 1) = DOMAIN w
  BY <1>1
<1> HIDE DEF v, k
<1>4. Owings(v) = Owings(w) \cup (IF m.how = "owed" THEN {k} ELSE {}) /\ k \notin Owings(w)
  BY <1>1 DEF Owings
<1>5. OwedFirst(v, epoch)
  <2> SUFFICES ASSUME NEW i \in Owings(v)
               PROVE  /\ v[i].kind = "event" /\ v[i].n = epoch
                      /\ \A j \in 1..(i - 1) : v[j].kind \notin {"navigated", "flush"}
    BY DEF OwedFirst
  <2>1. CASE i \in Owings(w)
    <3>1. i \in DOMAIN w /\ i \in DOMAIN v
      BY <1>1, <2>1 DEF Owings
    <3> QED BY <1>1, <1>2, <2>1, <3>1 DEF OwedFirst
  <2>2. CASE i = k /\ m.how = "owed"
    BY <1>1, <1>3, <2>2
  <2> QED BY <1>4, <2>1, <2>2
<1>6. m.how = "owed" => Cardinality(Owings(v)) = Cardinality(Owings(w)) + 1
  BY <1>4, OwingsFinite, FS_AddElement
<1> QED BY <1>4, <1>5, <1>6 DEF v

\* The first message is taken.
LEMMA FirstTaken ==
  ASSUME InOrder, wire \in Seq(Msg), NEW kinds, NEW i, Arrives(kinds, i)
  PROVE  /\ i = 1 /\ 1 \in DOMAIN wire /\ wire' \in Seq(Msg)
         /\ \A j \in DOMAIN wire' : j \in Nat \ {0} /\ j + 1 \in DOMAIN wire /\ wire'[j] = wire[j + 1]
         /\ Cardinality(Owings(wire)) =
              Cardinality(Owings(wire')) + (IF wire[1].how = "owed" THEN 1 ELSE 0)
<1>1. i = 1 /\ 1 \in DOMAIN wire /\ Len(wire) \in Nat /\ DOMAIN wire = 1..Len(wire)
  <2>1. i \in 1..Len(wire) /\ \A j \in 1..(i - 1) : FALSE
    BY DEF Arrives
  <2>2. ~(1 \in 1..(i - 1))
    BY <2>1
  <2> QED BY <2>1, <2>2
<1> DEFINE v == RemoveAt(wire, 1)
<1>2. v \in Seq(Msg) /\ DOMAIN v = 1..(Len(wire) - 1)
  BY <1>1, Removed
<1>3. \A j \in 1..(Len(wire) - 1) : v[j] = wire[IF j < 1 THEN j ELSE j + 1]
  BY <1>1, Removed
<1>4. wire' = v
  BY <1>1 DEF Arrives
<1> HIDE DEF v
<1>5. \A j \in DOMAIN v : j \in Nat \ {0} /\ j + 1 \in DOMAIN wire /\ v[j] = wire[j + 1]
  BY <1>1, <1>2, <1>3
<1> DEFINE rest == Owings(wire) \ {1}
<1>6. Cardinality(rest) = Cardinality(Owings(v))
  <2> DEFINE f == [j \in Owings(v) |-> j + 1]
  <2>1. \A j \in Owings(v) : j \in Nat /\ j + 1 \in rest
    BY <1>5 DEF Owings
  <2>2. \A l \in rest : l - 1 \in Owings(v) /\ l = (l - 1) + 1
    <3> SUFFICES ASSUME NEW l \in rest PROVE l - 1 \in Owings(v) /\ l = (l - 1) + 1
      OBVIOUS
    <3>1. l \in 2..Len(wire) /\ wire[l].how = "owed"
      BY <1>1 DEF Owings
    <3>2. l - 1 \in DOMAIN v /\ l = (l - 1) + 1
      BY <1>1, <1>2, <3>1
    <3>3. v[l - 1] = wire[l]
      BY <1>5, <3>2
    <3> QED BY <3>1, <3>2, <3>3 DEF Owings
  <2>3. f \in [Owings(v) -> rest]
    BY <2>1
  <2>4. \A j, l \in Owings(v) : f[j] = f[l] => j = l
    BY <2>1
  <2>5. \A l \in rest : \E j \in Owings(v) : f[j] = l
    BY <2>2
  <2> HIDE DEF f, rest
  <2>6. f \in Bijection(Owings(v), rest)
    BY <2>3, <2>4, <2>5 DEF Bijection, Injection, Surjection, IsInjective
  <2>7. ExistsBijection(Owings(v), rest)
    BY <2>6 DEF ExistsBijection
  <2> QED BY <1>2, <2>7, OwingsFinite, FS_Bijection
<1>7. Cardinality(Owings(wire)) = Cardinality(rest) + (IF 1 \in Owings(wire) THEN 1 ELSE 0)
  <2>1. CASE 1 \in Owings(wire)
    <3>1. IsFiniteSet(rest) /\ Owings(wire) = rest \cup {1} /\ 1 \notin rest
      BY <2>1, OwingsFinite, FS_Subset
    <3> QED BY <2>1, <3>1, FS_AddElement
  <2>2. CASE 1 \notin Owings(wire)
    <3>1. rest = Owings(wire)
      BY <2>2
    <3>2. Cardinality(Owings(wire)) \in Nat
      BY OwingsFinite
    <3> HIDE DEF rest
    <3> QED BY <2>2, <3>1, <3>2
  <2> QED BY <2>1, <2>2
<1>8. 1 \in Owings(wire) <=> wire[1].how = "owed"
  BY <1>1 DEF Owings
<1> QED BY <1>1, <1>2, <1>4, <1>5, <1>6, <1>7, <1>8

\* What a step of the helper does to the wire: nothing, or it takes the first message;
\* and one that disturbs no event owed.
Follows ==
  /\ \A j \in DOMAIN wire' : \E k \in DOMAIN wire : wire'[j] = wire[k]
  /\ \A j, l \in DOMAIN wire' : j < l =>
       \E k, m \in DOMAIN wire : k < m /\ wire'[j] = wire[k] /\ wire'[l] = wire[m]
  /\ ~helper.failed => OwedFirst(wire', scope.epoch)
  /\ Owings(wire') # {} => Owings(wire) # {}
Onward == Follows /\ (~helper.failed => Cardinality(Owings(wire')) = Cardinality(Owings(wire)))

LEMMA SameOnward == ASSUME KeptInv, wire' = wire PROVE Onward
BY DEF KeptInv, Account, Onward, Follows, OwedFirst, Owings

LEMMA FirstOnward ==
  ASSUME InOrder, KeptInv, NEW kinds, NEW i, Arrives(kinds, i)
  PROVE  Follows
<1>1. /\ \A j \in DOMAIN wire' : j \in Nat \ {0} /\ j + 1 \in DOMAIN wire /\ wire'[j] = wire[j + 1]
  BY FirstTaken DEF KeptInv, ObserverInv, ObserverTypes
<1>2. \A j, l \in DOMAIN wire' : j < l =>
              \E k, m \in DOMAIN wire : k < m /\ wire'[j] = wire[k] /\ wire'[l] = wire[m]
  <2> SUFFICES ASSUME NEW j \in DOMAIN wire', NEW l \in DOMAIN wire', j < l
               PROVE  \E k, m \in DOMAIN wire : k < m /\ wire'[j] = wire[k] /\ wire'[l] = wire[m]
    OBVIOUS
  <2>1. j + 1 \in DOMAIN wire /\ l + 1 \in DOMAIN wire /\ j + 1 < l + 1
    BY <1>1
  <2> QED BY <1>1, <2>1
<1>3. \A j \in Owings(wire') : j + 1 \in Owings(wire) /\ j \in Nat \ {0} /\ wire'[j] = wire[j + 1]
  BY <1>1 DEF Owings
<1>4. ASSUME ~helper.failed PROVE OwedFirst(wire', scope.epoch)
  <2> SUFFICES ASSUME NEW j \in Owings(wire'), NEW l \in 1..(j - 1)
               PROVE  /\ wire'[j].kind = "event" /\ wire'[j].n = scope.epoch
                      /\ wire'[l].kind \notin {"navigated", "flush"}
    <3>1. \A j \in Owings(wire') : wire'[j].kind = "event" /\ wire'[j].n = scope.epoch
      BY <1>3, <1>4 DEF KeptInv, Account, OwedFirst
    <3> QED BY <3>1 DEF OwedFirst
  <2>1. OwedFirst(wire, scope.epoch) /\ j + 1 \in Owings(wire) /\ wire'[j] = wire[j + 1]
    BY <1>3, <1>4 DEF KeptInv, Account
  <2>2. j \in DOMAIN wire' /\ wire' \in Seq(Msg)
    BY FirstTaken DEF Owings, KeptInv, ObserverInv, ObserverTypes
  <2>3. l \in DOMAIN wire' /\ l + 1 \in 1..((j + 1) - 1)
    BY <1>3, <2>2
  <2>4. wire'[l] = wire[l + 1]
    BY <1>1, <2>3
  <2> QED BY <2>1, <2>3, <2>4 DEF OwedFirst
<1> QED BY <1>1, <1>2, <1>3, <1>4 DEF Follows

\* A message that is no event is owed to nobody, and after some no event is owed.
LEMMA TakenOnward ==
  ASSUME InOrder, KeptInv, NEW kinds, "event" \notin kinds, NEW i, Arrives(kinds, i)
  PROVE  /\ Onward
         /\ kinds \subseteq {"navigated", "flush"} /\ ~helper.failed => Owings(wire) = {}
<1>1. /\ i = 1 /\ 1 \in DOMAIN wire /\ wire \in Seq(Msg) /\ wire' \in Seq(Msg)
      /\ Cardinality(Owings(wire)) =
           Cardinality(Owings(wire')) + (IF wire[1].how = "owed" THEN 1 ELSE 0)
  BY FirstTaken DEF KeptInv, ObserverInv, ObserverTypes
<1>2. wire[1].kind \in kinds
  BY <1>1 DEF Arrives
<1>3. Cardinality(Owings(wire')) \in Nat
  BY <1>1, OwingsFinite
<1>4. ASSUME ~helper.failed PROVE wire[1].how # "owed"
  BY <1>1, <1>2, <1>4 DEF KeptInv, Account, OwedFirst, Owings
<1>5. Onward
  BY <1>1, <1>3, <1>4, FirstOnward DEF Onward
<1>6. ASSUME kinds \subseteq {"navigated", "flush"}, ~helper.failed, NEW j \in Owings(wire) PROVE FALSE
  <2>1. j \in DOMAIN wire /\ wire[j].how = "owed"
    BY DEF Owings
  <2>2. j # 1 /\ j \in Nat \ {0} /\ 1 \in 1..(j - 1)
    BY <1>1, <1>4, <1>6, <2>1
  <2> QED BY <1>2, <1>6, <2>2 DEF KeptInv, Account, OwedFirst
<1> QED BY <1>5, <1>6

\* Steps of the helper: either the scope is committed no longer, and nothing is owed, or
\* it is the same, and at least as ready.
LEMMA Helps ==
  ASSUME KeptInv, ObserverInv', Follows, UNCHANGED page,
         ~helper'.failed /\ tally.owed = tally.kept + Cardinality(Owings(wire)) =>
           tally'.owed = tally'.kept + Cardinality(Owings(wire')),
         helper.failed => helper'.failed,
         (tasks # <<>> => tasks' # <<>> /\ Epoch' = Epoch) \/ Idle(sent', wire'),
         \/ ~scope'.evaluated /\ (helper'.failed \/ Owings(wire) = {})
         \/ /\ scope'.epoch = scope.epoch /\ scope'.evaluated = scope.evaluated
            /\ scope.ready => scope'.ready
            /\ scope.evaluated => helper'.failed \/ helper'.active = helper.active
  PROVE  KeptInv'
<1>1. Fresh'
  BY DEF KeptInv, Fresh, NoneGone, Follows
<1>2. Aligned'
  <2> SUFFICES ASSUME NEW i \in DOMAIN wire', NEW j \in DOMAIN wire',
                      i < j, wire'[i].kind = "evaluate", wire'[i].how = "ok",
                      Epoch' \in page.observing
               PROVE  wire'[j].kind # "navigated"
    BY DEF Aligned
  <2>1. "evaluate" \in Due(sent', wire')
    BY DEF Due
  <2>2. tasks # <<>>
    <3>1. PICK k \in DOMAIN wire : wire[k] = wire'[i]
      BY DEF Follows
    <3>2. "evaluate" \in Due(sent, wire)
      BY <3>1 DEF Due
    <3> QED BY <3>2, OnlyAnswer DEF KeptInv, Installing
  <2>3. Epoch' = Epoch
    BY <2>1, <2>2 DEF Idle, Installing
  <2>4. PICK k \in DOMAIN wire, m \in DOMAIN wire : k < m /\ wire'[i] = wire[k] /\ wire'[j] = wire[m]
    BY DEF Follows
  <2> QED BY <2>3, <2>4 DEF KeptInv, Aligned
<1>3. Active'
  BY DEF KeptInv, Active
<1>4. Account'
  <2> SUFFICES ASSUME ~helper'.failed PROVE Account'
    BY DEF Account
  <2>1. /\ OwedFirst(wire', scope.epoch)
        /\ Owings(wire') # {} => Owings(wire) # {} /\ scope.ready
        /\ tally'.owed = tally'.kept + Cardinality(Owings(wire'))
    BY DEF KeptInv, Account, Follows
  <2>2. CASE scope'.epoch = scope.epoch /\ (scope.ready => scope'.ready)
    BY <2>1, <2>2 DEF Account
  <2>3. CASE Owings(wire) = {}
    <3>1. Owings(wire') = {}
      BY <2>1, <2>3
    <3>2. OwedFirst(wire', scope'.epoch)
      BY <3>1 DEF OwedFirst
    <3> QED BY <2>1, <3>1, <3>2 DEF Account
  <2> QED BY <2>2, <2>3
<1> QED BY <1>1, <1>2, <1>3, <1>4 DEF KeptInv

LEMMA SeesNone ==
  ASSUME KeptInv, ObserverInv', Onward, UNCHANGED page,
         tally'.kept = tally.kept, tally'.owed = tally.owed,
         helper.failed => helper'.failed,
         (tasks # <<>> => tasks' # <<>> /\ Epoch' = Epoch) \/ Idle(sent', wire'),
         \/ ~scope'.evaluated /\ (helper'.failed \/ Owings(wire) = {})
         \/ /\ scope'.epoch = scope.epoch /\ scope'.evaluated = scope.evaluated
            /\ scope.ready => scope'.ready
            /\ scope.evaluated => helper'.failed \/ helper'.active = helper.active
  PROVE  KeptInv'
BY Helps DEF Onward

\* Messages put on the wire behind all others, none of them a navigation.
Later(w, v) ==
  /\ \A i \in DOMAIN w : i \in DOMAIN v /\ v[i] = w[i]
  /\ \A j \in DOMAIN v : v[j].kind = "navigated" =>
       j \in DOMAIN w /\ \A i \in DOMAIN v : i < j => i \in DOMAIN w

LEMMA PutLater ==
  ASSUME NEW w \in Seq(Msg), NEW v \in Seq(Msg), Later(w, v), NEW m \in Msg, m.kind # "navigated"
  PROVE  Later(w, Append(v, m))
<1> DEFINE u == Append(v, m)
<1>1. /\ Len(v) \in Nat /\ DOMAIN v = 1..Len(v) /\ DOMAIN u = 1..(Len(v) + 1)
      /\ \A i \in DOMAIN v : u[i] = v[i]
      /\ u[Len(v) + 1] = m
  OBVIOUS
<1> HIDE DEF u
<1>2. \A i \in DOMAIN w : i \in DOMAIN u /\ u[i] = w[i]
  BY <1>1 DEF Later
<1>3. ASSUME NEW j \in DOMAIN u, u[j].kind = "navigated", NEW i \in DOMAIN u, i < j
      PROVE  j \in DOMAIN w /\ i \in DOMAIN w
  <2>1. j \in DOMAIN v /\ u[j] = v[j] /\ i \in DOMAIN v
    BY <1>1, <1>3
  <2> QED BY <1>3, <2>1 DEF Later
<1>4. ASSUME NEW j \in DOMAIN u, u[j].kind = "navigated" PROVE j \in DOMAIN w
  <2>1. j \in DOMAIN v /\ u[j] = v[j]
    BY <1>1, <1>4
  <2> QED BY <1>4, <2>1 DEF Later
<1> QED BY <1>2, <1>3, <1>4 DEF Later, u

AccountOf(w, owed) == ~helper.failed =>
  /\ OwedFirst(w, scope.epoch)
  /\ Owings(w) # {} => scope.ready
  /\ owed = tally.kept + Cardinality(Owings(w))

LEMMA PlainMessage ==
  ASSUME NEW w \in Seq(Msg), NEW owed, AccountOf(w, owed), NEW m \in Msg, m.how # "owed"
  PROVE  AccountOf(Append(w, m), owed)
BY OneOwed DEF AccountOf

LEMMA EventMessage ==
  ASSUME KeptInv, NEW epoch \in page.observing
  PROVE  /\ Event(epoch) \in Msg /\ Event(epoch).kind = "event"
         /\ AccountOf(Append(wire, Event(epoch)), Caused(epoch).owed)
         /\ Caused(epoch).kept = tally.kept
<1>1. /\ page \in Pages /\ wire \in Seq(Msg) /\ tally \in Tallies /\ epoch \in Nat
      /\ tally.owed \in Nat /\ tally.kept \in Nat
  BY DEF KeptInv, ObserverInv, ObserverTypes, Pages, Tallies
<1> DEFINE m == Event(epoch)
<1>2. /\ m \in Msg /\ m.kind = "event" /\ m.n = epoch
      /\ m.how = IF Owed(epoch) THEN "owed" ELSE "ok"
  BY <1>1 DEF Event, Msg
<1> HIDE DEF m
<1>3. /\ Caused(epoch).kept = tally.kept
      /\ Caused(epoch).owed = tally.owed + (IF Owed(epoch) THEN 1 ELSE 0)
  BY <1>1, CausedTally
<1>4. AccountOf(Append(wire, m), Caused(epoch).owed)
  <2> SUFFICES ASSUME ~helper.failed PROVE AccountOf(Append(wire, m), Caused(epoch).owed)
    BY DEF AccountOf
  <2>1. /\ OwedFirst(wire, scope.epoch)
        /\ Owings(wire) # {} => scope.ready
        /\ tally.owed = tally.kept + Cardinality(Owings(wire))
        /\ Cardinality(Owings(wire)) \in Nat
    BY <1>1, OwingsFinite DEF KeptInv, Account
  <2>2. CASE Owed(epoch)
    <3>1. scope.ready /\ scope.epoch = epoch /\ scope.evaluated
      BY <2>2 DEF Owed, KeptInv, ObserverInv, ScopeSound
    <3>2. NoneGone(wire)
      BY <3>1 DEF KeptInv, Fresh
    <3>3. \A i \in DOMAIN wire : wire[i].kind # "flush"
      <4>1. CASE helper.stop = "no"
        <5>1. "flush" \notin Due(sent, wire)
          BY <4>1, NotDue DEF KeptInv
        <5> QED BY <5>1 DEF Due
      <4>2. CASE \E c \in sent : c.kind = "flush"
        BY <4>2 DEF KeptInv, ObserverInv, OneAnswer, Lone, Solitary
      <4> QED BY <2>2, <4>1, <4>2 DEF Owed, BeforeFlush
    <3>4. \A i \in DOMAIN wire : wire[i].kind \notin {"navigated", "flush"}
      BY <3>2, <3>3 DEF NoneGone
    <3>5. /\ OwedFirst(Append(wire, m), scope.epoch)
          /\ Cardinality(Owings(Append(wire, m))) = Cardinality(Owings(wire)) + 1
      BY <1>1, <1>2, <2>1, <2>2, <3>1, <3>4, OneOwed
    <3>6. Caused(epoch).owed = tally.owed + 1
      BY <1>3, <2>2
    <3> QED BY <1>1, <2>1, <3>1, <3>5, <3>6 DEF AccountOf
  <2>3. CASE ~Owed(epoch)
    <3>1. m.how # "owed" /\ Caused(epoch).owed = tally.owed
      BY <1>1, <1>2, <1>3, <2>3
    <3>2. AccountOf(wire, tally.owed)
      BY <2>1 DEF AccountOf
    <3> QED BY <1>1, <1>2, <3>1, <3>2, PlainMessage
  <2> QED BY <2>2, <2>3
<1> QED BY <1>2, <1>3, <1>4 DEF m

\* The helper has not seen it, and its accounts still agree.
LEMMA LaterKept ==
  ASSUME KeptInv, ObserverInv', UNCHANGED <<scope, tasks, helper>>, Later(wire, wire'),
         \A e \in page'.observing :
           \/ e \in page.observing
           \/ TaskAt("evaluate") /\ Epoch = e /\ \A i \in DOMAIN wire : wire[i].kind # "evaluate",
         tally'.kept = tally.kept, AccountOf(wire', tally'.owed)
  PROVE  KeptInv'
<1>1. Fresh'
  <2> SUFFICES ASSUME scope.evaluated, scope.epoch \in page'.observing PROVE NoneGone(wire')
    BY DEF Fresh, NoneGone
  <2>1. CASE scope.epoch \in page.observing
    BY <2>1 DEF KeptInv, Fresh, NoneGone, Later
  <2>2. CASE TaskAt("evaluate") /\ Epoch = scope.epoch
    <3>1. 1 \in DOMAIN tasks /\ tasks[1].epoch = scope.epoch
      BY <2>2, AtTask DEF KeptInv
    <3> QED BY <3>1 DEF KeptInv, ObserverInv, TasksInOrder
  <2> QED BY <2>1, <2>2
<1>2. Aligned'
  <2> SUFFICES ASSUME NEW i \in DOMAIN wire', NEW j \in DOMAIN wire',
                      i < j, wire'[i].kind = "evaluate", wire'[i].how = "ok",
                      Epoch \in page'.observing, wire'[j].kind = "navigated"
               PROVE  FALSE
    BY DEF Aligned, Epoch
  <2>1. j \in DOMAIN wire /\ i \in DOMAIN wire /\ wire[i] = wire'[i] /\ wire[j] = wire'[j]
    BY DEF Later
  <2>2. Epoch \in page.observing
    BY <2>1
  <2> QED BY <2>1, <2>2 DEF KeptInv, Aligned
<1>3. Active'
  BY DEF KeptInv, Active
<1>4. Account'
  BY DEF Account, AccountOf
<1> QED BY <1>1, <1>2, <1>3, <1>4 DEF KeptInv

\* The browser sends an event, an answer, or both.
LEMMA EventsKeep == ASSUME KeptInv, ObserverInv', Navigate \/ UserEvent PROVE KeptInv'
<1>1. wire \in Seq(Msg) /\ page \in Pages /\ Later(wire, wire) /\ AccountOf(wire, tally.owed)
  BY DEF KeptInv, ObserverInv, ObserverTypes, Later, Account, AccountOf
<1>2. CASE UserEvent
  <2>1. PICK epoch \in page.observing : wire' = Append(wire, Event(epoch)) /\ tally' = Caused(epoch)
    BY <1>2 DEF UserEvent
  <2>2. UNCHANGED <<page, scope, tasks, helper>>
    BY <1>2 DEF UserEvent
  <2>3. /\ Event(epoch) \in Msg /\ Event(epoch).kind = "event"
        /\ AccountOf(Append(wire, Event(epoch)), Caused(epoch).owed)
        /\ Caused(epoch).kept = tally.kept
    BY EventMessage
  <2>4. Later(wire, Append(wire, Event(epoch)))
    BY <1>1, <2>3, PutLater
  <2>5. Later(wire, wire') /\ tally'.kept = tally.kept /\ AccountOf(wire', tally'.owed)
    BY <2>1, <2>3, <2>4, Zenon
  <2> QED BY <2>2, <2>5, LaterKept
<1>3. CASE Navigate
  <2> DEFINE m == [kind |-> "navigated", n |-> page.shown + 1, how |-> "ok"]
  <2>1. wire' = Append(wire, m) /\ page'.observing = {} /\ UNCHANGED <<scope, tasks, helper, tally>>
    BY <1>3 DEF Navigate
  <2>2. m \in Msg /\ m.how # "owed"
    BY <1>1 DEF Msg, Pages
  <2> HIDE DEF m
  <2>3. AccountOf(Append(wire, m), tally.owed)
    BY <1>1, <2>2, PlainMessage
  <2>4. Account'
    BY <2>1, <2>3 DEF Account, AccountOf
  <2>5. Fresh' /\ Aligned'
    BY <2>1 DEF Fresh, Aligned
  <2>6. Active'
    BY <2>1 DEF KeptInv, Active
  <2> QED BY <2>4, <2>5, <2>6 DEF KeptInv
<1> QED BY <1>2, <1>3

LEMMA AnswersKeep ==
  ASSUME KeptInv, ObserverInv', RunCommand \/ CommandFails PROVE KeptInv'
<1>1. /\ wire \in Seq(Msg) /\ page \in Pages /\ Later(wire, wire) /\ AccountOf(wire, tally.owed)
      /\ tally \in Tallies /\ ObserverInv /\ Lone(sent, wire)
  BY DEF KeptInv, ObserverInv, ObserverTypes, OneAnswer, Later, Account, AccountOf
<1>2. UNCHANGED <<scope, tasks, helper>>
  BY DEF RunCommand, CommandFails
<1>3. ASSUME NEW w \in Seq(Msg), Later(wire, w), AccountOf(w, tally'.owed), NEW m, wire' = Append(w, m),
             m.kind # "navigated", m.how # "owed", tally'.kept = tally.kept,
             \A e \in page'.observing :
               \/ e \in page.observing
               \/ TaskAt("evaluate") /\ Epoch = e /\ \A i \in DOMAIN wire : wire[i].kind # "evaluate"
      PROVE  KeptInv'
  <2>1. m \in Msg
    <3>1. wire' \in Seq(Msg)
      BY DEF ObserverInv, ObserverTypes
    <3>2. Len(w) + 1 \in DOMAIN wire' /\ wire'[Len(w) + 1] = m
      BY <1>3
    <3> QED BY <3>1, <3>2
  <2>2. Later(wire, Append(w, m)) /\ AccountOf(Append(w, m), tally'.owed)
    BY <1>1, <1>3, <2>1, PutLater, PlainMessage
  <2>3. Later(wire, wire') /\ AccountOf(wire', tally'.owed)
    BY <1>3, <2>2
  <2> QED BY <1>2, <1>3, <2>3, LaterKept
<1>4. CASE CommandFails
  <2>1. PICK c \in sent : wire' = Append(wire, Answered([c EXCEPT !.n = 0], "fault"))
    BY <1>4 DEF CommandFails
  <2> DEFINE m == Answered([c EXCEPT !.n = 0], "fault")
  <2>2. c \in Asks
    BY <1>1 DEF ObserverInv, ObserverTypes
  <2>3. m.kind # "navigated" /\ m.how # "owed" /\ wire' = Append(wire, m)
    BY <2>1, <2>2 DEF Answered, Asks, Solitary, Installing
  <2> HIDE DEF m
  <2>4. page' = page /\ tally'.kept = tally.kept /\ tally'.owed = tally.owed
    BY <1>1, <1>4 DEF CommandFails, Tallies
  <2> QED BY <1>1, <1>3, <2>3, <2>4
<1>5. CASE RunCommand
  <2>1. PICK c \in sent :
        /\ \/ c.kind = "tree" /\ RunTree(c)
           \/ c.kind = "world" /\ RunWorld(c)
           \/ c.kind = "evaluate" /\ RunEvaluate(c)
           \/ c.kind = "flush" /\ RunFlush(c)
           \/ c.kind \in {"clean", "discard", "settle"} /\ RunCleanup(c)
    BY <1>5 DEF RunCommand
  <2>2. c \in Asks /\ c.kind # "navigated"
    BY <1>1 DEF ObserverInv, ObserverTypes, Asks, Solitary, Installing
  <2>3. ASSUME NEW d, d \in {c, [c EXCEPT !.n = page.shown], [c EXCEPT !.n = 0]},
               NEW how \in {"ok", "stale"}
        PROVE  Answered(d, how).kind # "navigated" /\ Answered(d, how).how # "owed"
    BY <2>2, <2>3 DEF Answered, Asks
  <2>4. CASE RunTree(c)
    <3> DEFINE m == Answered([c EXCEPT !.n = page.shown], "ok")
    <3>1. wire' = Append(wire, m) /\ UNCHANGED <<page, tally>>
      BY <2>4 DEF RunTree
    <3>2. m.kind # "navigated" /\ m.how # "owed"
      BY <2>3
    <3> HIDE DEF m
    <3> QED BY <1>1, <1>3, <3>1, <3>2
  <2>5. CASE RunWorld(c)
    <3> DEFINE m == Answered(c, "ok")
    <3>1. wire' = Append(wire, m) /\ page'.observing = page.observing /\ tally' = tally
      BY <1>1, <2>5 DEF RunWorld, Pages
    <3>2. m.kind # "navigated" /\ m.how # "owed"
      BY <2>3
    <3> HIDE DEF m
    <3> QED BY <1>1, <1>3, <3>1, <3>2
  <2>6. CASE c.kind = "evaluate" /\ RunEvaluate(c)
    <3>1. tally' = tally
      BY <2>6 DEF RunEvaluate
    <3>2. /\ TaskAt("evaluate") /\ c.n = Epoch
          /\ \A i \in DOMAIN wire : wire[i].kind # "evaluate"
      <4>1. "evaluate" \in Due(sent, wire)
        BY <2>6 DEF Due
      <4> QED BY <1>1, <2>6, <4>1 DEF ObserverInv, OneAnswer, Awaited, Installing, Solitary, Lone
    <3>3. CASE c.n \in page.worlds
      <4> DEFINE a == [kind |-> "ready", n |-> c.n, how |-> "ok"]
                 m == Answered(c, "ok")
                 w == Append(wire, a)
      <4>1. c.n \in Nat
        BY <1>1, <3>3 DEF Pages
      <4>2. a \in Msg /\ a.kind # "navigated" /\ a.how # "owed"
        BY <4>1 DEF Msg
      <4>3. wire' = wire \o <<a, m>>
        BY <2>6, <3>3 DEF RunEvaluate
      <4>4. m.kind # "navigated" /\ m.how # "owed"
        BY <2>3
      <4>5. m \in Msg
        BY <2>2, <4>1, <4>4 DEF Answered, Msg, Asks
      <4> HIDE DEF a, m
      <4>6. w \in Seq(Msg) /\ wire' = Append(w, m)
        BY <1>1, <4>2, <4>3, <4>5
      <4>7. Later(wire, w) /\ AccountOf(w, tally'.owed)
        BY <1>1, <3>1, <4>2, PutLater, PlainMessage
      <4> HIDE DEF w
      <4>8. page'.observing = page.observing \cup {c.n}
        BY <1>1, <2>6, <3>3 DEF RunEvaluate, Pages
      <4> QED BY <1>3, <3>1, <3>2, <4>4, <4>6, <4>7, <4>8
    <3>4. CASE c.n \notin page.worlds
      <4> DEFINE m == Answered(c, "stale")
      <4>1. wire' = Append(wire, m) /\ page' = page
        BY <2>6, <3>4 DEF RunEvaluate
      <4>2. m.kind # "navigated" /\ m.how # "owed"
        BY <2>3
      <4> HIDE DEF m
      <4> QED BY <1>1, <1>3, <3>1, <4>1, <4>2
    <3> QED BY <3>3, <3>4
  <2>7. CASE c.kind = "flush" /\ RunFlush(c)
    <3> DEFINE m == Answered(c, "ok")
    <3>1. page' = page
      BY <2>7 DEF RunFlush
    <3>2. m.kind # "navigated" /\ m.how # "owed"
      BY <2>3
    <3>3. CASE wire' = Append(wire, Answered(c, "ok")) /\ UNCHANGED tally
      <4>1. wire' = Append(wire, m) /\ tally' = tally
        BY <3>3
      <4> HIDE DEF m
      <4> QED BY <1>1, <1>3, <3>1, <3>2, <4>1
    <3>4. CASE /\ c.n \in page.observing
               /\ wire' = wire \o <<Event(c.n), Answered(c, "ok")>> /\ tally' = Caused(c.n)
      <4> DEFINE a == Event(c.n)
                 w == Append(wire, a)
      <4>1. /\ a \in Msg /\ a.kind = "event" /\ AccountOf(w, Caused(c.n).owed)
            /\ Caused(c.n).kept = tally.kept
        BY <3>4, EventMessage
      <4>2. wire' = wire \o <<a, m>>
        BY <3>4
      <4>3. m \in Msg
        BY <1>1, <2>2, <3>2, <3>4 DEF Answered, Msg, Asks, Pages
      <4> HIDE DEF a, m
      <4>4. w \in Seq(Msg) /\ wire' = Append(w, m)
        BY <1>1, <4>1, <4>2, <4>3
      <4>5. Later(wire, w)
        BY <1>1, <4>1, PutLater
      <4>6. AccountOf(w, tally'.owed) /\ tally'.kept = tally.kept
        BY <3>4, <4>1
      <4> HIDE DEF w
      <4> QED BY <1>3, <3>1, <3>2, <4>4, <4>5, <4>6
    <3> QED BY <2>7, <3>3, <3>4 DEF RunFlush
  <2>8. CASE RunCleanup(c)
    <3> DEFINE m == Answered([c EXCEPT !.n = 0], "ok")
    <3>1. wire' = Append(wire, m) /\ page'.observing = page.observing \ c.n /\ tally' = tally
      BY <1>1, <2>8 DEF RunCleanup, Pages
    <3>2. m.kind # "navigated" /\ m.how # "owed"
      BY <2>3
    <3> HIDE DEF m
    <3> QED BY <1>1, <1>3, <3>1, <3>2
  <2> QED BY <2>1, <2>4, <2>5, <2>6, <2>7, <2>8
<1> QED BY <1>4, <1>5

-----------------------------------------------------------------------------
(* The helper, from its first frame to the end of its stop. *)

LEMMA KeptStarts == ObserverInit => KeptInv
<1> SUFFICES ASSUME ObserverInit PROVE KeptInv
  OBVIOUS
<1>1. wire = <<>> /\ ~scope.evaluated /\ tally.owed = 0 /\ tally.kept = 0
  BY DEF ObserverInit, NoScope
<1>2. Owings(wire) = {}
  BY <1>1 DEF Owings
<1>3. Cardinality(Owings(wire)) = 0
  BY <1>2, FS_EmptySet
<1>4. Account
  BY <1>1, <1>2, <1>3 DEF Account, OwedFirst
<1> QED BY <1>1, <1>4, ObserverStarts DEF KeptInv, Fresh, Aligned, Active

\* Before an observer is ready nothing is owed.
LEMMA NoneReady ==
  ASSUME KeptInv, ~scope.evaluated PROVE helper.failed \/ Owings(wire) = {}
BY DEF KeptInv, Account, ObserverInv, ScopeSound

LEMMA FailedScope ==
  ASSUME KeptInv, FailObserved PROVE ~scope'.evaluated /\ helper'.failed
BY DEF FailObserved, Replaced, KeptInv, ObserverInv, ObserverTypes, Helpers

\* A capture that fails owes nothing.
LEMMA FailureKept ==
  ASSUME KeptInv, ObserverInv', Onward, FailObserved, UNCHANGED page,
         tally'.kept = tally.kept, tally'.owed = tally.owed,
         (tasks # <<>> => tasks' # <<>> /\ Epoch' = Epoch) \/ Idle(sent', wire')
  PROVE  KeptInv'
BY FailedScope, SeesNone

\* What leaves the scope committed, and what begins another when nothing is owed.
LEMMA SameScopeKept ==
  ASSUME KeptInv, ObserverInv', Onward, UNCHANGED <<page, helper>>,
         scope'.epoch = scope.epoch, scope'.evaluated = scope.evaluated, scope'.ready = scope.ready,
         tally'.kept = tally.kept, tally'.owed = tally.owed,
         (tasks # <<>> => tasks' # <<>> /\ Epoch' = Epoch) \/ Idle(sent', wire')
  PROVE  KeptInv'
BY SeesNone

LEMMA ReplacedKept ==
  ASSUME KeptInv, ObserverInv', Onward, UNCHANGED page, NEW doc, scope' = Replaced(scope, doc),
         helper.failed => helper'.failed, helper.failed \/ Owings(wire) = {},
         tally'.kept = tally.kept, tally'.owed = tally.owed,
         (tasks # <<>> => tasks' # <<>> /\ Epoch' = Epoch) \/ Idle(sent', wire')
  PROVE  KeptInv'
<1>1. ~scope'.evaluated
  BY DEF Replaced
<1> QED BY <1>1, SeesNone

LEMMA TaskAppended ==
  ASSUME ObserverInv, NEW t, tasks' = Append(tasks, t)
  PROVE  tasks # <<>> => tasks' # <<>> /\ Epoch' = Epoch
<1> SUFFICES ASSUME tasks # <<>> PROVE tasks' # <<>> /\ Epoch' = Epoch
  OBVIOUS
<1>1. tasks \in Seq(Install)
  BY DEF ObserverInv, ObserverTypes
<1>2. Append(tasks, t) # <<>> /\ Head(Append(tasks, t)) = Head(tasks)
  BY <1>1
<1> QED BY <1>2 DEF Epoch

LEMMA FirstFrameKept == ASSUME KeptInv, ObserverInv', FirstFrame PROVE KeptInv'
<1>1. UNCHANGED <<page, wire, scope, tasks, helper, tally>> /\ Epoch' = Epoch
  BY DEF FirstFrame, Epoch
<1> QED BY <1>1, SameOnward, SameScopeKept

LEMMA ArmedKept == ASSUME InOrder, KeptInv, ObserverInv', Armed PROVE KeptInv'
<1>1. PICK i : /\ Arrives({"tree"}, i) /\ UNCHANGED <<page, tally>>
               /\ \/ /\ scope' = Replaced(scope, wire[i].n) /\ helper' = [helper EXCEPT !.armed = TRUE]
                     /\ tasks' = Append(tasks, [Installation(wire[i].n) EXCEPT !.pc = "first"])
                  \/ FailObserved /\ UNCHANGED tasks
  BY DEF Armed
<1>2. Onward
  BY <1>1, TakenOnward
<1>3. CASE FailObserved /\ UNCHANGED tasks
  BY <1>1, <1>2, <1>3, FailureKept DEF Epoch
<1>4. CASE /\ scope' = Replaced(scope, wire[i].n) /\ helper' = [helper EXCEPT !.armed = TRUE]
           /\ tasks' = Append(tasks, [Installation(wire[i].n) EXCEPT !.pc = "first"])
  <2>1. helper'.failed = helper.failed
    BY <1>4 DEF KeptInv, ObserverInv, ObserverTypes, Helpers
  <2>2. ~helper.armed
    <3>1. "tree" \in Due(sent, wire)
      BY <1>1, Arrived DEF KeptInv
    <3> QED BY <3>1 DEF KeptInv, ObserverInv, OneAnswer, Awaited
  <2>3. helper.failed \/ Owings(wire) = {}
    BY <2>2, NoneReady DEF KeptInv, ObserverInv, ScopeSound
  <2>4. tasks # <<>> => tasks' # <<>> /\ Epoch' = Epoch
    BY <1>4, TaskAppended DEF KeptInv
  <2> QED BY <1>1, <1>2, <1>4, <2>1, <2>3, <2>4, ReplacedKept
<1> QED BY <1>1, <1>3, <1>4

LEMMA NavigatedKept == ASSUME InOrder, KeptInv, ObserverInv', Navigated PROVE KeptInv'
<1>1. PICK i : /\ Arrives({"navigated"}, i) /\ UNCHANGED <<page, sent, tally>>
               /\ \/ UNCHANGED <<scope, tasks, helper>>
                  \/ scope' = [scope EXCEPT !.target = wire[i].n] /\ UNCHANGED <<tasks, helper>>
                  \/ FailObserved /\ UNCHANGED tasks
                  \/ /\ scope' = Replaced(scope, wire[i].n)
                     /\ tasks' = Append(tasks, Installation(wire[i].n))
                     /\ UNCHANGED helper
  BY DEF Navigated
<1>2. Onward /\ (helper.failed \/ Owings(wire) = {})
  BY <1>1, TakenOnward
<1>3. CASE UNCHANGED <<scope, tasks, helper>>
  BY <1>1, <1>2, <1>3, SameScopeKept DEF Epoch
<1>4. CASE scope' = [scope EXCEPT !.target = wire[i].n] /\ UNCHANGED <<tasks, helper>>
  <2>1. scope'.epoch = scope.epoch /\ scope'.evaluated = scope.evaluated /\ scope'.ready = scope.ready
    BY <1>4 DEF KeptInv, ObserverInv, ObserverTypes, Scopes
  <2> QED BY <1>1, <1>2, <1>4, <2>1, SameScopeKept DEF Epoch
<1>5. CASE FailObserved /\ UNCHANGED tasks
  BY <1>1, <1>2, <1>5, FailureKept DEF Epoch
<1>6. CASE /\ scope' = Replaced(scope, wire[i].n)
           /\ tasks' = Append(tasks, Installation(wire[i].n)) /\ UNCHANGED helper
  <2>1. tasks # <<>> => tasks' # <<>> /\ Epoch' = Epoch
    BY <1>6, TaskAppended DEF KeptInv
  <2> QED BY <1>1, <1>2, <1>6, <2>1, ReplacedKept
<1> QED BY <1>1, <1>3, <1>4, <1>5, <1>6

LEMMA HandshakeKept == ASSUME InOrder, KeptInv, ObserverInv', Handshake PROVE KeptInv'
<1>1. PICK i : /\ Arrives({"ready"}, i)
               /\ Commit([scope EXCEPT !.handshake = TRUE]) \/ UNCHANGED <<scope, helper>>
  BY DEF Handshake
<1>2. UNCHANGED <<page, sent, tasks, tally>>
  BY DEF Handshake
<1>3. Onward
  BY <1>1, TakenOnward
<1>4. CASE UNCHANGED <<scope, helper>>
  BY <1>2, <1>3, <1>4, SameScopeKept DEF Epoch
<1>5. CASE Commit([scope EXCEPT !.handshake = TRUE])
  <2> DEFINE s == [scope EXCEPT !.handshake = TRUE]
  <2>1. /\ s \in Scopes /\ s.epoch = scope.epoch /\ s.evaluated = scope.evaluated
        /\ s.ready = scope.ready /\ helper \in Helpers
    BY DEF KeptInv, ObserverInv, ObserverTypes, Scopes
  <2>2. Commit(s)
    BY <1>5
  <2> HIDE DEF s
  <2>3. /\ scope'.epoch = scope.epoch /\ scope'.evaluated = scope.evaluated
        /\ scope.ready => scope'.ready
        /\ helper'.failed = helper.failed /\ helper'.active = helper.active
    BY <2>1, <2>2, Commits
  <2> QED BY <1>2, <1>3, <2>3, SeesNone DEF Epoch
<1> QED BY <1>1, <1>4, <1>5

LEMMA PostFailsKept == ASSUME KeptInv, ObserverInv', PostFails PROVE KeptInv'
<1>1. /\ FailObserved /\ UNCHANGED <<page, wire, sent, tasks>>
      /\ tally' = [tally EXCEPT !.faults = @ + 1]
  BY DEF PostFails
<1>2. tally'.kept = tally.kept /\ tally'.owed = tally.owed
  BY <1>1 DEF KeptInv, ObserverInv, ObserverTypes, Tallies
<1> QED BY <1>1, <1>2, SameOnward, FailureKept DEF Epoch

LEMMA ObservedKept == ASSUME InOrder, KeptInv, ObserverInv', Observed PROVE KeptInv'
<1>1. PICK i : /\ Arrives({"event"}, i)
               /\ IF ~helper.active \/ wire[i].n # scope.epoch THEN UNCHANGED <<scope, helper, tally>>
                  ELSE IF scope.ready
                  THEN /\ tally' = [tally EXCEPT !.posted = @ + 1,
                                                 !.kept = @ + (IF wire[i].how = "owed" THEN 1 ELSE 0)]
                       /\ UNCHANGED <<scope, helper>>
                  ELSE FailObserved /\ UNCHANGED tally
  BY DEF Observed
<1>2. /\ i = 1 /\ 1 \in DOMAIN wire /\ wire' \in Seq(Msg)
      /\ Cardinality(Owings(wire)) =
           Cardinality(Owings(wire')) + (IF wire[1].how = "owed" THEN 1 ELSE 0)
      /\ Cardinality(Owings(wire')) \in Nat
      /\ Follows
  BY <1>1, FirstTaken, FirstOnward, OwingsFinite DEF KeptInv, ObserverInv, ObserverTypes
<1>3. UNCHANGED <<page, sent, tasks>> /\ Epoch' = Epoch
  BY DEF Observed, Epoch
<1>4. tally \in Tallies /\ tally.kept \in Nat /\ tally.posted \in Nat /\ tally.owed \in Nat
  BY DEF KeptInv, ObserverInv, ObserverTypes, Tallies
<1>5. CASE UNCHANGED <<scope, helper>>
  <2>1. ASSUME ~helper.failed, tally.owed = tally.kept + Cardinality(Owings(wire))
        PROVE  tally'.owed = tally'.kept + Cardinality(Owings(wire'))
    <3>1. CASE wire[1].how = "owed"
      <4>1. 1 \in Owings(wire)
        BY <1>2, <3>1 DEF Owings
      <4>2. wire[1].n = scope.epoch /\ scope.ready /\ scope.evaluated
        BY <2>1, <4>1 DEF KeptInv, Account, OwedFirst, ObserverInv, ScopeSound
      <4>3. helper.active
        BY <2>1, <4>2 DEF KeptInv, Active
      <4>4. tally' = [tally EXCEPT !.posted = @ + 1, !.kept = @ + 1]
        BY <1>1, <1>2, <3>1, <4>2, <4>3
      <4>5. tally'.kept = tally.kept + 1 /\ tally'.owed = tally.owed
        BY <1>4, <4>4 DEF Tallies
      <4> QED BY <1>2, <1>4, <2>1, <3>1, <4>5
    <3>2. CASE wire[1].how # "owed"
      <4>1. tally' = tally \/ tally' = [tally EXCEPT !.posted = @ + 1, !.kept = @ + 0]
        BY <1>1, <1>2, <1>5, <3>2
      <4>2. tally' = tally => tally'.kept = tally.kept /\ tally'.owed = tally.owed
        OBVIOUS
      <4>3. ASSUME tally' = [tally EXCEPT !.posted = @ + 1, !.kept = @ + 0]
            PROVE  tally'.kept = tally.kept + 0 /\ tally'.owed = tally.owed
        BY <1>4, <4>3, Zenon DEF Tallies
      <4>4. tally'.kept = tally.kept /\ tally'.owed = tally.owed
        BY <1>4, <4>1, <4>2, <4>3
      <4> QED BY <1>2, <1>4, <2>1, <3>2, <4>4
    <3> QED BY <3>1, <3>2
  <2> QED BY <1>2, <1>3, <1>5, <2>1, Helps
<1>6. CASE FailObserved
  BY <1>2, <1>3, <1>6, FailedScope, Helps
<1> QED BY <1>1, <1>5, <1>6

-----------------------------------------------------------------------------
(* The installations. *)

LEMMA GoesOn ==
  ASSUME ObserverInv, tasks # <<>>, NEW pc \in {"first", "queued", "challenge"} \cup Installing, Goes(pc)
  PROVE  tasks' # <<>> /\ Epoch' = Epoch
BY TasksGo DEF ObserverInv, Epoch

LEMMA BeginKept == ASSUME KeptInv, ObserverInv', BeginInstallation PROVE KeptInv'
<1>1. /\ UNCHANGED <<page, wire, helper, tally>> /\ tasks # <<>> /\ Onward /\ ObserverInv
      /\ Idle(sent, wire)
  BY NothingUnderWay, SameOnward DEF BeginInstallation, TaskAt, KeptInv
<1>2. scope'.epoch = scope.epoch /\ scope'.evaluated = scope.evaluated /\ scope'.ready = scope.ready
  BY DEF BeginInstallation, SendCleanup, KeptInv, ObserverInv, ObserverTypes, Scopes
<1>3. CASE Goes("challenge") \/ Goes("clean")
  <2>1. tasks' # <<>> /\ Epoch' = Epoch
    BY <1>1, <1>3, GoesOn DEF Installing
  <2> QED BY <1>1, <1>2, <2>1, SameScopeKept
<1>4. CASE UNCHANGED sent
  BY <1>1, <1>2, <1>4, SameScopeKept
<1> QED BY <1>3, <1>4 DEF BeginInstallation

LEMMA CleanedUpKept ==
  ASSUME InOrder, KeptInv, ObserverInv', CleanedUp \/ Discarded PROVE KeptInv'
<1>1. PICK pc \in {"clean", "discard"}, i \in DOMAIN wire :
        /\ TaskAt(pc) /\ Arrives({pc}, i) /\ UNCHANGED <<page, sent, tally>>
        /\ FailObserved \/ UNCHANGED <<scope, helper>>
  BY DEF CleanedUp, Discarded
<1>2. Onward /\ Idle(sent', wire')
  BY <1>1, TakenOnward, NothingMore DEF KeptInv, Installing
<1> QED BY <1>1, <1>2, FailureKept, SameScopeKept

LEMMA ChallengedKept == ASSUME KeptInv, ObserverInv', Challenged PROVE KeptInv'
<1>1. /\ UNCHANGED <<page, wire>> /\ tasks # <<>> /\ Onward /\ ObserverInv
      /\ Idle(sent, wire)
  BY NothingUnderWay, SameOnward DEF Challenged, TaskAt, KeptInv
<1>2. tally'.kept = tally.kept /\ tally'.owed = tally.owed
  <2>1. tally \in Tallies /\ (tally' = tally \/ tally' = [tally EXCEPT !.faults = @ + 1])
    BY DEF Challenged, KeptInv, ObserverInv, ObserverTypes
  <2> QED BY <2>1 DEF Tallies
<1>3. CASE UNCHANGED sent /\ (FailObserved \/ UNCHANGED <<scope, helper>>)
  BY <1>1, <1>2, <1>3, FailureKept, SameScopeKept
<1>4. CASE Goes("world") /\ UNCHANGED <<scope, helper>>
  <2>1. tasks' # <<>> /\ Epoch' = Epoch
    BY <1>1, <1>4, GoesOn DEF Installing
  <2> QED BY <1>1, <1>2, <1>4, <2>1, SameScopeKept
<1> QED BY <1>3, <1>4 DEF Challenged

LEMMA DiscardKept ==
  ASSUME KeptInv, ObserverInv', Onward, tasks # <<>>, Discard, UNCHANGED <<page, tally>>
  PROVE  KeptInv'
<1>1. tasks' # <<>> /\ Epoch' = Epoch
  BY GoesOn DEF Discard, Installing, KeptInv
<1>2. /\ scope'.epoch = scope.epoch /\ scope'.evaluated = scope.evaluated
      /\ scope'.ready = scope.ready /\ helper' = helper
  BY DEF Discard, SendCleanup, KeptInv, ObserverInv, ObserverTypes, Scopes
<1> QED BY <1>1, <1>2, SameScopeKept

LEMMA WorldMadeKept == ASSUME InOrder, KeptInv, ObserverInv', WorldMade PROVE KeptInv'
<1>1. PICK i \in DOMAIN wire :
        /\ TaskAt("world") /\ Arrives({"world"}, i) /\ UNCHANGED <<page, tally>>
        /\ \/ Goes("evaluate") /\ UNCHANGED <<scope, helper>>
           \/ UNCHANGED sent /\ (FailObserved \/ UNCHANGED <<scope, helper>>)
           \/ Discard
  BY DEF WorldMade
<1>2. Onward /\ Idle(sent, wire') /\ tasks # <<>> /\ ObserverInv
  BY <1>1, TakenOnward, NothingMore DEF KeptInv, Installing, TaskAt
<1>3. CASE Goes("evaluate") /\ UNCHANGED <<scope, helper>>
  <2>1. tasks' # <<>> /\ Epoch' = Epoch
    BY <1>2, <1>3, GoesOn DEF Installing
  <2> QED BY <1>1, <1>2, <1>3, <2>1, SameScopeKept
<1>4. CASE UNCHANGED sent /\ (FailObserved \/ UNCHANGED <<scope, helper>>)
  BY <1>1, <1>2, <1>4, FailureKept, SameScopeKept
<1>5. CASE Discard
  BY <1>1, <1>2, <1>5, DiscardKept
<1> QED BY <1>1, <1>3, <1>4, <1>5

\* A scope is committed: no navigation is under way if its observer is there.
LEMMA EvaluatedKept == ASSUME InOrder, KeptInv, ObserverInv', Evaluated PROVE KeptInv'
<1>1. PICK i \in DOMAIN wire :
        /\ TaskAt("evaluate") /\ Arrives({"evaluate"}, i) /\ UNCHANGED <<page, tally>>
        /\ \/ /\ ScopeCurrent /\ wire[i].how = "ok"
              /\ Commit([scope EXCEPT !.evaluated = TRUE, !.context = Epoch]) /\ UNCHANGED sent
           \/ UNCHANGED sent /\ FailObserved
           \/ Discard
  BY DEF Evaluated
<1>2. Onward /\ Idle(sent, wire') /\ tasks # <<>> /\ ObserverInv
  BY <1>1, TakenOnward, NothingMore DEF KeptInv, Installing, TaskAt
<1>3. CASE UNCHANGED sent /\ FailObserved
  BY <1>1, <1>2, <1>3, FailureKept
<1>4. CASE Discard
  BY <1>1, <1>2, <1>4, DiscardKept
<1>5. CASE /\ ScopeCurrent /\ wire[i].how = "ok"
           /\ Commit([scope EXCEPT !.evaluated = TRUE, !.context = Epoch]) /\ UNCHANGED sent
  <2>1. /\ Epoch \in Nat \ {0} /\ 1 \in DOMAIN tasks /\ tasks[1].epoch = Epoch
        /\ scope.epoch = Epoch /\ helper.active /\ scope \in Scopes /\ helper \in Helpers
    BY <1>1, <1>5, AtTask DEF ScopeCurrent, KeptInv, ObserverInv, ObserverTypes
  <2>2. ~scope.evaluated /\ ~scope.ready
    BY <2>1 DEF KeptInv, ObserverInv, TasksInOrder, ScopeSound
  <2> DEFINE s == [scope EXCEPT !.evaluated = TRUE, !.context = Epoch]
  <2>3. s \in Scopes /\ s.epoch = Epoch /\ Commit(s)
    BY <1>5, <2>1 DEF Scopes
  <2> HIDE DEF s
  <2>4. /\ scope'.epoch = Epoch /\ helper'.failed = helper.failed /\ helper'.active = helper.active
    BY <2>1, <2>3, Commits
  <2>5. Fresh'
    <3> SUFFICES ASSUME Epoch \in page.observing, NEW j \in DOMAIN wire'
                 PROVE  wire'[j].kind # "navigated"
      BY <1>1, <2>4 DEF Fresh, NoneGone
    <3>1. /\ i = 1 /\ 1 \in DOMAIN wire /\ j \in Nat \ {0} /\ j + 1 \in DOMAIN wire
          /\ wire'[j] = wire[j + 1]
      BY <1>1, FirstTaken DEF KeptInv, ObserverInv, ObserverTypes
    <3>2. 1 < j + 1 /\ wire[1].kind = "evaluate" /\ wire[1].how = "ok"
      BY <1>1, <1>5, <3>1 DEF Arrives
    <3> QED BY <3>1, <3>2 DEF KeptInv, Aligned
  <2>6. Aligned'
    <3>1. \A j \in DOMAIN wire' : wire'[j].kind # "evaluate"
      BY <1>2 DEF Idle, Due, Installing
    <3> QED BY <3>1 DEF Aligned
  <2>7. Active'
    BY <2>1, <2>4 DEF Active
  <2>8. Account'
    <3> SUFFICES ASSUME ~helper.failed PROVE Account'
      BY <2>4 DEF Account
    <3>1. Owings(wire) = {} /\ tally.owed = tally.kept + Cardinality(Owings(wire))
      BY <2>2 DEF KeptInv, Account
    <3>2. Owings(wire') = {} /\ Cardinality(Owings(wire')) = Cardinality(Owings(wire))
      BY <1>2, <3>1 DEF Onward, Follows
    <3> QED BY <1>1, <3>1, <3>2 DEF Account, OwedFirst
  <2> QED BY <2>5, <2>6, <2>7, <2>8 DEF KeptInv
<1> QED BY <1>1, <1>3, <1>4, <1>5

-----------------------------------------------------------------------------
(* How a start gives up, and a stop ends. *)

LEMMA TimeoutKept == ASSUME KeptInv, ObserverInv', StartTimeout PROVE KeptInv'
<1>1. /\ UNCHANGED <<page, wire, sent, tasks, tally>> /\ Epoch' = Epoch /\ Onward
      /\ scope' = Replaced(scope, NoDocument)
  BY SameOnward DEF StartTimeout, Epoch
<1>2. helper'.failed = helper.failed
  BY DEF StartTimeout, KeptInv, ObserverInv, ObserverTypes, Helpers
<1>3. helper.failed \/ Owings(wire) = {}
  BY DEF StartTimeout, KeptInv, ObserverInv, ScopeSound, Account
<1> QED BY <1>1, <1>2, <1>3, ReplacedKept

LEMMA StopKept == ASSUME KeptInv, ObserverInv', StopObserving PROVE KeptInv'
<1>1. /\ UNCHANGED <<page, wire, tasks, tally>> /\ Epoch' = Epoch /\ Onward
  BY SameOnward DEF StopObserving, Epoch
<1>2. helper'.failed = helper.failed /\ helper'.active = helper.active
  BY DEF StopObserving, KeptInv, ObserverInv, ObserverTypes, Helpers
<1>3. CASE UNCHANGED scope
  BY <1>1, <1>2, <1>3, SeesNone
<1>4. CASE scope.context = 0 /\ scope' = Replaced(scope, NoDocument)
  <2>1. ~scope.evaluated
    BY <1>4 DEF KeptInv, ObserverInv, ScopeSound
  <2> QED BY <1>1, <1>2, <1>4, <2>1, NoneReady, ReplacedKept
<1> QED BY <1>3, <1>4 DEF StopObserving

\* The flush is answered behind every event owed.
LEMMA FlushedKept == ASSUME InOrder, KeptInv, ObserverInv', Flushed PROVE KeptInv'
<1>1. PICK i : /\ Arrives({"flush"}, i) /\ UNCHANGED <<page, sent, tasks, tally>>
               /\ \/ helper' = [Stopped EXCEPT !.failed = TRUE] /\ UNCHANGED scope
                  \/ /\ helper' = [helper EXCEPT !.stop = "tail"]
                     /\ scope' = Replaced(scope, NoDocument)
  BY DEF Flushed
<1>2. Onward /\ (helper.failed \/ Owings(wire) = {}) /\ Epoch' = Epoch
  BY <1>1, TakenOnward DEF Epoch
<1>3. CASE helper' = [Stopped EXCEPT !.failed = TRUE] /\ UNCHANGED scope
  <2>1. helper'.failed
    BY <1>3 DEF Stopped, KeptInv, ObserverInv, ObserverTypes, Helpers
  <2> QED BY <1>1, <1>2, <1>3, <2>1, SeesNone
<1>4. CASE helper' = [helper EXCEPT !.stop = "tail"] /\ scope' = Replaced(scope, NoDocument)
  <2>1. helper'.failed = helper.failed
    BY <1>4 DEF KeptInv, ObserverInv, ObserverTypes, Helpers
  <2> QED BY <1>1, <1>2, <1>4, <2>1, ReplacedKept
<1> QED BY <1>1, <1>3, <1>4

LEMMA SettlesKept == ASSUME KeptInv, ObserverInv', SettleObserved PROVE KeptInv'
<1>1. /\ UNCHANGED <<page, wire, tasks, tally>> /\ Epoch' = Epoch /\ Onward
  BY SameOnward DEF SettleObserved, Epoch
<1>2. /\ helper'.failed = helper.failed /\ helper'.active = helper.active
      /\ scope'.epoch = scope.epoch /\ scope'.evaluated = scope.evaluated /\ scope'.ready = scope.ready
  BY DEF SettleObserved, SendCleanup, KeptInv, ObserverInv, ObserverTypes, Helpers, Scopes
<1> QED BY <1>1, <1>2, SeesNone

LEMMA SettledKept == ASSUME InOrder, KeptInv, ObserverInv', Settled PROVE KeptInv'
<1>1. PICK i : /\ Arrives({"settle"}, i) /\ UNCHANGED <<page, sent, scope, tasks, tally>>
               /\ helper' = [Stopped EXCEPT !.failed = @ \/ wire[i].how = "fault"]
  BY DEF Settled
<1>2. Onward /\ Epoch' = Epoch
  BY <1>1, TakenOnward DEF Epoch
<1>3. helper.failed => helper'.failed
  <2> DEFINE bad == wire[i].how = "fault"
  <2>1. helper' = [helper EXCEPT !.stop = "done", !.active = FALSE, !.failed = @ \/ bad]
    BY <1>1 DEF Stopped
  <2> HIDE DEF bad
  <2> QED BY <2>1 DEF KeptInv, ObserverInv, ObserverTypes, Helpers
<1>4. scope.evaluated => helper.failed
  <2>1. "settle" \in Due(sent, wire)
    BY <1>1, Arrived DEF KeptInv
  <2>2. helper.stop = "clean"
    BY <2>1 DEF KeptInv, ObserverInv, OneAnswer, Awaited
  <2> QED BY <2>2 DEF KeptInv, ObserverInv, ScopeSound
<1> QED BY <1>1, <1>2, <1>3, <1>4, SeesNone

LEMMA KeptSteps == ASSUME InOrder, KeptInv, ObserverNext PROVE KeptInv'
<1>1. ObserverInv'
  BY ObserverSteps DEF KeptInv
<1> QED BY <1>1, EventsKeep, AnswersKeep, FirstFrameKept, ArmedKept, NavigatedKept, HandshakeKept,
           ObservedKept, PostFailsKept, BeginKept, CleanedUpKept, ChallengedKept, WorldMadeKept,
           EvaluatedKept, TimeoutKept, StopKept, FlushedKept, SettlesKept, SettledKept
        DEF ObserverNext

\* A stop that ends well has posted every event a ready observer saw before the flush
\* ran, on a connection that keeps its order: settleObserved retires the scope only once
\* the flush is answered (src/mcp/browser-helper.ts).
THEOREM EveryEventKept == ASSUME InOrder PROVE ObserverSpec => []EventsKept
<1>1. KeptInv /\ UNCHANGED observerVars => KeptInv'
  BY DEF observerVars, KeptInv, ObserverInv, ObserverTypes, OneAnswer, Awaited, TaskAt, Epoch,
         TasksInOrder, ScopeSound, Covered, Known, Fresh, Aligned, Active, Account
<1>2. KeptInv => EventsKept
  <2> SUFFICES ASSUME KeptInv, helper.stop = "done", ~helper.failed PROVE tally.kept = tally.owed
    BY DEF EventsKept
  <2>1. ~scope.evaluated
    BY DEF KeptInv, ObserverInv, ScopeSound
  <2>2. Owings(wire) = {} /\ tally.owed = tally.kept + Cardinality(Owings(wire))
    BY <2>1, NoneReady DEF KeptInv, Account
  <2>3. Cardinality(Owings(wire)) = 0 /\ tally.kept \in Nat
    BY <2>2, FS_EmptySet DEF KeptInv, ObserverInv, ObserverTypes, Tallies
  <2> QED BY <2>2, <2>3
<1>3. KeptInv /\ [ObserverNext]_observerVars => KeptInv'
  BY <1>1, KeptSteps
<1> QED BY <1>2, <1>3, KeptStarts, PTL DEF ObserverSpec
=============================================================================
