---------------------------- MODULE CaptureBroker ----------------------------
(***************************************************************************)
(* The loopback capture broker of one recording session                    *)
(* (mcp/capture-broker.ts).                                                *)
(*                                                                         *)
(* The broker is one event loop.  Every HTTP request runs an async handler *)
(* and handlers interleave at each `await`; an action below is the code    *)
(* between two awaits.  Two promise chains order them:                     *)
(*                                                                         *)
(*   frameProcessingTail  a FIFO lock held by a /frame handler from its    *)
(*                        first check to the admission of its write;       *)
(*   persistenceTail      a FIFO queue of jobs, each the durable write of  *)
(*                        one frame or of one observed event.              *)
(*                                                                         *)
(* A chain of promises is a ticket dispenser: `next` links were appended,  *)
(* `served` of them have settled, and whoever awaits the chain waits until *)
(* the link that was last when it looked has settled.                      *)
(***************************************************************************)
EXTENDS Integers, Sequences, FiniteSets

CONSTANTS
  MaxRequests,      \* bound on requests; they are numbered as they arrive
  Limit,            \* how many requests of each kind may arrive
  Faults,           \* which faults may happen: "shape", "clock", "disk"
  QueueCapacity,    \* queueCapacity: durable writes that may be pending
  MaxFrames,        \* maxAcceptedFrames
  MaxBytes,         \* maxAcceptedBytes
  MaxSeconds,       \* maxCaptureSeconds, in clock ticks
  FrameSizes,       \* byte lengths a frame may have
  ScrollWindow,     \* SCROLL_COALESCE_US, in clock ticks
  PointerWindow,    \* POINTER_COALESCE_US, in clock ticks
  ScrollBound,      \* MAX_COORDINATE, in scroll deltas (each event carries one)
  RateWindow,       \* OBSERVED_RATE_WINDOW_US, in clock ticks
  RateLimit,        \* OBSERVED_RATE_LIMIT
  EventCap,         \* OBSERVED_EVENT_CAP
  ChallengeCap,     \* OBSERVER_CHALLENGE_CAP
  FinalCounts,      \* the counts a client may report to /stop
  MaxTime           \* bound on the receipt clock, for model checking only

Observed == {"pointer", "scroll", "click"}
Kinds == Observed \cup {"claim", "fail", "challenge", "frame", "stop", "close"}
Stamped == Observed \cup {"claim", "frame", "stop"}
Phases == {"ready", "claimed", "running", "stopped", "failed"}

Req == 1..MaxRequests

Unset == -1          \* an undefined receipt or offset
NoReply == 0

ASSUME BrokerAssumption ==
  /\ MaxRequests \in Nat
  /\ Limit \in [Kinds -> Nat]
  /\ Faults \subseteq {"shape", "clock", "disk"}
  /\ QueueCapacity \in Nat \ {0}
  /\ MaxFrames \in Nat \ {0}
  /\ MaxBytes \in Nat \ {0}
  /\ FrameSizes \subseteq Nat
  /\ {MaxSeconds, ScrollWindow, PointerWindow, ScrollBound} \subseteq Nat
  /\ {RateWindow, RateLimit, EventCap, ChallengeCap, MaxTime} \subseteq Nat
  /\ FinalCounts \subseteq [accepted : Nat, acked : Nat, rejected : Nat]

VARIABLES
  now,          \* the monotone receipt clock
  req,          \* the handler of each request
  phase,        \* the broker's phase, in memory
  clock,        \* receipts and offsets the broker remembers
  tally,        \* the `observed` capture counts
  load,         \* pendingWrites, inflightBytes, acceptedBytes, frameId
  gate,         \* observed-event sequence, rate limiter, challenges issued
  pending,      \* pendingScroll and pendingPointer
  lock,         \* frameProcessingTail
  tail,         \* persistenceTail
  server,       \* whether close() was called and the server still listens
  stateFile,    \* disk: the phase in broker-state.json
  summary,      \* disk: capture-summary.json
  images,       \* disk: the frame images in place
  frameLog,     \* disk: capture-events.jsonl
  observedLog   \* disk: observed-events.jsonl

disk == <<stateFile, summary, images, frameLog, observedLog>>
logs == <<images, frameLog, observedLog>>
memory == <<clock, tally, load, gate, pending, lock, tail, server>>
vars == <<now, req, phase, clock, tally, load, gate, pending, lock, tail,
          server, stateFile, summary, images, frameLog, observedLog>>

NoEvent == [type |-> "none", receipt |-> Unset, from |-> {}]
NoSummary == [status |-> "none", accepted |-> 0, acked |-> 0, rejected |-> 0]

Idle == [kind |-> "none", pc |-> "idle", receipt |-> Unset, reply |-> NoReply,
         size |-> 0, lockSeat |-> 0, tailSeat |-> 0, job |-> "none",
         event |-> NoEvent, save |-> "ready", next |-> "done",
         draft |-> NoSummary]

Init ==
  /\ now = 0
  /\ req = [r \in Req |-> Idle]
  /\ phase = "ready"
  /\ clock = [started |-> Unset, first |-> Unset, frame |-> Unset, observed |-> Unset]
  /\ tally = [received |-> 0, accepted |-> 0, acked |-> 0, rejected |-> 0]
  /\ load = [pending |-> 0, inflight |-> 0, bytes |-> 0, frames |-> 0]
  /\ gate = [seq |-> 0, start |-> Unset, receipt |-> Unset, count |-> 0,
             requests |-> 0, challenges |-> 0]
  /\ pending = [k \in {"scroll", "pointer"} |-> NoEvent]
  /\ lock = [next |-> 0, served |-> 0]
  /\ tail = [next |-> 0, served |-> 0]
  /\ server = "open"
  /\ stateFile = "ready"
  /\ summary = NoSummary
  /\ images = {}
  /\ frameLog = <<>>
  /\ observedLog = <<>>

-----------------------------------------------------------------------------
(* Handler control flow.                                                     *)

Live == phase \in {"claimed", "running"}

At(r, pc) == req[r].pc = pc /\ req[r].job = "none"

\* json(response, code): a frame that was let in still holds the lock.
Done(r) == IF req[r].kind = "frame" THEN "unlock" ELSE "done"

\* The handler goes to `pc`; of one that is done only the answer matters.
Goto(r, pc, code) ==
  IF pc = "done"
  THEN [Idle EXCEPT !.kind = req[r].kind, !.pc = pc, !.reply = code, !.save = req[r].save]
  ELSE [req[r] EXCEPT !.pc = pc, !.reply = code, !.job = "none"]

Answer(r, code) == req' = [req EXCEPT ![r] = Goto(r, Done(r), code)]

\* setPhase: memory at once, then broker-state.json, then on to `next`.
SetPhase(r, to, code, next) ==
  /\ phase' = to
  /\ req' = [req EXCEPT ![r] = [@ EXCEPT !.pc = "saving", !.save = to,
                                         !.reply = code, !.next = next]]

\* failCapture with its optional wait for the pending writes.
FailCapture(r, code, next) ==
  IF Live
  THEN SetPhase(r, "failed", code, next)
  ELSE /\ req' = [req EXCEPT ![r] = [@ EXCEPT !.pc = next, !.reply = code]]
       /\ UNCHANGED phase

\* The capability is returned by a successful claim; nobody has it before.
TokenIssued == \E c \in Req : At(c, "done") /\ req[c].kind = "claim" /\ req[c].reply = 200

OverTime(r) == clock.started # Unset /\ req[r].receipt - clock.started > MaxSeconds

\* Link a durable write to persistenceTail; the handler waits for it.
Enqueue(r, event, pc) ==
  /\ req' = [req EXCEPT ![r] = [@ EXCEPT !.pc = pc, !.job = "queued",
                                         !.event = event, !.tailSeat = tail.next]]
  /\ tail' = [tail EXCEPT !.next = @ + 1]

\* flushPendingScroll and flushPendingPointer
Flush(r, k, pc) ==
  IF pending[k] = NoEvent
  THEN /\ req' = [req EXCEPT ![r] = [@ EXCEPT !.pc = pc]]
       /\ UNCHANGED <<tail, pending>>
  ELSE /\ Enqueue(r, pending[k], pc)
       /\ pending' = [pending EXCEPT ![k] = NoEvent]

-----------------------------------------------------------------------------
(* Every request: arrival, the shape and capability checks, broker state.    *)

Tick == /\ now < MaxTime
        /\ now' = now + 1
        /\ UNCHANGED <<req, phase, memory, disk>>

\* The next request to arrive is r and may be a k.
NextUp(r, k) ==
  /\ req[r].pc = "idle"
  /\ \A q \in 1..(r - 1) : req[q].pc # "idle"
  /\ Cardinality({q \in Req : req[q].kind = k}) < Limit[k]

\* The receipt is stamped before the body is read.  A request without the
\* capability is only ever refused, so it is not let to arrive as a `k`.
Arrive(r, k) ==
  /\ server # "closed"
  /\ k # "close"
  /\ k = "claim" \/ TokenIssued
  /\ NextUp(r, k)
  /\ req' = [req EXCEPT ![r] = [@ EXCEPT !.kind = k, !.pc = "body",
                                         !.receipt = IF k \in Stamped THEN now ELSE Unset]]
  /\ UNCHANGED <<now, phase, memory, disk>>

\* receiptClockUs throws: a live capture fails.
ArriveOnBadClock(r, k) ==
  /\ "clock" \in Faults
  /\ server # "closed"
  /\ k \in Stamped
  /\ NextUp(r, k)
  /\ IF Live
     THEN /\ phase' = "failed"
          /\ req' = [req EXCEPT ![r] = [@ EXCEPT !.kind = k, !.pc = "saving", !.save = "failed",
                                                 !.reply = 500, !.next = "done"]]
     ELSE /\ req' = [req EXCEPT ![r] = [@ EXCEPT !.kind = k, !.pc = "done", !.reply = 500]]
          /\ UNCHANGED phase
  /\ UNCHANGED <<now, memory, disk>>

\* Body, session, origin, key and capability checks: refused, with no effect.
Refuse(r) ==
  /\ "shape" \in Faults
  /\ At(r, "body")
  /\ req' = [req EXCEPT ![r] = Goto(r, "done", 400)]
  /\ UNCHANGED <<now, phase, memory, disk>>

\* The request passed those checks and reaches the code of its path.
Dispatched(r, k) == At(r, "body") /\ req[r].kind = k

\* onPhase wrote broker-state.json; writes of different handlers may overtake.
PhaseSaved(r) ==
  /\ At(r, "saving")
  /\ stateFile' = req[r].save
  /\ req' = [req EXCEPT ![r] = Goto(r, req[r].next, req[r].reply)]
  /\ UNCHANGED <<now, phase, memory, summary, logs>>

Claim(r) ==
  /\ Dispatched(r, "claim")
  /\ IF phase = "ready"
     THEN /\ clock' = [clock EXCEPT !.started = req[r].receipt]
          /\ SetPhase(r, "claimed", 200, "done")
     ELSE /\ Answer(r, 409)
          /\ UNCHANGED <<phase, clock>>
  /\ UNCHANGED <<now, tally, load, gate, pending, lock, tail, server, disk>>

Fail(r) ==
  /\ Dispatched(r, "fail")
  /\ IF Live
     THEN SetPhase(r, "failed", 200, "done")
     ELSE Answer(r, 409) /\ UNCHANGED phase
  /\ UNCHANGED <<now, memory, disk>>

Challenge(r) ==
  /\ Dispatched(r, "challenge")
  /\ \/ /\ ~Live \/ frameLog = <<>>
        /\ Answer(r, 409)
        /\ UNCHANGED <<phase, gate>>
     \/ /\ Live /\ frameLog # <<>>
        /\ gate.challenges >= ChallengeCap
        /\ SetPhase(r, "failed", 429, "done")
        /\ UNCHANGED gate
     \/ /\ Live /\ frameLog # <<>>
        /\ gate.challenges < ChallengeCap
        /\ gate' = [gate EXCEPT !.challenges = @ + 1]
        /\ Answer(r, 200)
        /\ UNCHANGED phase
  /\ UNCHANGED <<now, clock, tally, load, pending, lock, tail, server, disk>>

-----------------------------------------------------------------------------
(* /observed-event                                                           *)

\* observedRateAllowed: a fixed window restarted by the latest receipt.
RateAfter(receipt) ==
  LET latest == IF receipt > gate.receipt THEN receipt ELSE gate.receipt
      fresh == gate.start < 0 \/ latest - gate.start >= RateWindow
  IN  [gate EXCEPT !.receipt = latest,
                   !.start = IF fresh THEN latest ELSE gate.start,
                   !.count = (IF fresh THEN 0 ELSE gate.count) + 1,
                   !.requests = @ + 1]

RateAllowed(g) == g.count <= RateLimit /\ g.requests <= 2 * EventCap

RefuseEvent(r, code) ==
  /\ SetPhase(r, "failed", code, "done")
  /\ UNCHANGED gate

ObservedEvent(r) ==
  /\ \E k \in Observed : Dispatched(r, k)
  /\ \/ ~Live /\ Answer(r, 409) /\ UNCHANGED <<phase, gate>>
     \/ Live /\ clock.first = Unset /\ RefuseEvent(r, 409)
     \/ /\ "shape" \in Faults                                      \* malformed
        /\ Live /\ clock.first # Unset /\ RefuseEvent(r, 400)
     \/ /\ Live /\ clock.first # Unset
        /\ gate' = RateAfter(req[r].receipt)
        /\ IF RateAllowed(gate')
           THEN /\ req' = [req EXCEPT ![r] = [@ EXCEPT !.pc = IF req[r].kind = "scroll"
                                                       THEN "flushPointer" ELSE "flushScroll"]]
                /\ UNCHANGED phase
           ELSE SetPhase(r, "failed", 429, "done")
  /\ UNCHANGED <<now, clock, tally, load, pending, lock, tail, server, disk>>

\* Events that must precede this handler's own effect are queued first.
FlushScroll(r) ==
  /\ At(r, "flushScroll")
  /\ Flush(r, "scroll", IF req[r].kind = "pointer" THEN "place" ELSE "flushPointer")
  /\ UNCHANGED <<now, phase, clock, tally, load, gate, lock, server, disk>>

AfterFlushPointer(k) ==
  CASE k = "scroll" -> "place" [] k = "click" -> "click"
    [] k = "frame" -> "admit" [] k = "stop" -> "drain"

FlushPointer(r) ==
  /\ At(r, "flushPointer")
  /\ Flush(r, "pointer", AfterFlushPointer(req[r].kind))
  /\ UNCHANGED <<now, phase, clock, tally, load, gate, lock, server, disk>>

Sample(r) == [type |-> req[r].kind, receipt |-> req[r].receipt, from |-> {r}]

Near(r) ==
  LET k == req[r].kind
  IN  /\ pending[k] # NoEvent
      /\ req[r].receipt - pending[k].receipt
           <= (IF k = "scroll" THEN ScrollWindow ELSE PointerWindow)

\* Variant: a scroll replaces the pending one as a pointer sample does.
Coalesce_Replace(r) ==
  /\ At(r, "place")
  /\ Near(r)
  /\ pending' = [pending EXCEPT ![req[r].kind] = Sample(r)]
  /\ Answer(r, 200)
  /\ UNCHANGED <<now, phase, clock, tally, load, gate, lock, tail, server, disk>>

\* A pointer sample replaces a near one; a scroll adds its delta to it.
Coalesce(r) ==
  /\ At(r, "place")
  /\ Near(r)
  /\ LET k == req[r].kind
         from == IF k = "scroll" THEN pending[k].from \cup {r} ELSE {r}
     IN  IF k = "scroll" /\ Cardinality(from) > ScrollBound
         THEN /\ SetPhase(r, "failed", 429, "done")
              /\ UNCHANGED pending
         ELSE /\ pending' = [pending EXCEPT ![k] = [Sample(r) EXCEPT !.from = from]]
              /\ Answer(r, 200)
              /\ UNCHANGED phase
  /\ UNCHANGED <<now, clock, tally, load, gate, lock, tail, server, disk>>

\* Too far from the pending one: that one is queued, and awaited, first.
FlushOwn(r) ==
  /\ At(r, "place")
  /\ ~Near(r)
  /\ Flush(r, req[r].kind, "set")
  /\ UNCHANGED <<now, phase, clock, tally, load, gate, lock, server, disk>>

SetPending(r) ==
  /\ At(r, "set")
  /\ pending' = [pending EXCEPT ![req[r].kind] = Sample(r)]
  /\ Answer(r, 200)
  /\ UNCHANGED <<now, phase, clock, tally, load, gate, lock, tail, server, disk>>

QueueClick(r) ==
  /\ At(r, "click")
  /\ Enqueue(r, Sample(r), "accepted")
  /\ UNCHANGED <<now, phase, clock, tally, load, gate, pending, lock, server, disk>>

\* Variant: the click is answered before its line is in the log.
AnswerClick_NoWait(r) ==
  /\ req[r].pc = "accepted"
  /\ Answer(r, 200)
  /\ UNCHANGED <<now, phase, memory, disk>>

AnswerClick(r) ==
  /\ At(r, "accepted")
  /\ Answer(r, 200)
  /\ UNCHANGED <<now, phase, memory, disk>>

-----------------------------------------------------------------------------
(* /frame                                                                    *)

\* enterFrameProcessing: join the FIFO lock.
EnterFrame(r) ==
  /\ Dispatched(r, "frame")
  /\ req' = [req EXCEPT ![r] = [@ EXCEPT !.pc = "enter", !.lockSeat = lock.next]]
  /\ lock' = [lock EXCEPT !.next = @ + 1]
  /\ UNCHANGED <<now, phase, clock, tally, load, gate, pending, tail, server, disk>>

\* Variant: /frame does not wait for the frames before it.
HasLock_NoWait(r) == TRUE

HasLock(r) == lock.served >= req[r].lockSeat

Reject == tally' = [tally EXCEPT !.received = @ + 1, !.rejected = @ + 1]

OverBudget(r, size) ==
  \/ tally.accepted + load.pending >= MaxFrames
  \/ load.bytes + load.inflight + size > MaxBytes
  \/ OverTime(r)

CheckFrame(r) ==
  /\ At(r, "enter")
  /\ HasLock(r)
  /\ \/ /\ ~Live
        /\ Reject
        /\ Answer(r, 429)
        /\ UNCHANGED phase
     \/ /\ Live /\ load.pending >= QueueCapacity
        /\ Reject
        /\ FailCapture(r, 429, "summarize")
     \/ /\ "shape" \in Faults                                     \* malformed
        /\ Live /\ load.pending < QueueCapacity
        /\ Reject
        /\ SetPhase(r, "failed", 400, "unlock")
     \/ /\ Live /\ load.pending < QueueCapacity
        /\ \E size \in FrameSizes :
             IF OverBudget(r, size)
             THEN Reject /\ FailCapture(r, 429, "drain")
             ELSE /\ tally' = [tally EXCEPT !.received = @ + 1]
                  /\ req' = [req EXCEPT ![r] = [@ EXCEPT !.pc = "flushScroll", !.size = size]]
                  /\ UNCHANGED phase
  /\ UNCHANGED <<now, clock, load, gate, pending, lock, tail, server, disk>>

\* Variant: the frame is acknowledged when it is queued.
AdmitFrame_AckEarly(r) ==
  /\ At(r, "admit")
  /\ load' = [load EXCEPT !.pending = @ + 1, !.inflight = @ + req[r].size]
  /\ req' = [req EXCEPT ![r] = [@ EXCEPT !.pc = "persisting", !.job = "queued",
                                         !.tailSeat = tail.next, !.reply = 200]]
  /\ tail' = [tail EXCEPT !.next = @ + 1]
  /\ lock' = [lock EXCEPT !.served = @ + 1]
  /\ UNCHANGED <<now, phase, clock, tally, gate, pending, server, disk>>

\* The write is chained and the lock released in one synchronous stretch.
AdmitFrame(r) ==
  /\ At(r, "admit")
  /\ load' = [load EXCEPT !.pending = @ + 1, !.inflight = @ + req[r].size]
  /\ Enqueue(r, NoEvent, "persisting")
  /\ lock' = [lock EXCEPT !.served = @ + 1]
  /\ UNCHANGED <<now, phase, clock, tally, gate, pending, server, disk>>

\* Variant: an early return leaves the lock held.
Unlock_Leak(r) ==
  /\ At(r, "unlock")
  /\ req' = [req EXCEPT ![r] = Goto(r, "done", req[r].reply)]
  /\ UNCHANGED <<now, phase, memory, disk>>

Unlock(r) ==
  /\ At(r, "unlock")
  /\ lock' = [lock EXCEPT !.served = @ + 1]
  /\ req' = [req EXCEPT ![r] = Goto(r, "done", req[r].reply)]
  /\ UNCHANGED <<now, phase, clock, tally, load, gate, pending, tail, server, disk>>

-----------------------------------------------------------------------------
(* The jobs of persistenceTail, in order.                                    *)

FrameJob(r) == req[r].pc = "persisting"

Settled(q) == req[q].pc = "draining" /\ tail.served >= req[q].tailSeat

\* A handler that awaited the settled link runs before the job chained after it.
JobTurn(r) ==
  /\ req[r].job = "queued"
  /\ tail.served = req[r].tailSeat
  /\ ~\E q \in Req : Settled(q)

Larger(a, b) == IF a >= b THEN a ELSE b

\* Variant: the offset is not kept above the previous one.
StartFrame_RawOffset(r) ==
  /\ JobTurn(r) /\ FrameJob(r) /\ Live
  /\ load' = [load EXCEPT !.frames = @ + 1]
  /\ clock' = IF clock.first = Unset
              THEN [clock EXCEPT !.first = req[r].receipt, !.frame = 0]
              ELSE [clock EXCEPT !.frame = req[r].receipt - clock.first]
  /\ req' = [req EXCEPT ![r] = [@ EXCEPT !.job = "writing"]]
  /\ UNCHANGED <<now, phase, tally, gate, pending, lock, tail, server, disk>>

StartFrame(r) ==
  /\ JobTurn(r) /\ FrameJob(r) /\ Live
  /\ load' = [load EXCEPT !.frames = @ + 1]
  /\ clock' = IF clock.first = Unset
              THEN [clock EXCEPT !.first = req[r].receipt, !.frame = 0]
              ELSE [clock EXCEPT !.frame = Larger(req[r].receipt - clock.first, @ + 1)]
  /\ req' = [req EXCEPT ![r] = [@ EXCEPT !.job = "writing"]]
  /\ UNCHANGED <<now, phase, tally, gate, pending, lock, tail, server, disk>>

\* Variant: the line is logged before the image is in place.
WriteImage_Later(r) ==
  /\ req[r].job = "writing"
  /\ req' = [req EXCEPT ![r] = [@ EXCEPT !.job = "imaged"]]
  /\ UNCHANGED <<now, phase, memory, disk>>

\* The image is written under a temporary name and renamed into place.
WriteImage(r) ==
  /\ req[r].job = "writing"
  /\ images' = images \cup {load.frames}
  /\ req' = [req EXCEPT ![r] = [@ EXCEPT !.job = "imaged"]]
  /\ UNCHANGED <<now, phase, memory, stateFile, summary, frameLog, observedLog>>

\* finally { pendingWrites -= 1 ... }, then the answer to the waiting request.
SettleFrame(r, bytes, code) ==
  /\ load' = [load EXCEPT !.pending = @ - 1, !.inflight = @ - req[r].size,
                          !.bytes = @ + bytes]
  /\ tail' = [tail EXCEPT !.served = @ + 1]
  /\ req' = [req EXCEPT ![r] = Goto(r, "done", code)]

\* Variant: the phase is set to "running" without looking at it.
AppendFrame_AlwaysRunning(r) ==
  /\ req[r].job = "imaged"
  /\ frameLog' = Append(frameLog, [id |-> load.frames, offset |-> clock.frame, from |-> r])
  /\ tally' = [tally EXCEPT !.accepted = @ + 1]
  /\ phase' = "running"
  /\ load' = [load EXCEPT !.bytes = @ + req[r].size]
  /\ req' = [req EXCEPT ![r] = [@ EXCEPT !.job = "starting"]]
  /\ UNCHANGED <<now, clock, gate, pending, lock, tail, server, stateFile, summary,
                 images, observedLog>>

\* The frame's line is appended; the first one makes the capture "running".
AppendFrame(r) ==
  /\ req[r].job = "imaged"
  /\ frameLog' = Append(frameLog, [id |-> load.frames, offset |-> clock.frame, from |-> r])
  /\ tally' = [tally EXCEPT !.accepted = @ + 1]
  /\ IF phase = "claimed"
     THEN /\ phase' = "running"
          /\ load' = [load EXCEPT !.bytes = @ + req[r].size]
          /\ req' = [req EXCEPT ![r] = [@ EXCEPT !.job = "starting"]]
          /\ UNCHANGED tail
     ELSE /\ SettleFrame(r, req[r].size, 200)
          /\ UNCHANGED phase
  /\ UNCHANGED <<now, clock, gate, pending, lock, server, stateFile, summary,
                 images, observedLog>>

\* Variant: the phase "running" is not persisted.
RunningSaved_Skipped(r) ==
  /\ req[r].job = "starting"
  /\ SettleFrame(r, 0, 200)
  /\ UNCHANGED <<now, phase, clock, tally, gate, pending, lock, server, disk>>

RunningSaved(r) ==
  /\ req[r].job = "starting"
  /\ stateFile' = "running"
  /\ SettleFrame(r, 0, 200)
  /\ UNCHANGED <<now, phase, clock, tally, gate, pending, lock, server, summary, logs>>

StartObserved(r) ==
  /\ JobTurn(r) /\ ~FrameJob(r) /\ Live
  /\ gate.seq < EventCap
  /\ gate' = [gate EXCEPT !.seq = @ + 1]
  /\ clock' = [clock EXCEPT !.observed =
                 Larger(Larger(0, req[r].event.receipt - clock.first), @ + 1)]
  /\ req' = [req EXCEPT ![r] = [@ EXCEPT !.job = "appending"]]
  /\ UNCHANGED <<now, phase, tally, load, pending, lock, tail, server, disk>>

AppendObserved(r) ==
  /\ req[r].job = "appending"
  /\ observedLog' = Append(observedLog,
       [seq |-> gate.seq, type |-> req[r].event.type, offset |-> clock.observed,
        from |-> req[r].event.from])
  /\ tail' = [tail EXCEPT !.served = @ + 1]
  /\ req' = [req EXCEPT ![r] = [@ EXCEPT !.job = "none"]]
  /\ UNCHANGED <<now, phase, clock, tally, load, gate, pending, lock, server,
                 stateFile, summary, images, frameLog>>

\* The rejection reaches the handler that awaits the job.
RejectJob(r) ==
  IF FrameJob(r)
  THEN /\ tally' = [tally EXCEPT !.rejected = @ + 1]
       /\ SettleFrame(r, 0, 500)
  ELSE /\ tail' = [tail EXCEPT !.served = @ + 1]
       /\ req' = [req EXCEPT ![r] = IF req[r].kind = "stop"
                                    THEN Goto(r, "verdict", NoReply)
                                    ELSE Goto(r, Done(r), 500)]
       /\ UNCHANGED <<tally, load>>

\* Variant: a failed write is answered 500 and the capture goes on.
ThrowJob_GoOn(r) ==
  /\ RejectJob(r)
  /\ UNCHANGED <<now, phase, clock, gate, pending, lock, server, disk>>

\* A job throws: the capture fails unless it already has.
ThrowJob(r) ==
  /\ IF phase # "failed"
     THEN /\ phase' = "failed"
          /\ req' = [req EXCEPT ![r] = [@ EXCEPT !.job = "failing"]]
          /\ UNCHANGED <<tally, load, tail>>
     ELSE RejectJob(r) /\ UNCHANGED phase
  /\ UNCHANGED <<now, clock, gate, pending, lock, server, disk>>

\* "capture_not_running", or the cap on observed events.
RefuseJob(r) ==
  /\ JobTurn(r)
  /\ ~Live \/ (~FrameJob(r) /\ gate.seq >= EventCap)
  /\ ThrowJob(r)

\* The disk write fails.
DiskFault(r) ==
  /\ "disk" \in Faults
  /\ req[r].job \in {"writing", "imaged", "appending"}
  /\ ThrowJob(r)

FailureSaved(r) ==
  /\ req[r].job = "failing"
  /\ stateFile' = "failed"
  /\ RejectJob(r)
  /\ UNCHANGED <<now, phase, clock, gate, pending, lock, server, summary, logs>>

-----------------------------------------------------------------------------
(* /stop, close() and the summary.                                           *)

EnterStop(r) ==
  /\ Dispatched(r, "stop")
  /\ req' = [req EXCEPT ![r] = [@ EXCEPT !.pc = "stopping", !.lockSeat = lock.next]]
  /\ UNCHANGED <<now, phase, memory, disk>>

\* Frames that had entered before have left; frames that enter later may not have.
CheckStop(r) ==
  /\ At(r, "stopping")
  /\ HasLock(r)
  /\ \/ OverTime(r) /\ FailCapture(r, 429, "drain")
     \/ /\ ~OverTime(r)
        /\ "shape" \in Faults \/ phase = "stopped"       \* malformed counts
        /\ Answer(r, 400)
        /\ UNCHANGED phase
     \/ /\ ~OverTime(r) /\ phase # "stopped"
        /\ req' = [req EXCEPT ![r] = [@ EXCEPT !.pc = "flushScroll"]]
        /\ UNCHANGED phase
  /\ UNCHANGED <<now, memory, disk>>

\* Variant: nothing is awaited.
Drain_NoWait(r) ==
  /\ At(r, "drain")
  /\ req' = [req EXCEPT ![r] = [@ EXCEPT !.pc = "draining", !.tailSeat = tail.served]]
  /\ UNCHANGED <<now, phase, memory, disk>>

\* await persistenceTail: the link that is last now.
Drain(r) ==
  /\ At(r, "drain")
  /\ req' = [req EXCEPT ![r] = [@ EXCEPT !.pc = "draining", !.tailSeat = tail.next]]
  /\ UNCHANGED <<now, phase, memory, disk>>

\* /stop reaches its verdict; a failed flush leads there without the wait.
AtVerdict(r) ==
  /\ req[r].job = "none"
  /\ req[r].kind = "stop" /\ req[r].reply = NoReply
  /\ Settled(r) \/ req[r].pc = "verdict"

\* The client reports that it lost an observed event.
EventsLost(r) ==
  /\ AtVerdict(r)
  /\ phase # "failed"
  /\ SetPhase(r, "failed", NoReply, "verdict")
  /\ UNCHANGED <<now, memory, disk>>

Complete(final) ==
  /\ phase = "running"
  /\ tally.accepted > 0
  /\ tally.accepted = final.accepted
  /\ final.acked = tally.accepted
  /\ final.rejected = 0
  /\ tally.rejected = 0

Verdict(r) ==
  /\ AtVerdict(r)
  /\ \E final \in FinalCounts :
       /\ tally' = [tally EXCEPT !.acked = final.acked]
       /\ \/ Complete(final) /\ SetPhase(r, "stopped", 200, "summarize")
          \/ ~Complete(final) /\ FailCapture(r, 200, "summarize")
  /\ UNCHANGED <<now, clock, load, gate, pending, lock, tail, server, disk>>

AtSummary(r) ==
  /\ req[r].job = "none"
  /\ \/ req[r].pc = "summarize"
     \/ Settled(r) /\ (req[r].kind = "stop" => req[r].reply # NoReply)

\* writeSummary: the text is fixed here, the file appears with the rename.
Summarize(r) ==
  /\ AtSummary(r)
  /\ req' = [req EXCEPT ![r] = [@ EXCEPT !.pc = "publish",
       !.draft = [status |-> IF phase = "stopped" THEN "stopped" ELSE "failed",
                     accepted |-> tally.accepted, acked |-> tally.acked,
                     rejected |-> tally.rejected]]]
  /\ UNCHANGED <<now, phase, memory, disk>>

Publish(r) ==
  /\ At(r, "publish")
  /\ summary' = req[r].draft
  /\ req' = [req EXCEPT ![r] =
       Goto(r, IF req[r].kind = "close" THEN "closing" ELSE Done(r), req[r].reply)]
  /\ UNCHANGED <<now, phase, memory, stateFile, logs>>

\* Variant: close() does not wait for the pending writes.
Close_NoDrain(r) ==
  /\ server = "open"
  /\ NextUp(r, "close")
  /\ server' = "closing"
  /\ IF Live
     THEN /\ phase' = "failed"
          /\ req' = [req EXCEPT ![r] = [@ EXCEPT !.kind = "close", !.pc = "saving",
                                                 !.save = "failed", !.next = "summarize"]]
     ELSE /\ req' = [req EXCEPT ![r] = [@ EXCEPT !.kind = "close", !.pc = "closing"]]
          /\ UNCHANGED phase
  /\ UNCHANGED <<now, clock, tally, load, gate, pending, lock, tail, disk>>

Close(r) ==
  /\ server = "open"
  /\ NextUp(r, "close")
  /\ server' = "closing"
  /\ IF Live
     THEN /\ phase' = "failed"
          /\ req' = [req EXCEPT ![r] = [@ EXCEPT !.kind = "close", !.pc = "saving",
                                                 !.save = "failed", !.next = "drain"]]
     ELSE /\ req' = [req EXCEPT ![r] = [@ EXCEPT !.kind = "close", !.pc = "closing"]]
          /\ UNCHANGED phase
  /\ UNCHANGED <<now, clock, tally, load, gate, pending, lock, tail, disk>>

\* mailbox.close, then server.close: no new request is accepted.
StopListening(r) ==
  /\ At(r, "closing")
  /\ server' = "closed"
  /\ req' = [req EXCEPT ![r] = [@ EXCEPT !.pc = "leaving"]]
  /\ UNCHANGED <<now, phase, clock, tally, load, gate, pending, lock, tail, disk>>

\* server.close resolves once every connection has been answered.
Closed(r) ==
  /\ At(r, "leaving")
  /\ \A q \in Req \ {r} : req[q].pc \in {"idle", "done"}
  /\ req' = [req EXCEPT ![r] = Goto(r, "done", req[r].reply)]
  /\ UNCHANGED <<now, phase, memory, disk>>

-----------------------------------------------------------------------------

\* I/O completions: each starts a turn of the event loop.
Callback(r) ==
  \/ Refuse(r) \/ Claim(r) \/ Fail(r) \/ Challenge(r) \/ ObservedEvent(r)
  \/ EnterFrame(r) \/ EnterStop(r)
  \/ PhaseSaved(r) \/ Publish(r) \/ StopListening(r) \/ Closed(r)
  \/ WriteImage(r) \/ AppendFrame(r) \/ RunningSaved(r) \/ AppendObserved(r)
  \/ DiskFault(r) \/ FailureSaved(r)

\* What a settled promise lets run, in the same turn.
Continuation(r) ==
  \/ FlushScroll(r) \/ FlushPointer(r) \/ Coalesce(r) \/ FlushOwn(r)
  \/ SetPending(r) \/ QueueClick(r) \/ AnswerClick(r)
  \/ CheckFrame(r) \/ AdmitFrame(r) \/ Unlock(r)
  \/ CheckStop(r) \/ Drain(r) \/ EventsLost(r) \/ Verdict(r) \/ Summarize(r)
  \/ StartFrame(r) \/ StartObserved(r) \/ RefuseJob(r)

Environment(r) ==
  \/ \E k \in Kinds : Arrive(r, k) \/ ArriveOnBadClock(r, k)
  \/ Close(r)

Runnable(r) ==
  \/ /\ req[r].job = "none"
     /\ \/ req[r].pc \in {"flushScroll", "flushPointer", "place", "set", "click",
                          "accepted", "admit", "unlock", "drain", "verdict", "summarize"}
        \/ req[r].pc \in {"enter", "stopping"} /\ HasLock(r)
        \/ Settled(r)
  \/ req[r].job = "queued" /\ tail.served = req[r].tailSeat

\* Microtasks run to the end before the event loop takes the next callback.
TurnOver == ~\E r \in Req : Runnable(r)

Next ==
  \/ TurnOver /\ Tick
  \/ \E r \in Req : TurnOver /\ (Environment(r) \/ Callback(r))
  \/ \E r \in Req : Continuation(r)

Spec == Init /\ [][Next]_vars

\* The event loop reaches every callback and the disk answers.
FairSpec ==
  /\ Spec
  /\ \A r \in Req : WF_vars(TurnOver /\ Callback(r)) /\ WF_vars(Continuation(r))

-----------------------------------------------------------------------------
(* Correctness.                                                              *)

EventType == [type : Observed \cup {"none"}, receipt : Int, from : SUBSET Req]
SummaryType == [status : {"none", "stopped", "failed"}, accepted : Nat,
                acked : Nat, rejected : Nat]
PCs == {"idle", "body", "saving", "flushScroll", "flushPointer", "place", "set",
        "click", "accepted", "enter", "admit", "persisting", "unlock", "stopping",
        "drain", "draining", "verdict", "summarize", "publish", "closing",
        "leaving", "done"}
Jobs == {"none", "queued", "writing", "imaged", "starting", "appending", "failing"}
HandlerType ==
  [kind : Kinds \cup {"none"}, pc : PCs, receipt : Int, reply : Nat, size : Nat,
   lockSeat : Nat, tailSeat : Nat, job : Jobs, event : EventType, save : Phases,
   next : PCs, draft : SummaryType]
Offsets == Nat \cup {Unset}
FrameLine == [id : Nat, offset : Offsets, from : Req]
ObservedLine == [seq : Nat, type : Observed \cup {"none"}, offset : Offsets,
                 from : SUBSET Req]

\* Every variable has the shape the code gives it; an offset is never negative,
\* although a request may be processed after one received later.
TypeOK ==
  /\ now \in Nat
  /\ req \in [Req -> HandlerType]
  /\ phase \in Phases
  /\ clock \in [started : Int, first : Int, frame : Offsets, observed : Offsets]
  /\ tally \in [received : Nat, accepted : Nat, acked : Nat, rejected : Nat]
  /\ load \in [pending : Int, inflight : Int, bytes : Nat, frames : Nat]
  /\ gate \in [seq : Nat, start : Int, receipt : Int, count : Nat,
               requests : Nat, challenges : Nat]
  /\ pending \in [{"scroll", "pointer"} -> EventType]
  /\ lock \in [next : Nat, served : Nat]
  /\ tail \in [next : Nat, served : Nat]
  /\ server \in {"open", "closing", "closed"}
  /\ stateFile \in Phases
  /\ summary \in SummaryType
  /\ images \subseteq Nat
  /\ frameLog \in Seq(FrameLine)
  /\ observedLog \in Seq(ObservedLine)

Frames == {r \in Req : req[r].kind = "frame"}

\* "Durably writes each accepted frame before acknowledgement": a frame request
\* answered 200 has its image in place and its line in the log, whatever else
\* fails or stops meanwhile (capture-broker.ts /frame).
Logged(r) == \E i \in DOMAIN frameLog : frameLog[i].from = r /\ frameLog[i].id \in images
AckedFramesDurable == \A r \in Frames : req[r].reply = 200 => Logged(r)

\* A click is not coalesced: once it is answered 200 its line is in the log;
\* a failed write is answered 500 (capture-broker.ts /observed-event).
AckedClicksDurable ==
  \A r \in Req : (req[r].kind = "click" /\ req[r].reply = 200) =>
    \E i \in DOMAIN observedLog : observedLog[i].from = {r}

\* After a crash at any point the two logs can be replayed: every frame line
\* names an image in place, ids and sequence numbers have no gap, and receipt
\* offsets strictly increase although requests overtake each other between
\* their receipt stamp and their turn in the queue.
LogsReplayable ==
  /\ \A i \in DOMAIN frameLog : frameLog[i].id = i /\ i \in images
  /\ \A i, j \in DOMAIN frameLog : i < j => frameLog[i].offset < frameLog[j].offset
  /\ \A i \in DOMAIN observedLog : observedLog[i].seq = i
  /\ \A i, j \in DOMAIN observedLog : i < j => observedLog[i].offset < observedLog[j].offset

\* The summary sealing relies on: once capture-summary.json says "stopped", the
\* frame count in it is the number of lines in the log, for ever; no write that
\* was pending when /stop decided may add a line afterwards.
StoppedSummaryComplete ==
  summary.status = "stopped" => summary.accepted > 0 /\ summary.accepted = Len(frameLog)

\* The counters behind the budgets: concurrent frames never exceed the queue
\* capacity, the frame budget or the byte budget, although each is checked
\* before an await and consumed after it.
BudgetsRespected ==
  /\ load.pending \in 0..QueueCapacity
  /\ tally.accepted <= MaxFrames
  /\ load.inflight >= 0 /\ load.bytes <= MaxBytes

\* Backpressure, a fault or a malformed frame ends the capture instead of
\* silently dropping a frame: while the capture is live every frame let in is
\* durable or still being handled.
InHand == {r \in Frames :
  /\ req[r].pc \in {"flushScroll", "flushPointer", "admit", "persisting"}
  /\ req[r].job # "starting"}
NoSilentDrop ==
  Live => /\ tally.rejected = 0
          /\ tally.received = tally.accepted + Cardinality(InHand)

\* broker-state.json, written without ordering by whoever changes the phase, is
\* stale at rest only about a failure: a restart never takes a live or stopped
\* capture for something else.
StateFileCurrent ==
  (phase # "failed" /\ \A r \in Req : req[r].pc # "saving" /\ req[r].job # "starting")
    => stateFile = phase

\* Failure is final, and evidence is frozen once the capture has stopped.
FailureFinal ==
  [][ /\ phase = "failed" => phase' = "failed"
      /\ phase = "stopped" => phase' \in {"stopped", "failed"}
      /\ phase = "stopped" => UNCHANGED logs ]_vars

\* close() of a live capture leaves a failed one and a summary that says so,
\* and it takes in every frame that was being written.
CloseFailsLiveCapture ==
  \A r \in Req :
    (req[r].kind = "close" /\ req[r].save = "failed" /\ req[r].pc = "done")
      => /\ phase = "failed"
         /\ summary.status = "failed" /\ summary.accepted = Len(frameLog)

\* No scroll the broker accepted is missing from the log of a stopped capture.
ScrollsKept ==
  (summary.status = "stopped" /\ \A r \in Req : req[r].pc \in {"idle", "done"}) =>
    \A r \in Req : (req[r].kind = "scroll" /\ req[r].reply = 200) =>
      \E i \in DOMAIN observedLog : r \in observedLog[i].from

\* Every request is answered and close() returns: neither chain of promises can
\* wait for itself.
AllAnswered == \A r \in Req : req[r].pc # "idle" ~> req[r].pc = "done"

-----------------------------------------------------------------------------
(* Why it holds: the parts of an inductive invariant.                        *)

\* A handler is only where the code of its kind can be, and waits for a job only
\* where that code awaits one.
WellPlaced(h) ==
  /\ h.pc \in {"place", "set"} => h.kind \in {"scroll", "pointer"}
  /\ h.pc \in {"click", "accepted"} => h.kind = "click"
  /\ h.pc = "flushScroll" => h.kind \in {"pointer", "click", "frame", "stop"}
  /\ h.pc = "flushPointer" => h.kind \in {"scroll", "click", "frame", "stop"}
  /\ h.pc \in {"enter", "admit", "persisting", "unlock"} => h.kind = "frame"
  /\ h.pc \in {"stopping", "verdict"} => h.kind = "stop"
  /\ h.pc = "saving" => /\ h.next \in {"done", "unlock", "drain", "verdict", "summarize"}
                        /\ h.next = "unlock" => h.kind = "frame"
                        /\ h.next = "verdict" => h.kind = "stop"
  /\ h.job # "none" => h.pc \in {"flushPointer", "place", "set", "click", "accepted",
                                 "admit", "drain", "persisting"}
  /\ h.job \in {"writing", "imaged", "starting"} => h.pc = "persisting"
  /\ h.job = "appending" => h.pc # "persisting"

TypeInv == TypeOK /\ \A r \in Req : WellPlaced(req[r])

Writing(r) == req[r].job \in {"writing", "imaged", "starting", "appending"}

\* Jobs run one at a time, in the order of their links.
JobsInOrder ==
  /\ tail.served <= tail.next
  /\ \A r \in Req : req[r].job # "none" =>
       /\ tail.served <= req[r].tailSeat /\ req[r].tailSeat < tail.next
       /\ req[r].job # "queued" => req[r].tailSeat = tail.served
  /\ \A q, r \in Req :
       (q # r /\ req[q].job # "none" /\ req[r].job # "none")
         => req[q].tailSeat # req[r].tailSeat

\* Whoever awaited the chain finds no write in progress when it continues.
SettledMeansQuiet == \A q, r \in Req : Settled(q) => ~Writing(r)

\* The failing path of the chain belongs to a capture that has failed.
FailingMeansFailed ==
  \A r \in Req :
    /\ req[r].job = "failing" => phase = "failed"
    /\ req[r].pc = "verdict" => phase = "failed"
    /\ (req[r].pc = "saving" /\ req[r].next = "verdict") => phase = "failed"

\* Once anything says "stopped" no write is in progress and none may start.
StopDecided ==
  \/ phase = "stopped"
  \/ summary.status = "stopped"
  \/ \E r \in Req : req[r].draft.status = "stopped"
Frozen ==
  StopDecided => /\ phase \in {"stopped", "failed"}
                 /\ tally.accepted > 0
                 /\ \A r \in Req : ~Writing(r)
StoppedCounts ==
  /\ tally.accepted = Len(frameLog)
  /\ summary.status = "stopped" => summary.accepted = Len(frameLog)
  /\ \A r \in Req : req[r].draft.status = "stopped" => req[r].draft.accepted = Len(frameLog)

\* A frame is answered 200 by the job that logged it.
AcksLogged ==
  \A r \in Req :
    /\ req[r].pc = "idle" => req[r].reply = NoReply
    /\ req[r].job = "imaged" => load.frames \in images
    /\ (req[r].job = "starting" \/ (req[r].kind = "frame" /\ req[r].reply = 200)) => Logged(r)

IInv == /\ TypeInv
        /\ JobsInOrder /\ SettledMeansQuiet /\ FailingMeansFailed
        /\ Frozen /\ StoppedCounts /\ AcksLogged

-----------------------------------------------------------------------------
(* Who sends requests.                                                       *)

Quiet(r) == \A q \in Req \ {r} : req[q].pc \in {"idle", "done"}
Arriving(r) == req[r].pc = "idle" /\ req'[r].pc # "idle"

\* The mailbox posts one request and waits for its answer before the next.
SerialSpec == Init /\ [][Next /\ \A r \in Req : Arriving(r) => Quiet(r)]_vars

\* The Playwright helper posts frames and events as they come; /stop comes last,
\* after all of them have been answered.
HelperSpec ==
  Init /\ [][Next /\ \A r \in Req : Arriving(r) =>
                /\ \A q \in Req : req[q].kind # "stop"
                /\ req'[r].kind = "stop" => Quiet(r)]_vars
=============================================================================
