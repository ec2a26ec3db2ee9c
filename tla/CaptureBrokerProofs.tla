------------------------- MODULE CaptureBrokerProofs -------------------------
(***************************************************************************)
(* The capture broker, for every value of its constants: its types, and    *)
(* then what its evidence, its acknowledgements and its verdict are worth. *)
(***************************************************************************)
EXTENDS CaptureBroker, TLAPS

TicketType == [next : Nat, served : Nat]
ClockType == [started : Int, first : Int, frame : Offsets, observed : Offsets]
TallyType == [received : Nat, accepted : Nat, acked : Nat, rejected : Nat]
LoadType == [pending : Int, inflight : Int, bytes : Nat, frames : Nat]
GateType == [seq : Nat, start : Int, receipt : Int, count : Nat,
             requests : Nat, challenges : Nat]
PendingType == [{"scroll", "pointer"} -> EventType]

LEMMA MemoryType ==
  ASSUME TypeInv
  PROVE  /\ clock \in ClockType /\ tally \in TallyType /\ load \in LoadType
         /\ gate \in GateType /\ pending \in PendingType
         /\ lock \in TicketType /\ tail \in TicketType
BY DEF TypeInv, TypeOK, ClockType, TallyType, LoadType, GateType, PendingType, TicketType

\* What is left of TypeInv once the handlers are known to be in place.
RestType == /\ now \in Nat /\ phase \in Phases
            /\ clock \in ClockType /\ tally \in TallyType /\ load \in LoadType
            /\ gate \in GateType /\ pending \in PendingType
            /\ lock \in TicketType /\ tail \in TicketType
            /\ server \in {"open", "closing", "closed"}
            /\ stateFile \in Phases /\ summary \in SummaryType
            /\ images \subseteq Nat
            /\ frameLog \in Seq(FrameLine) /\ observedLog \in Seq(ObservedLine)

-----------------------------------------------------------------------------
(* Handler records.                                                          *)

Handler == {h \in HandlerType : WellPlaced(h)}

LEMMA NoEventType == NoEvent \in EventType
BY DEF NoEvent, EventType, Unset

LEMMA NoSummaryType == NoSummary \in SummaryType
BY DEF NoSummary, SummaryType

LEMMA IdleType == Idle \in HandlerType
BY NoEventType, NoSummaryType DEF Idle, HandlerType, PCs, Jobs, Phases, Unset, NoReply

\* TypeInv says of the handlers that each is a well-placed record.
LEMMA Handlers ==
  ASSUME TypeInv, NEW r \in Req
  PROVE  req[r] \in Handler /\ req[r] \in HandlerType
BY DEF TypeInv, TypeOK, Handler

LEMMA Parts == TypeInv <=> req \in [Req -> Handler] /\ RestType
BY DEF TypeInv, TypeOK, RestType, Handler, ClockType, TallyType, LoadType, GateType,
       PendingType, TicketType

LEMMA PartsPrime == TypeInv' <=> (req \in [Req -> Handler])' /\ RestType'
BY DEF TypeInv, TypeOK, RestType, Handler, ClockType, TallyType, LoadType, GateType,
       PendingType, TicketType

\* A step that replaces one handler by a well-placed one keeps them all so.
LEMMA OneMoves ==
  ASSUME TypeInv, NEW r \in Req, NEW h \in Handler, req' = [req EXCEPT ![r] = h]
  PROVE  req' \in [Req -> Handler]
BY Handlers DEF TypeInv, TypeOK

\* A handler that only moves to another program counter where it may be.
LEMMA GotoType ==
  ASSUME TypeInv, NEW r \in Req, NEW pc \in PCs, NEW code \in Nat,
         pc \in {"place", "set"} => req[r].kind \in {"scroll", "pointer"},
         pc \in {"enter", "admit", "persisting", "unlock"} => req[r].kind = "frame",
         pc \in {"stopping", "verdict"} => req[r].kind = "stop",
         pc \notin {"saving", "click", "accepted", "flushScroll", "flushPointer"}
  PROVE  Goto(r, pc, code) \in Handler
<1> DEFINE h == [req[r] EXCEPT !.pc = pc, !.reply = code, !.job = "none"]
           d == [Idle EXCEPT !.kind = req[r].kind, !.pc = pc, !.reply = code,
                             !.save = req[r].save]
<1>1. CASE pc # "done"
  <2>1. h \in HandlerType
    BY Handlers DEF HandlerType, Jobs
  <2>2. h.pc = pc /\ h.kind = req[r].kind /\ h.job = "none"
    BY Handlers DEF HandlerType
  <2>3. WellPlaced(h)
    BY <2>2 DEF WellPlaced
  <2> QED
    BY <1>1, <2>1, <2>3 DEF Goto, Handler
<1>2. CASE pc = "done"
  <2>1. d \in HandlerType
    BY IdleType, Handlers DEF HandlerType
  <2>2. d.pc = "done" /\ d.job = "none"
    BY <1>2, IdleType DEF HandlerType, Idle
  <2>3. WellPlaced(d)
    BY <2>2 DEF WellPlaced
  <2> QED
    BY <1>2, <2>1, <2>3 DEF Goto, Handler
<1> QED
  BY <1>1, <1>2

LEMMA AnswerType ==
  ASSUME TypeInv, NEW r \in Req, NEW code \in Nat, Answer(r, code)
  PROVE  req' \in [Req -> Handler]
<1>1. Goto(r, Done(r), code) \in Handler
  BY GotoType DEF Done, PCs
<1> QED
  BY <1>1, OneMoves DEF Answer

LEMMA SetPhaseType ==
  ASSUME TypeInv, NEW r \in Req, NEW to \in Phases, NEW code \in Nat,
         NEW next \in {"done", "unlock", "drain", "verdict", "summarize"},
         next = "unlock" => req[r].kind = "frame",
         next = "verdict" => req[r].kind = "stop",
         req[r].job = "none",
         SetPhase(r, to, code, next)
  PROVE  req' \in [Req -> Handler] /\ phase' \in Phases
<1> DEFINE h == [req[r] EXCEPT !.pc = "saving", !.save = to, !.reply = code, !.next = next]
<1>1. h \in HandlerType
  BY Handlers DEF HandlerType, PCs
<1>2. h.pc = "saving" /\ h.next = next /\ h.kind = req[r].kind /\ h.job = "none"
  BY Handlers DEF HandlerType
<1>3. WellPlaced(h)
  BY <1>2 DEF WellPlaced
<1>4. req' \in [Req -> Handler]
  BY <1>1, <1>3, OneMoves DEF SetPhase, Handler
<1> QED
  BY <1>4 DEF SetPhase

LEMMA FailCaptureType ==
  ASSUME TypeInv, NEW r \in Req, NEW code \in Nat, NEW next \in {"drain", "summarize"},
         req[r].job = "none", FailCapture(r, code, next)
  PROVE  req' \in [Req -> Handler] /\ phase' \in Phases
<1> DEFINE h == [req[r] EXCEPT !.pc = next, !.reply = code]
<1>1. CASE Live
  BY <1>1, SetPhaseType DEF FailCapture, Phases
<1>2. CASE ~Live
  <2>1. h \in HandlerType
    BY Handlers DEF HandlerType, PCs
  <2>2. h.pc = next /\ h.job = "none"
    BY Handlers DEF HandlerType
  <2>3. h \in Handler
    BY <2>1, <2>2 DEF WellPlaced, Handler
  <2> QED
    BY <1>2, <2>3, OneMoves DEF FailCapture, TypeInv, TypeOK
<1> QED
  BY <1>1, <1>2

\* Where a handler may wait for a job of the chain.
JobPlaces(kind) ==
  CASE kind = "scroll" -> {"place", "set"}
    [] kind = "pointer" -> {"place", "set"}
    [] kind = "click" -> {"flushPointer", "click", "accepted"}
    [] kind = "frame" -> {"flushPointer", "admit", "persisting"}
    [] kind = "stop" -> {"flushPointer", "drain"}
    [] OTHER -> {}

LEMMA EnqueueType ==
  ASSUME TypeInv, NEW r \in Req, NEW event \in EventType, NEW pc \in JobPlaces(req[r].kind),
         Enqueue(r, event, pc)
  PROVE  req' \in [Req -> Handler] /\ tail' \in TicketType
<1> DEFINE h == [req[r] EXCEPT !.pc = pc, !.job = "queued", !.event = event,
                               !.tailSeat = tail.next]
<1>1. tail.next \in Nat /\ tail' \in TicketType
  BY MemoryType DEF Enqueue, TicketType
<1>2. pc \in PCs
  BY Handlers DEF JobPlaces, PCs, HandlerType
<1>3. h \in HandlerType
  BY <1>1, <1>2, Handlers DEF HandlerType, Jobs
<1>4. h.pc = pc /\ h.kind = req[r].kind /\ h.job = "queued"
  BY Handlers DEF HandlerType
<1>5. WellPlaced(h)
  BY <1>4 DEF WellPlaced, JobPlaces
<1> QED
  BY <1>1, <1>3, <1>5, OneMoves DEF Enqueue, Handler

LEMMA FlushType ==
  ASSUME TypeInv, NEW r \in Req, NEW k \in {"scroll", "pointer"},
         NEW pc \in JobPlaces(req[r].kind), req[r].job = "none", Flush(r, k, pc)
  PROVE  /\ req' \in [Req -> Handler]
         /\ tail' \in TicketType /\ pending' \in PendingType
<1> DEFINE h == [req[r] EXCEPT !.pc = pc]
<1>0. pending \in PendingType /\ tail \in TicketType
  BY MemoryType
<1>1. CASE pending[k] = NoEvent
  <2>1. pc \in PCs
    BY Handlers DEF JobPlaces, PCs, HandlerType
  <2>2. h \in HandlerType
    BY <2>1, Handlers DEF HandlerType
  <2>3. h.pc = pc /\ h.kind = req[r].kind /\ h.job = "none"
    BY Handlers DEF HandlerType
  <2>4. WellPlaced(h)
    BY <2>3 DEF WellPlaced, JobPlaces
  <2> QED
    BY <1>0, <1>1, <2>2, <2>4, OneMoves DEF Flush, Handler
<1>2. CASE pending[k] # NoEvent
  <2>1. pending[k] \in EventType
    BY <1>0 DEF PendingType
  <2> QED
    BY <1>0, <1>2, <2>1, EnqueueType, NoEventType DEF Flush, PendingType
<1> QED
  BY <1>1, <1>2

-----------------------------------------------------------------------------
(* Each action keeps TypeInv.                                                *)

LEMMA ClaimKeepsType == ASSUME TypeInv, NEW r \in Req, Claim(r) PROVE TypeInv'
<1>0. req[r].receipt \in Int /\ req[r].job = "none"
  BY Handlers DEF HandlerType, Claim, Dispatched, At
<1>1. req' \in [Req -> Handler] /\ phase' \in Phases
  <2>1. CASE phase = "ready"
    BY <1>0, <2>1, SetPhaseType DEF Claim, Phases
  <2>2. CASE phase # "ready"
    BY <2>2, AnswerType, Parts DEF Claim, RestType
  <2> QED
    BY <2>1, <2>2
<1>2. clock' \in ClockType
  BY <1>0, MemoryType DEF Claim, ClockType
<1> QED
  BY <1>1, <1>2, Parts, PartsPrime DEF RestType, Claim, disk, logs

LEMMA FailKeepsType == ASSUME TypeInv, NEW r \in Req, Fail(r) PROVE TypeInv'
<1>0. req[r].job = "none"
  BY DEF Fail, Dispatched, At
<1>1. req' \in [Req -> Handler] /\ phase' \in Phases
  <2>1. CASE Live
    BY <1>0, <2>1, SetPhaseType DEF Fail, Phases
  <2>2. CASE ~Live
    BY <2>2, AnswerType, Parts DEF Fail, RestType
  <2> QED
    BY <2>1, <2>2
<1> QED
  BY <1>1, Parts, PartsPrime DEF RestType, Fail, memory, disk, logs

LEMMA ChallengeKeepsType == ASSUME TypeInv, NEW r \in Req, Challenge(r) PROVE TypeInv'
<1>0. req[r].job = "none"
  BY DEF Challenge, Dispatched, At
<1>1. req' \in [Req -> Handler] /\ phase' \in Phases
  <2>1. CASE Answer(r, 409) /\ UNCHANGED phase
    BY <2>1, AnswerType, Parts DEF RestType
  <2>2. CASE SetPhase(r, "failed", 429, "done")
    BY <1>0, <2>2, SetPhaseType DEF Phases
  <2>3. CASE Answer(r, 200) /\ UNCHANGED phase
    BY <2>3, AnswerType, Parts DEF RestType
  <2> QED
    BY <2>1, <2>2, <2>3 DEF Challenge
<1>2. gate' \in GateType
  BY MemoryType DEF Challenge, GateType
<1> QED
  BY <1>1, <1>2, Parts, PartsPrime DEF RestType, Challenge, disk, logs

LEMMA FlushScrollKeepsType == ASSUME TypeInv, NEW r \in Req, FlushScroll(r) PROVE TypeInv'
<1>0. req[r].job = "none" /\ req[r].kind \in {"pointer", "click", "frame", "stop"}
  BY DEF FlushScroll, At, TypeInv, WellPlaced
<1>1. (IF req[r].kind = "pointer" THEN "place" ELSE "flushPointer") \in JobPlaces(req[r].kind)
  BY <1>0 DEF JobPlaces
<1> QED
  BY <1>0, <1>1, FlushType, Parts, PartsPrime DEF RestType, FlushScroll, disk, logs

LEMMA FlushPointerKeepsType == ASSUME TypeInv, NEW r \in Req, FlushPointer(r) PROVE TypeInv'
<1>0. req[r].job = "none" /\ req[r].kind \in {"scroll", "click", "frame", "stop"}
  BY DEF FlushPointer, At, TypeInv, WellPlaced
<1>1. AfterFlushPointer(req[r].kind) \in JobPlaces(req[r].kind)
  BY <1>0 DEF JobPlaces, AfterFlushPointer
<1> QED
  BY <1>0, <1>1, FlushType, Parts, PartsPrime DEF RestType, FlushPointer, disk, logs

LEMMA SampleType ==
  ASSUME TypeInv, NEW r \in Req, req[r].kind \in Observed
  PROVE  Sample(r) \in EventType
<1>1. req[r].receipt \in Int
  BY Handlers DEF HandlerType
<1> QED
  BY <1>1 DEF Sample, EventType

LEMMA CoalesceKeepsType == ASSUME TypeInv, NEW r \in Req, Coalesce(r) PROVE TypeInv'
<1> DEFINE k == req[r].kind
           from == IF k = "scroll" THEN pending[k].from \cup {r} ELSE {r}
<1>0. req[r].job = "none" /\ k \in {"scroll", "pointer"}
  BY DEF Coalesce, At, TypeInv, WellPlaced
<1>1. Sample(r) \in EventType /\ pending \in PendingType
  BY <1>0, SampleType, MemoryType DEF Observed
<1>2. from \in SUBSET Req
  BY <1>0, <1>1 DEF PendingType, EventType
<1>3. [Sample(r) EXCEPT !.from = from] \in EventType
  BY <1>1, <1>2 DEF EventType
<1>4. req' \in [Req -> Handler] /\ phase' \in Phases /\ pending' \in PendingType
  <2>1. CASE k = "scroll" /\ Cardinality(from) > ScrollBound
    <3>1. SetPhase(r, "failed", 429, "done") /\ UNCHANGED pending
      BY <2>1 DEF Coalesce
    <3> QED
      BY <1>0, <1>1, <3>1, SetPhaseType DEF Phases
  <2>2. CASE ~(k = "scroll" /\ Cardinality(from) > ScrollBound)
    <3>1. /\ pending' = [pending EXCEPT ![k] = [Sample(r) EXCEPT !.from = from]]
          /\ Answer(r, 200) /\ UNCHANGED phase
      BY <2>2 DEF Coalesce
    <3>2. pending' \in PendingType
      BY <1>0, <1>1, <1>3, <3>1 DEF PendingType
    <3> QED
      BY <3>1, <3>2, AnswerType, Parts DEF RestType
  <2> QED
    BY <2>1, <2>2
<1> QED
  BY <1>4, Parts, PartsPrime DEF RestType, Coalesce, disk, logs

LEMMA FlushOwnKeepsType == ASSUME TypeInv, NEW r \in Req, FlushOwn(r) PROVE TypeInv'
<1>0. req[r].job = "none" /\ req[r].kind \in {"scroll", "pointer"}
  BY DEF FlushOwn, At, TypeInv, WellPlaced
<1>1. "set" \in JobPlaces(req[r].kind)
  BY <1>0 DEF JobPlaces
<1> QED
  BY <1>0, <1>1, FlushType, Parts, PartsPrime DEF RestType, FlushOwn, disk, logs

LEMMA SetPendingKeepsType == ASSUME TypeInv, NEW r \in Req, SetPending(r) PROVE TypeInv'
<1>0. req[r].kind \in {"scroll", "pointer"}
  BY DEF SetPending, At, TypeInv, WellPlaced
<1>1. Sample(r) \in EventType
  BY <1>0, SampleType DEF Observed
<1>2. pending' \in PendingType
  BY <1>0, <1>1, MemoryType DEF SetPending, PendingType
<1>3. req' \in [Req -> Handler]
  BY AnswerType DEF SetPending
<1> QED
  BY <1>2, <1>3, Parts, PartsPrime DEF RestType, SetPending, disk, logs

LEMMA QueueClickKeepsType == ASSUME TypeInv, NEW r \in Req, QueueClick(r) PROVE TypeInv'
<1>0. req[r].kind = "click"
  BY DEF QueueClick, At, TypeInv, WellPlaced
<1>1. Sample(r) \in EventType /\ "accepted" \in JobPlaces(req[r].kind)
  BY <1>0, SampleType DEF Observed, JobPlaces
<1>2. req' \in [Req -> Handler] /\ tail' \in TicketType
  BY <1>1, EnqueueType DEF QueueClick
<1> QED
  BY <1>2, Parts, PartsPrime DEF RestType, QueueClick, disk, logs

LEMMA AnswerClickKeepsType == ASSUME TypeInv, NEW r \in Req, AnswerClick(r) PROVE TypeInv'
<1>1. req' \in [Req -> Handler]
  BY AnswerType DEF AnswerClick
<1> QED
  BY <1>1, Parts, PartsPrime DEF RestType, AnswerClick, memory, disk, logs

LEMMA RateAfterType ==
  ASSUME NEW receipt \in Int, gate \in GateType
  PROVE  RateAfter(receipt) \in GateType
<1> DEFINE latest == IF receipt > gate.receipt THEN receipt ELSE gate.receipt
           fresh == gate.start < 0 \/ latest - gate.start >= RateWindow
<1>1. latest \in Int
  BY DEF GateType
<1> HIDE DEF latest
<1> HIDE DEF fresh
<1> DEFINE start == IF fresh THEN latest ELSE gate.start
           count == (IF fresh THEN 0 ELSE gate.count) + 1
<1>2. start \in Int /\ count \in Nat /\ gate.requests + 1 \in Nat
  BY <1>1 DEF GateType
<1> HIDE DEF start, count
<1>3. [gate EXCEPT !.receipt = latest, !.start = start, !.count = count,
                   !.requests = gate.requests + 1] \in GateType
  BY <1>1, <1>2 DEF GateType
<1>4. RateAfter(receipt)
        = [gate EXCEPT !.receipt = latest, !.start = start, !.count = count,
                       !.requests = gate.requests + 1]
  BY DEF RateAfter, GateType, latest, fresh, start, count
<1> QED
  BY <1>3, <1>4

LEMMA ObservedEventKeepsType == ASSUME TypeInv, NEW r \in Req, ObservedEvent(r) PROVE TypeInv'
<1> DEFINE pc == IF req[r].kind = "scroll" THEN "flushPointer" ELSE "flushScroll"
           h == [req[r] EXCEPT !.pc = pc]
<1>0. req[r].job = "none" /\ req[r].kind \in {"pointer", "scroll", "click"}
      /\ req[r].receipt \in Int
  BY Handlers DEF ObservedEvent, Dispatched, At, Observed, HandlerType
<1>1. gate \in GateType /\ RateAfter(req[r].receipt) \in GateType
  BY <1>0, MemoryType, RateAfterType
<1>2. h \in Handler
  <2>1. h \in HandlerType
    BY Handlers DEF HandlerType, PCs
  <2>2. h.pc = pc /\ h.kind = req[r].kind /\ h.job = "none"
    BY <1>0, Handlers DEF HandlerType
  <2>3. h.pc \in {"flushScroll", "flushPointer"}
        /\ (h.pc = "flushScroll" => h.kind \in {"pointer", "click"})
        /\ (h.pc = "flushPointer" => h.kind = "scroll")
    BY <1>0, <2>2
  <2> HIDE DEF h
  <2>4. WellPlaced(h)
    BY <2>2, <2>3 DEF WellPlaced
  <2> QED
    BY <2>1, <2>4 DEF Handler
<1>3. req' \in [Req -> Handler] /\ phase' \in Phases /\ gate' \in GateType
  <2>1. CASE Answer(r, 409) /\ UNCHANGED <<phase, gate>>
    BY <1>1, <2>1, AnswerType, Parts DEF RestType
  <2>2. CASE \E code \in {409, 400} : RefuseEvent(r, code)
    BY <1>0, <1>1, <2>2, SetPhaseType DEF RefuseEvent, Phases
  <2>3. CASE gate' = RateAfter(req[r].receipt) /\ req' = [req EXCEPT ![r] = h]
             /\ UNCHANGED phase
    BY <1>1, <1>2, <2>3, OneMoves, Parts DEF RestType
  <2>4. CASE gate' = RateAfter(req[r].receipt) /\ SetPhase(r, "failed", 429, "done")
    BY <1>0, <1>1, <2>4, SetPhaseType DEF Phases
  <2> QED
    BY <2>1, <2>2, <2>3, <2>4 DEF ObservedEvent
<1> QED
  BY <1>3, Parts, PartsPrime DEF RestType, ObservedEvent, disk, logs

\* A handler with no job that moves to a place any kind may be in, or any place
\* its kind may be in.
LEMMA MoveType ==
  ASSUME TypeInv, NEW r \in Req, NEW h \in HandlerType,
         h.job = "none",
         \/ h.pc \in {"idle", "body", "done", "drain", "draining", "summarize", "publish",
                      "closing", "leaving"}
         \/ h.kind \in {"frame", "stop"} /\ h.pc = "flushScroll"
         \/ h.kind = "frame" /\ h.pc \in {"enter", "admit", "persisting", "unlock"}
         \/ h.kind = "stop" /\ h.pc \in {"stopping", "verdict"}
         \/ h.pc = "saving" /\ h.next \in {"done", "drain", "summarize"},
         req' = [req EXCEPT ![r] = h]
  PROVE  req' \in [Req -> Handler]
<1>1. WellPlaced(h)
  BY DEF WellPlaced
<1> QED
  BY <1>1, OneMoves DEF Handler

LEMMA ArriveKeepsType ==
  ASSUME TypeInv, NEW r \in Req, NEW k \in Kinds, Arrive(r, k)
  PROVE  TypeInv'
<1> DEFINE receipt == IF k \in Stamped THEN now ELSE Unset
           h == [req[r] EXCEPT !.kind = k, !.pc = "body", !.receipt = receipt]
<1>0. receipt \in Int
  BY DEF TypeInv, TypeOK, Unset
<1> HIDE DEF receipt
<1>1. h \in HandlerType /\ h.pc = "body" /\ h.job = req[r].job
  BY <1>0, Handlers DEF HandlerType, PCs
<1>2. req[r].pc = "idle" /\ req' = [req EXCEPT ![r] = h]
  BY DEF Arrive, NextUp, receipt
<1>3. req[r].job = "none"
  BY <1>2, Handlers DEF Handler, WellPlaced, HandlerType
<1>4. req' \in [Req -> Handler]
  BY <1>1, <1>2, <1>3, MoveType
<1> QED
  BY <1>4, Parts, PartsPrime DEF RestType, Arrive, memory, disk, logs

LEMMA ArriveOnBadClockKeepsType ==
  ASSUME TypeInv, NEW r \in Req, NEW k \in Kinds, ArriveOnBadClock(r, k)
  PROVE  TypeInv'
<1> DEFINE code == 500
           h == [req[r] EXCEPT !.kind = k, !.pc = "saving", !.save = "failed",
                               !.reply = code, !.next = "done"]
           g == [req[r] EXCEPT !.kind = k, !.pc = "done", !.reply = code]
<1>0. code \in Nat /\ req[r] \in HandlerType
  BY Handlers
<1> HIDE DEF code
<1>1. req[r].pc = "idle" /\ req[r].job = "none"
  BY Handlers DEF ArriveOnBadClock, NextUp, Handler, WellPlaced, HandlerType
<1>2. h \in HandlerType /\ h.pc = "saving" /\ h.next = "done" /\ h.job = "none"
  <2>1. h \in HandlerType
    BY <1>0 DEF HandlerType, PCs, Phases
  <2>2. h.pc = "saving" /\ h.next = "done" /\ h.job = req[r].job
    BY Handlers DEF HandlerType
  <2> QED
    BY <1>1, <2>1, <2>2
<1>3. g \in HandlerType /\ g.pc = "done" /\ g.job = "none"
  <2>1. g \in HandlerType
    BY <1>0 DEF HandlerType, PCs
  <2>2. g.pc = "done" /\ g.job = req[r].job
    BY Handlers DEF HandlerType
  <2> QED
    BY <1>1, <2>1, <2>2
<1>4. req' \in [Req -> Handler] /\ phase' \in Phases
  <2>1. CASE Live
    <3>1. req' = [req EXCEPT ![r] = h] /\ phase' = "failed"
      BY <2>1 DEF ArriveOnBadClock, code
    <3> QED
      BY <1>2, <3>1, MoveType DEF Phases
  <2>2. CASE ~Live
    <3>1. req' = [req EXCEPT ![r] = g] /\ phase' = phase
      BY <2>2 DEF ArriveOnBadClock, code
    <3> QED
      BY <1>3, <3>1, MoveType, Parts DEF RestType
  <2> QED
    BY <2>1, <2>2
<1> QED
  BY <1>4, Parts, PartsPrime DEF RestType, ArriveOnBadClock, memory, disk, logs

LEMMA RefuseKeepsType == ASSUME TypeInv, NEW r \in Req, Refuse(r) PROVE TypeInv'
<1>1. Goto(r, "done", 400) \in Handler
  BY GotoType DEF PCs
<1>2. req' \in [Req -> Handler]
  BY <1>1, OneMoves DEF Refuse
<1> QED
  BY <1>2, Parts, PartsPrime DEF RestType, Refuse, memory, disk, logs

LEMMA PhaseSavedKeepsType == ASSUME TypeInv, NEW r \in Req, PhaseSaved(r) PROVE TypeInv'
<1>1. /\ req[r].reply \in Nat /\ req[r].save \in Phases
      /\ req[r].next \in {"done", "unlock", "drain", "verdict", "summarize"}
      /\ req[r].next = "unlock" => req[r].kind = "frame"
      /\ req[r].next = "verdict" => req[r].kind = "stop"
  BY Handlers DEF PhaseSaved, At, HandlerType, Handler, WellPlaced
<1>2. Goto(r, req[r].next, req[r].reply) \in Handler
  BY <1>1, GotoType DEF PCs
<1>3. req' \in [Req -> Handler]
  BY <1>2, OneMoves DEF PhaseSaved
<1> QED
  BY <1>1, <1>3, Parts, PartsPrime DEF RestType, PhaseSaved, memory, logs

LEMMA EnterFrameKeepsType == ASSUME TypeInv, NEW r \in Req, EnterFrame(r) PROVE TypeInv'
<1> DEFINE h == [req[r] EXCEPT !.pc = "enter", !.lockSeat = lock.next]
<1>0. lock.next \in Nat /\ lock' \in TicketType
  BY MemoryType DEF EnterFrame, TicketType
<1>1. req[r].kind = "frame" /\ req[r].job = "none"
  BY DEF EnterFrame, Dispatched, At
<1>2. h \in HandlerType /\ h.pc = "enter" /\ h.kind = "frame" /\ h.job = "none"
  BY <1>0, <1>1, Handlers DEF HandlerType, PCs
<1>3. req' \in [Req -> Handler]
  BY <1>2, MoveType DEF EnterFrame
<1> QED
  BY <1>0, <1>3, Parts, PartsPrime DEF RestType, EnterFrame, disk, logs

LEMMA RejectType == ASSUME tally \in TallyType, Reject PROVE tally' \in TallyType
<1> DEFINE received == tally.received + 1
           rejected == tally.rejected + 1
<1>1. received \in Nat /\ rejected \in Nat
  BY DEF TallyType
<1>2. tally' = [tally EXCEPT !.received = received, !.rejected = rejected]
  BY DEF Reject, TallyType
<1> HIDE DEF received, rejected
<1> QED
  BY <1>1, <1>2 DEF TallyType

LEMMA CheckFrameKeepsType == ASSUME TypeInv, NEW r \in Req, CheckFrame(r) PROVE TypeInv'
<1>0. req[r].job = "none" /\ req[r].kind = "frame"
  BY DEF CheckFrame, At, TypeInv, WellPlaced
<1>1. req' \in [Req -> Handler] /\ phase' \in Phases
  <2>1. CASE Answer(r, 429) /\ UNCHANGED phase
    BY <2>1, AnswerType, Parts DEF RestType
  <2>2. CASE FailCapture(r, 429, "summarize")
    BY <1>0, <2>2, FailCaptureType
  <2>3. CASE SetPhase(r, "failed", 400, "unlock")
    BY <1>0, <2>3, SetPhaseType DEF Phases
  <2>4. CASE FailCapture(r, 429, "drain")
    BY <1>0, <2>4, FailCaptureType
  <2>5. ASSUME NEW size \in FrameSizes, UNCHANGED phase,
               req' = [req EXCEPT ![r] = [@ EXCEPT !.pc = "flushScroll", !.size = size]]
        PROVE  req' \in [Req -> Handler] /\ phase' \in Phases
    <3> DEFINE h == [req[r] EXCEPT !.pc = "flushScroll", !.size = size]
    <3>1. size \in Nat
      BY BrokerAssumption
    <3>2. h \in HandlerType /\ h.pc = "flushScroll" /\ h.kind = "frame" /\ h.job = "none"
      BY <1>0, <3>1, Handlers DEF HandlerType, PCs
    <3>3. req' = [req EXCEPT ![r] = h]
      BY <2>5
    <3> QED
      BY <2>5, <3>2, <3>3, MoveType, Parts DEF RestType
  <2> QED
    BY <2>1, <2>2, <2>3, <2>4, <2>5 DEF CheckFrame
<1>2. tally' \in TallyType
  <2>1. tally \in TallyType
    BY MemoryType
  <2>2. CASE Reject
    BY <2>1, <2>2, RejectType
  <2>3. CASE tally' = [tally EXCEPT !.received = @ + 1]
    BY <2>1, <2>3 DEF TallyType
  <2> QED
    BY <2>2, <2>3 DEF CheckFrame
<1> QED
  BY <1>1, <1>2, Parts, PartsPrime DEF RestType, CheckFrame, disk, logs

LEMMA AdmitFrameKeepsType == ASSUME TypeInv, NEW r \in Req, AdmitFrame(r) PROVE TypeInv'
<1>0. req[r].kind = "frame" /\ req[r].size \in Nat
  BY Handlers DEF AdmitFrame, At, Handler, WellPlaced, HandlerType
<1>1. "persisting" \in JobPlaces(req[r].kind)
  BY <1>0 DEF JobPlaces
<1>2. req' \in [Req -> Handler] /\ tail' \in TicketType
  BY <1>1, NoEventType, EnqueueType DEF AdmitFrame
<1>3. load' \in LoadType
  <2>1. load \in LoadType
    BY MemoryType
  <2> DEFINE pending1 == load.pending + 1
             inflight1 == load.inflight + req[r].size
  <2>2. pending1 \in Int /\ inflight1 \in Int
    BY <1>0, <2>1 DEF LoadType
  <2>3. load' = [load EXCEPT !.pending = pending1, !.inflight = inflight1]
    BY <2>1 DEF AdmitFrame, LoadType
  <2> HIDE DEF pending1, inflight1
  <2> QED
    BY <2>1, <2>2, <2>3 DEF LoadType
<1>4. lock' \in TicketType
  <2>1. lock \in TicketType
    BY MemoryType
  <2> QED
    BY <2>1 DEF AdmitFrame, TicketType
<1> QED
  BY <1>2, <1>3, <1>4, Parts, PartsPrime DEF RestType, AdmitFrame, disk, logs

LEMMA UnlockKeepsType == ASSUME TypeInv, NEW r \in Req, Unlock(r) PROVE TypeInv'
<1>1. req[r].reply \in Nat
  BY Handlers DEF HandlerType
<1>2. Goto(r, "done", req[r].reply) \in Handler
  BY <1>1, GotoType DEF PCs
<1>3. req' \in [Req -> Handler]
  BY <1>2, OneMoves DEF Unlock
<1>4. lock' \in TicketType
  <2>1. lock \in TicketType
    BY MemoryType
  <2> QED
    BY <2>1 DEF Unlock, TicketType
<1> QED
  BY <1>3, <1>4, Parts, PartsPrime DEF RestType, Unlock, disk, logs

-----------------------------------------------------------------------------
(* The jobs of persistenceTail.                                              *)

\* A job goes on: only `job` changes.
LEMMA JobMoves ==
  ASSUME TypeInv, NEW r \in Req, NEW job \in Jobs \ {"none", "queued"},
         req[r].job # "none",
         job \in {"writing", "imaged", "starting"} => req[r].pc = "persisting",
         job = "appending" => req[r].pc # "persisting",
         req' = [req EXCEPT ![r] = [@ EXCEPT !.job = job]]
  PROVE  req' \in [Req -> Handler]
<1> DEFINE h == [req[r] EXCEPT !.job = job]
<1>0. req[r] \in HandlerType /\ WellPlaced(req[r])
  BY Handlers DEF Handler
<1>1. h \in HandlerType
  BY <1>0 DEF HandlerType
<1>2. h.pc = req[r].pc /\ h.kind = req[r].kind /\ h.next = req[r].next /\ h.job = job
  BY <1>0 DEF HandlerType
<1> HIDE DEF h
<1>3. WellPlaced(h)
  BY <1>0, <1>2 DEF WellPlaced
<1>4. req' = [req EXCEPT ![r] = h]
  BY DEF h
<1> QED
  BY <1>1, <1>3, <1>4, OneMoves DEF Handler

LEMMA StartFrameKeepsType == ASSUME TypeInv, NEW r \in Req, StartFrame(r) PROVE TypeInv'
<1>0. req[r].receipt \in Int /\ clock \in ClockType /\ load \in LoadType
  BY Handlers, MemoryType DEF HandlerType
<1>1. req[r].job # "none" /\ req[r].pc = "persisting"
  BY DEF StartFrame, JobTurn, FrameJob
<1>2. req' \in [Req -> Handler]
  BY <1>1, JobMoves DEF StartFrame, Jobs
<1>3. load' \in LoadType
  BY <1>0 DEF StartFrame, LoadType
<1>4. clock' \in ClockType
  <2>1. CASE clock.first = Unset
    BY <1>0, <2>1 DEF StartFrame, ClockType, Offsets
  <2>2. CASE clock.first # Unset
    <3> DEFINE offset == Larger(req[r].receipt - clock.first, clock.frame + 1)
    <3>1. clock' = [clock EXCEPT !.frame = offset]
      BY <2>2 DEF StartFrame
    <3>2. offset \in Nat
      BY <1>0 DEF ClockType, Offsets, Unset, Larger
    <3> QED
      BY <1>0, <3>1, <3>2 DEF ClockType, Offsets
  <2> QED
    BY <2>1, <2>2
<1> QED
  BY <1>2, <1>3, <1>4, Parts, PartsPrime DEF RestType, StartFrame, disk, logs

LEMMA WriteImageKeepsType == ASSUME TypeInv, NEW r \in Req, WriteImage(r) PROVE TypeInv'
<1>1. req[r].job # "none" /\ req[r].pc = "persisting"
  BY Handlers DEF WriteImage, Handler, WellPlaced
<1>2. req' \in [Req -> Handler]
  BY <1>1, JobMoves DEF WriteImage, Jobs
<1>3. load.frames \in Nat
  BY MemoryType DEF LoadType
<1> QED
  BY <1>2, <1>3, Parts, PartsPrime DEF RestType, WriteImage, memory

LEMMA SettleFrameType ==
  ASSUME TypeInv, NEW r \in Req, NEW bytes \in Nat, NEW code \in Nat,
         SettleFrame(r, bytes, code)
  PROVE  req' \in [Req -> Handler] /\ load' \in LoadType /\ tail' \in TicketType
<1>0. load \in LoadType /\ tail \in TicketType /\ req[r].size \in Nat
  BY MemoryType, Handlers DEF HandlerType
<1>1. load' \in LoadType
  <2> DEFINE p == load.pending - 1
             i == load.inflight - req[r].size
             b == load.bytes + bytes
  <2>1. p \in Int /\ i \in Int /\ b \in Nat
    BY <1>0 DEF LoadType
  <2>2. load' = [load EXCEPT !.pending = p, !.inflight = i, !.bytes = b]
    BY <1>0 DEF SettleFrame, LoadType
  <2> HIDE DEF p, i, b
  <2> QED
    BY <1>0, <2>1, <2>2 DEF LoadType
<1>2. tail' \in TicketType
  BY <1>0 DEF SettleFrame, TicketType
<1>3. Goto(r, "done", code) \in Handler
  BY GotoType DEF PCs
<1>4. req' \in [Req -> Handler]
  BY <1>3, OneMoves DEF SettleFrame
<1> QED
  BY <1>1, <1>2, <1>4

LEMMA AppendFrameKeepsType == ASSUME TypeInv, NEW r \in Req, AppendFrame(r) PROVE TypeInv'
<1>0. /\ load \in LoadType /\ clock \in ClockType /\ tally \in TallyType
      /\ tail \in TicketType /\ req[r].size \in Nat
      /\ frameLog \in Seq(FrameLine)
  BY MemoryType, Handlers DEF HandlerType, TypeInv, TypeOK
<1>1. req[r].job # "none" /\ req[r].pc = "persisting"
  BY Handlers DEF AppendFrame, Handler, WellPlaced
<1>2. frameLog' \in Seq(FrameLine)
  <2>1. [id |-> load.frames, offset |-> clock.frame, from |-> r] \in FrameLine
    BY <1>0 DEF LoadType, ClockType, FrameLine
  <2> QED
    BY <1>0, <2>1 DEF AppendFrame
<1>3. tally' \in TallyType
  <2>1. tally \in TallyType /\ tally' = [tally EXCEPT !.accepted = @ + 1]
    BY <1>0 DEF AppendFrame
  <2> QED
    BY <2>1 DEF TallyType
<1>4. /\ req' \in [Req -> Handler] /\ load' \in LoadType /\ tail' \in TicketType
      /\ phase' \in Phases
  <2>1. CASE phase = "claimed"
    <3>1. req' \in [Req -> Handler]
      BY <1>1, <2>1, JobMoves DEF AppendFrame, Jobs
    <3>2. load' \in LoadType
      BY <1>0, <2>1 DEF AppendFrame, LoadType
    <3> QED
      BY <1>0, <2>1, <3>1, <3>2 DEF AppendFrame, Phases
  <2>2. CASE phase # "claimed"
    BY <1>0, <2>2, SettleFrameType, Parts DEF AppendFrame, RestType
  <2> QED
    BY <2>1, <2>2
<1> QED
  BY <1>2, <1>3, <1>4, Parts, PartsPrime DEF RestType, AppendFrame

LEMMA RunningSavedKeepsType == ASSUME TypeInv, NEW r \in Req, RunningSaved(r) PROVE TypeInv'
<1>1. req' \in [Req -> Handler] /\ load' \in LoadType /\ tail' \in TicketType
  BY SettleFrameType DEF RunningSaved
<1> QED
  BY <1>1, Parts, PartsPrime DEF RestType, RunningSaved, logs, Phases

LEMMA StartObservedKeepsType == ASSUME TypeInv, NEW r \in Req, StartObserved(r) PROVE TypeInv'
<1>0. /\ req[r].event \in EventType /\ clock \in ClockType /\ gate \in GateType
  BY Handlers, MemoryType DEF HandlerType
<1>1. req[r].job # "none" /\ req[r].pc # "persisting"
  BY DEF StartObserved, JobTurn, FrameJob
<1>2. req' \in [Req -> Handler]
  BY <1>1, JobMoves DEF StartObserved, Jobs
<1>3. gate' \in GateType
  BY <1>0 DEF StartObserved, GateType
<1>4. clock' \in ClockType
  <2> DEFINE offset == Larger(Larger(0, req[r].event.receipt - clock.first), clock.observed + 1)
  <2>1. offset \in Nat
    BY <1>0 DEF ClockType, EventType, Offsets, Unset, Larger
  <2>2. clock' = [clock EXCEPT !.observed = offset]
    BY DEF StartObserved
  <2> QED
    BY <1>0, <2>1, <2>2 DEF ClockType, Offsets
<1> QED
  BY <1>2, <1>3, <1>4, Parts, PartsPrime DEF RestType, StartObserved, disk, logs

LEMMA AppendObservedKeepsType == ASSUME TypeInv, NEW r \in Req, AppendObserved(r) PROVE TypeInv'
<1> DEFINE h == [req[r] EXCEPT !.job = "none"]
           line == [seq |-> gate.seq, type |-> req[r].event.type, offset |-> clock.observed,
                    from |-> req[r].event.from]
<1>0. /\ req[r] \in HandlerType /\ WellPlaced(req[r]) /\ req[r].event \in EventType
      /\ clock \in ClockType /\ gate \in GateType /\ tail \in TicketType
      /\ observedLog \in Seq(ObservedLine)
  BY Handlers, MemoryType DEF HandlerType, Handler, TypeInv, TypeOK
<1>1. h \in Handler
  <2>1. h \in HandlerType
    BY <1>0 DEF HandlerType, Jobs
  <2>2. h.pc = req[r].pc /\ h.kind = req[r].kind /\ h.next = req[r].next /\ h.job = "none"
    BY <1>0 DEF HandlerType
  <2> HIDE DEF h
  <2>3. WellPlaced(h)
    BY <1>0, <2>2 DEF WellPlaced
  <2> QED
    BY <2>1, <2>3 DEF Handler
<1>2. req' \in [Req -> Handler]
  BY <1>1, OneMoves DEF AppendObserved
<1>3. tail' \in TicketType
  BY <1>0 DEF AppendObserved, TicketType
<1>4. line \in ObservedLine
  BY <1>0 DEF ClockType, GateType, EventType, ObservedLine
<1>5. observedLog' \in Seq(ObservedLine)
  BY <1>0, <1>4 DEF AppendObserved
<1> QED
  BY <1>2, <1>3, <1>5, Parts, PartsPrime DEF RestType, AppendObserved

LEMMA RejectJobType ==
  ASSUME TypeInv, NEW r \in Req, RejectJob(r)
  PROVE  /\ req' \in [Req -> Handler] /\ tally' \in TallyType
         /\ load' \in LoadType /\ tail' \in TicketType
<1>0. load \in LoadType /\ tail \in TicketType /\ tally \in TallyType
  BY MemoryType
<1>1. CASE FrameJob(r)
  <2>1. tally' = [tally EXCEPT !.rejected = @ + 1] /\ SettleFrame(r, 0, 500)
    BY <1>1 DEF RejectJob
  <2>2. tally' \in TallyType
    BY <1>0, <2>1 DEF TallyType
  <2> QED
    BY <2>1, <2>2, SettleFrameType
<1>2. CASE ~FrameJob(r)
  <2> DEFINE h == IF req[r].kind = "stop" THEN Goto(r, "verdict", NoReply)
                                          ELSE Goto(r, Done(r), 500)
  <2>1. h \in Handler
    <3>1. CASE req[r].kind = "stop"
      BY <3>1, GotoType DEF PCs, NoReply
    <3>2. CASE req[r].kind # "stop"
      BY <3>2, GotoType DEF PCs, Done
    <3> QED
      BY <3>1, <3>2
  <2>2. /\ req' = [req EXCEPT ![r] = h] /\ UNCHANGED <<tally, load>>
        /\ tail' = [tail EXCEPT !.served = @ + 1]
    BY <1>2 DEF RejectJob
  <2> HIDE DEF h
  <2>3. tail' \in TicketType
    BY <1>0, <2>2 DEF TicketType
  <2> QED
    BY <1>0, <2>1, <2>2, <2>3, OneMoves
<1> QED
  BY <1>1, <1>2

LEMMA ThrowJobKeepsType ==
  ASSUME TypeInv, NEW r \in Req, req[r].job # "none", ThrowJob(r)
  PROVE  TypeInv'
<1>1. /\ req' \in [Req -> Handler] /\ tally' \in TallyType
      /\ load' \in LoadType /\ tail' \in TicketType /\ phase' \in Phases
  <2>1. CASE phase # "failed"
    <3>1. req' \in [Req -> Handler]
      BY <2>1, JobMoves DEF ThrowJob, Jobs
    <3> QED
      BY <2>1, <3>1, MemoryType DEF ThrowJob, Phases
  <2>2. CASE phase = "failed"
    BY <2>2, RejectJobType DEF ThrowJob, Phases
  <2> QED
    BY <2>1, <2>2
<1> QED
  BY <1>1, Parts, PartsPrime DEF RestType, ThrowJob, disk, logs

LEMMA RefuseJobKeepsType == ASSUME TypeInv, NEW r \in Req, RefuseJob(r) PROVE TypeInv'
BY ThrowJobKeepsType DEF RefuseJob, JobTurn

LEMMA DiskFaultKeepsType == ASSUME TypeInv, NEW r \in Req, DiskFault(r) PROVE TypeInv'
BY ThrowJobKeepsType DEF DiskFault

LEMMA FailureSavedKeepsType == ASSUME TypeInv, NEW r \in Req, FailureSaved(r) PROVE TypeInv'
<1>1. /\ req' \in [Req -> Handler] /\ tally' \in TallyType
      /\ load' \in LoadType /\ tail' \in TicketType
  BY RejectJobType DEF FailureSaved
<1> QED
  BY <1>1, Parts, PartsPrime DEF RestType, FailureSaved, logs, Phases

-----------------------------------------------------------------------------
(* /stop, the summary and close().                                           *)

LEMMA EnterStopKeepsType == ASSUME TypeInv, NEW r \in Req, EnterStop(r) PROVE TypeInv'
<1> DEFINE h == [req[r] EXCEPT !.pc = "stopping", !.lockSeat = lock.next]
<1>0. /\ req[r] \in HandlerType /\ lock.next \in Nat
      /\ req[r].kind = "stop" /\ req[r].job = "none"
  BY Handlers, MemoryType DEF EnterStop, Dispatched, At, TicketType
<1>1. h \in HandlerType /\ h.pc = "stopping" /\ h.kind = "stop" /\ h.job = "none"
  BY <1>0 DEF HandlerType, PCs
<1>2. req' \in [Req -> Handler]
  BY <1>1, MoveType DEF EnterStop
<1> QED
  BY <1>2, Parts, PartsPrime DEF RestType, EnterStop, memory, disk, logs

LEMMA CheckStopKeepsType == ASSUME TypeInv, NEW r \in Req, CheckStop(r) PROVE TypeInv'
<1> DEFINE h == [req[r] EXCEPT !.pc = "flushScroll"]
<1>0. req[r] \in HandlerType /\ req[r].job = "none" /\ req[r].kind = "stop"
  BY Handlers DEF CheckStop, At, Handler, WellPlaced
<1>1. h \in HandlerType /\ h.pc = "flushScroll" /\ h.kind = "stop" /\ h.job = "none"
  BY <1>0 DEF HandlerType, PCs
<1>2. req' \in [Req -> Handler] /\ phase' \in Phases
  <2>1. CASE FailCapture(r, 429, "drain")
    BY <1>0, <2>1, FailCaptureType
  <2>2. CASE Answer(r, 400) /\ UNCHANGED phase
    BY <2>2, AnswerType, Parts DEF RestType
  <2>3. CASE req' = [req EXCEPT ![r] = h] /\ UNCHANGED phase
    BY <1>1, <2>3, MoveType, Parts DEF RestType
  <2> QED
    BY <2>1, <2>2, <2>3 DEF CheckStop
<1> QED
  BY <1>2, Parts, PartsPrime DEF RestType, CheckStop, memory, disk, logs

LEMMA DrainKeepsType == ASSUME TypeInv, NEW r \in Req, Drain(r) PROVE TypeInv'
<1> DEFINE h == [req[r] EXCEPT !.pc = "draining", !.tailSeat = tail.next]
<1>0. req[r] \in HandlerType /\ tail.next \in Nat /\ req[r].job = "none"
  BY Handlers, MemoryType DEF Drain, At, TicketType
<1>1. h \in HandlerType /\ h.pc = "draining" /\ h.job = "none"
  BY <1>0 DEF HandlerType, PCs
<1>2. req' \in [Req -> Handler]
  BY <1>1, MoveType DEF Drain
<1> QED
  BY <1>2, Parts, PartsPrime DEF RestType, Drain, memory, disk, logs

LEMMA EventsLostKeepsType == ASSUME TypeInv, NEW r \in Req, EventsLost(r) PROVE TypeInv'
<1>1. req' \in [Req -> Handler] /\ phase' \in Phases
  BY SetPhaseType DEF EventsLost, AtVerdict, Phases, NoReply
<1> QED
  BY <1>1, Parts, PartsPrime DEF RestType, EventsLost, memory, disk, logs

LEMMA VerdictKeepsType == ASSUME TypeInv, NEW r \in Req, Verdict(r) PROVE TypeInv'
<1>0. req[r].job = "none" /\ tally \in TallyType
  BY MemoryType DEF Verdict, AtVerdict
<1>1. PICK final \in FinalCounts :
        /\ tally' = [tally EXCEPT !.acked = final.acked]
        /\ \/ SetPhase(r, "stopped", 200, "summarize")
           \/ FailCapture(r, 200, "summarize")
  BY DEF Verdict
<1>2. final.acked \in Nat
  BY BrokerAssumption
<1>3. tally' \in TallyType
  BY <1>0, <1>1, <1>2 DEF TallyType
<1>4. req' \in [Req -> Handler] /\ phase' \in Phases
  <2>1. CASE SetPhase(r, "stopped", 200, "summarize")
    BY <1>0, <2>1, SetPhaseType DEF Phases
  <2>2. CASE FailCapture(r, 200, "summarize")
    BY <1>0, <2>2, FailCaptureType
  <2> QED
    BY <1>1, <2>1, <2>2
<1> QED
  BY <1>3, <1>4, Parts, PartsPrime DEF RestType, Verdict, disk, logs

LEMMA SummarizeKeepsType == ASSUME TypeInv, NEW r \in Req, Summarize(r) PROVE TypeInv'
<1> DEFINE draft == [status |-> IF phase = "stopped" THEN "stopped" ELSE "failed",
                     accepted |-> tally.accepted, acked |-> tally.acked,
                     rejected |-> tally.rejected]
           h == [req[r] EXCEPT !.pc = "publish", !.draft = draft]
<1>0. req[r] \in HandlerType /\ tally \in TallyType /\ req[r].job = "none"
  BY Handlers, MemoryType DEF Summarize, AtSummary
<1>1. draft \in SummaryType
  BY <1>0 DEF SummaryType, TallyType
<1>2. req' = [req EXCEPT ![r] = h]
  BY DEF Summarize
<1> HIDE DEF draft
<1>3. h \in HandlerType /\ h.pc = "publish" /\ h.job = "none"
  BY <1>0, <1>1 DEF HandlerType, PCs
<1>4. req' \in [Req -> Handler]
  BY <1>2, <1>3, MoveType
<1> QED
  BY <1>4, Parts, PartsPrime DEF RestType, Summarize, memory, disk, logs

LEMMA PublishKeepsType == ASSUME TypeInv, NEW r \in Req, Publish(r) PROVE TypeInv'
<1>0. req[r].reply \in Nat /\ req[r].draft \in SummaryType
  BY Handlers DEF HandlerType
<1>1. Goto(r, IF req[r].kind = "close" THEN "closing" ELSE Done(r), req[r].reply) \in Handler
  <2>1. CASE req[r].kind = "close"
    BY <1>0, <2>1, GotoType DEF PCs
  <2>2. CASE req[r].kind # "close"
    BY <1>0, <2>2, GotoType DEF PCs, Done
  <2> QED
    BY <2>1, <2>2
<1>2. req' \in [Req -> Handler]
  BY <1>1, OneMoves DEF Publish
<1> QED
  BY <1>0, <1>2, Parts, PartsPrime DEF RestType, Publish, memory, logs

LEMMA CloseKeepsType == ASSUME TypeInv, NEW r \in Req, Close(r) PROVE TypeInv'
<1> DEFINE h == [req[r] EXCEPT !.kind = "close", !.pc = "saving",
                               !.save = "failed", !.next = "drain"]
           g == [req[r] EXCEPT !.kind = "close", !.pc = "closing"]
<1>0. req[r] \in HandlerType /\ req[r].pc = "idle" /\ req[r].job = "none" /\ "close" \in Kinds
  BY Handlers DEF Close, NextUp, Handler, WellPlaced, HandlerType, Kinds
<1>1. h \in HandlerType
  BY <1>0 DEF HandlerType, PCs, Phases
<1>2. h.pc = "saving" /\ h.next = "drain" /\ h.job = "none"
  BY <1>0 DEF HandlerType
<1>3. g \in HandlerType /\ g.pc = "closing" /\ g.job = "none"
  BY <1>0 DEF HandlerType, PCs
<1>4. req' \in [Req -> Handler] /\ phase' \in Phases
  <2>1. CASE Live
    <3>1. req' = [req EXCEPT ![r] = h] /\ phase' = "failed"
      BY <2>1 DEF Close
    <3> QED
      BY <1>1, <1>2, <3>1, MoveType DEF Phases
  <2>2. CASE ~Live
    <3>1. req' = [req EXCEPT ![r] = g] /\ phase' = phase
      BY <2>2 DEF Close
    <3> QED
      BY <1>3, <3>1, MoveType, Parts DEF RestType
  <2> QED
    BY <2>1, <2>2
<1> QED
  BY <1>4, Parts, PartsPrime DEF RestType, Close, disk, logs

LEMMA StopListeningKeepsType == ASSUME TypeInv, NEW r \in Req, StopListening(r) PROVE TypeInv'
<1> DEFINE h == [req[r] EXCEPT !.pc = "leaving"]
<1>0. req[r] \in HandlerType /\ req[r].job = "none"
  BY Handlers DEF StopListening, At
<1>1. h \in HandlerType /\ h.pc = "leaving" /\ h.job = "none"
  BY <1>0 DEF HandlerType, PCs
<1>2. req' \in [Req -> Handler]
  BY <1>1, MoveType DEF StopListening
<1> QED
  BY <1>2, Parts, PartsPrime DEF RestType, StopListening, disk, logs

LEMMA ClosedKeepsType == ASSUME TypeInv, NEW r \in Req, Closed(r) PROVE TypeInv'
<1>0. req[r].reply \in Nat
  BY Handlers DEF HandlerType
<1>1. Goto(r, "done", req[r].reply) \in Handler
  BY <1>0, GotoType DEF PCs
<1>2. req' \in [Req -> Handler]
  BY <1>1, OneMoves DEF Closed
<1> QED
  BY <1>2, Parts, PartsPrime DEF RestType, Closed, memory, disk, logs

-----------------------------------------------------------------------------

LEMMA InitType == Init => TypeInv
<1> SUFFICES ASSUME Init PROVE TypeInv
  OBVIOUS
<1>1. Idle \in Handler
  <2>1. Idle.pc = "idle" /\ Idle.job = "none"
    BY DEF Idle
  <2> HIDE DEF Idle
  <2> QED
    BY <2>1, IdleType DEF WellPlaced, Handler
<1>2. req \in [Req -> Handler]
  BY <1>1 DEF Init
<1>3. RestType
  BY NoEventType, NoSummaryType
  DEF Init, RestType, ClockType, TallyType, LoadType, GateType, PendingType, TicketType,
      Offsets, Unset, Phases
<1> QED
  BY <1>2, <1>3, Parts

LEMMA StepType == TypeInv /\ [Next]_vars => TypeInv'
<1> SUFFICES ASSUME TypeInv, [Next]_vars PROVE TypeInv'
  OBVIOUS
<1>1. CASE Tick
  <2>1. now' \in Nat
    BY <1>1, Parts DEF RestType, Tick
  <2> QED
    BY <1>1, <2>1, Parts, PartsPrime DEF RestType, Tick, memory, disk, logs
<1>2. ASSUME NEW r \in Req, Environment(r) PROVE TypeInv'
  BY <1>2, ArriveKeepsType, ArriveOnBadClockKeepsType, CloseKeepsType DEF Environment
<1>3. ASSUME NEW r \in Req, Callback(r) PROVE TypeInv'
  BY <1>3, RefuseKeepsType, ClaimKeepsType, FailKeepsType, ChallengeKeepsType,
     ObservedEventKeepsType, EnterFrameKeepsType, EnterStopKeepsType, PhaseSavedKeepsType,
     PublishKeepsType, StopListeningKeepsType, ClosedKeepsType, WriteImageKeepsType,
     AppendFrameKeepsType, RunningSavedKeepsType, AppendObservedKeepsType,
     DiskFaultKeepsType, FailureSavedKeepsType
  DEF Callback
<1>4. ASSUME NEW r \in Req, Continuation(r) PROVE TypeInv'
  BY <1>4, FlushScrollKeepsType, FlushPointerKeepsType, CoalesceKeepsType,
     FlushOwnKeepsType, SetPendingKeepsType, QueueClickKeepsType, AnswerClickKeepsType,
     CheckFrameKeepsType, AdmitFrameKeepsType, UnlockKeepsType, CheckStopKeepsType,
     DrainKeepsType, EventsLostKeepsType, VerdictKeepsType, SummarizeKeepsType,
     StartFrameKeepsType, StartObservedKeepsType, RefuseJobKeepsType
  DEF Continuation
<1>5. CASE UNCHANGED vars
  BY <1>5, Parts, PartsPrime DEF RestType, vars
<1> QED
  BY <1>1, <1>2, <1>3, <1>4, <1>5 DEF Next

\* Every variable keeps the shape the code gives it: no offset is ever negative,
\* whatever order requests are received and processed in, and a handler is only
\* ever where the code of its kind can be.
THEOREM TypeCorrect == Spec => []TypeInv
BY InitType, StepType, PTL DEF Spec

THEOREM TypesOK == Spec => []TypeOK
<1>1. TypeInv => TypeOK
  BY DEF TypeInv
<1> QED
  BY <1>1, TypeCorrect, PTL

-----------------------------------------------------------------------------
(***************************************************************************)
(* What the broker acknowledges is durable, and what it calls stopped is   *)
(* complete and frozen.                                                    *)
(*                                                                         *)
(* Every step moves one handler, and does to the evidence one of eight     *)
(* things: nothing, link a job, begin it, put an image in place, append a  *)
(* frame's line, fail a job, or settle one.  Section 2 says which action   *)
(* does which; section 3 shows that each of the eight keeps the invariant. *)
(***************************************************************************)

-----------------------------------------------------------------------------
(* 1. The eight effects.                                                     *)

Others(r) == \A q \in Req \ {r} : req'[q] = req[q]

\* The handler will reach the verdict of /stop because a flush failed.
ToVerdict(h) == h.pc = "verdict" \/ (h.pc = "saving" /\ h.next = "verdict")

Acked(h) == h.kind = "frame" /\ h.reply = 200

\* What the invariant sees of a handler, where no job is involved.
Calm(old, new) ==
  /\ old.job = "none" /\ new.job = "none"
  /\ new.pc # "idle"
  /\ new.draft.status = "stopped" => new.draft = old.draft
  /\ Acked(new) => Acked(old)

\* Everything the evidence consists of or is counted by.
SameEvidence == /\ UNCHANGED <<images, frameLog>>
                /\ load'.frames = load.frames
                /\ tally'.accepted = tally.accepted

PhaseMoves(r) ==
  \/ phase' \in {phase, "failed"}
  \/ phase = "ready" /\ phase' = "claimed"
  \/ phase = "running" /\ phase' = "stopped" /\ tally.accepted > 0 /\ Settled(r)

Still(r) ==
  /\ Others(r)
  /\ Calm(req[r], req'[r])
  /\ req'[r].pc = "draining" => req'[r].tailSeat = tail.next
  /\ ToVerdict(req'[r]) => phase' = "failed"
  /\ summary' \in {summary, req[r].draft}
  /\ PhaseMoves(r)
  /\ UNCHANGED tail /\ SameEvidence

\* The summary's text is fixed.
Drafts(r) ==
  /\ Others(r)
  /\ req[r].job = "none" /\ req'[r].job = "none" /\ req'[r].pc = "publish"
  /\ Acked(req'[r]) => Acked(req[r])
  /\ req'[r].draft.status = "stopped" =>
       phase = "stopped" /\ req'[r].draft.accepted = tally.accepted
  /\ UNCHANGED <<tail, phase, summary>> /\ SameEvidence

\* A handler whose job changes keeps the rest that matters.
KeepsRest(r) ==
  /\ req'[r].pc = req[r].pc /\ req'[r].next = req[r].next
  /\ req'[r].kind = req[r].kind /\ req'[r].reply = req[r].reply
  /\ req'[r].draft = req[r].draft /\ req'[r].tailSeat = req[r].tailSeat

Links(r) ==
  /\ Others(r)
  /\ req[r].job = "none" /\ req'[r].job = "queued" /\ req'[r].tailSeat = tail.next
  /\ req'[r].pc \notin {"idle", "draining", "verdict", "saving"}
  /\ req'[r].draft = req[r].draft
  /\ Acked(req'[r]) => Acked(req[r])
  /\ tail' = [tail EXCEPT !.next = @ + 1]
  /\ UNCHANGED <<phase, summary>> /\ SameEvidence

Begins(r) ==
  /\ Others(r) /\ KeepsRest(r)
  /\ req[r].job = "queued" /\ req'[r].job \in {"writing", "appending"}
  /\ req[r].tailSeat = tail.served
  /\ Live /\ ~\E q \in Req : Settled(q)
  /\ UNCHANGED <<tail, phase, summary, tally, images, frameLog>>

PutsImage(r) ==
  /\ Others(r) /\ KeepsRest(r)
  /\ req[r].job = "writing" /\ req'[r].job = "imaged"
  /\ images' = images \cup {load.frames}
  /\ UNCHANGED <<tail, phase, summary, tally, load, frameLog>>

FailsJob(r) ==
  /\ Others(r) /\ KeepsRest(r)
  /\ req[r].job # "none" /\ req'[r].job = "failing" /\ req[r].tailSeat = tail.served
  /\ phase' = "failed"
  /\ UNCHANGED <<tail, summary>> /\ SameEvidence

\* The job of r is over: whoever waits for its link may go on.
Ends(r) ==
  /\ Others(r)
  /\ req[r].job # "none" /\ req[r].tailSeat = tail.served /\ req'[r].job = "none"
  /\ req'[r].pc \notin {"idle", "draining", "saving"}
  /\ req'[r].draft \in {req[r].draft, NoSummary}
  /\ tail' = [tail EXCEPT !.served = @ + 1]

Settles(r) ==
  /\ Ends(r)
  /\ req'[r].pc = "verdict" => phase = "failed"
  /\ Acked(req'[r]) => Acked(req[r]) \/ req[r].job = "starting"
  /\ UNCHANGED <<phase, summary>> /\ SameEvidence

\* A frame's line is appended.
Appends(r) ==
  /\ Others(r)
  /\ req[r].job = "imaged"
  /\ frameLog' = Append(frameLog, [id |-> load.frames, offset |-> clock.frame, from |-> r])
  /\ tally' = [tally EXCEPT !.accepted = @ + 1]
  /\ \/ KeepsRest(r) /\ req'[r].job = "starting" /\ UNCHANGED tail
     \/ Ends(r) /\ req'[r].pc # "verdict"
  /\ phase' = phase \/ (phase = "claimed" /\ phase' = "running")
  /\ load'.frames = load.frames
  /\ UNCHANGED <<summary, images>>

Effect(r) == \/ Still(r) \/ Drafts(r) \/ Links(r) \/ Begins(r) \/ PutsImage(r)
             \/ FailsJob(r) \/ Settles(r) \/ Appends(r)

-----------------------------------------------------------------------------
(* 2. What each action does.                                                 *)

LEMMA Replaced ==
  ASSUME TypeInv, NEW r \in Req, NEW h, req' = [req EXCEPT ![r] = h]
  PROVE  req'[r] = h /\ Others(r)
BY DEF TypeInv, TypeOK, Others

LEMMA GotoFields ==
  ASSUME TypeInv, NEW r \in Req, NEW pc \in PCs, NEW code \in Nat
  PROVE  LET h == Goto(r, pc, code) IN
         /\ h.pc = pc /\ h.kind = req[r].kind /\ h.reply = code /\ h.job = "none"
         /\ h.draft \in {req[r].draft, NoSummary}
<1> DEFINE h == [req[r] EXCEPT !.pc = pc, !.reply = code, !.job = "none"]
           d == [Idle EXCEPT !.kind = req[r].kind, !.pc = pc, !.reply = code,
                             !.save = req[r].save]
<1>0. req[r] \in HandlerType
  BY Handlers
<1>1. /\ h.pc = pc /\ h.kind = req[r].kind /\ h.reply = code /\ h.job = "none"
      /\ h.draft = req[r].draft
  BY <1>0 DEF HandlerType
<1>2. /\ d.pc = pc /\ d.kind = req[r].kind /\ d.reply = code /\ d.job = "none"
      /\ d.draft = NoSummary
  BY DEF Idle
<1> QED
  BY <1>1, <1>2 DEF Goto

\* Going on without a job.
LEMMA GotoCalm ==
  ASSUME TypeInv, NEW r \in Req, NEW pc \in PCs \ {"idle", "draining", "saving"},
         NEW code \in Nat, code = 200 => Acked(req[r]) \/ req[r].kind # "frame",
         req[r].job = "none", req' = [req EXCEPT ![r] = Goto(r, pc, code)]
  PROVE  /\ Others(r) /\ Calm(req[r], req'[r])
         /\ req'[r].pc = pc
<1>1. req'[r] = Goto(r, pc, code) /\ Others(r)
  BY Replaced
<1>2. /\ req'[r].pc = pc /\ req'[r].kind = req[r].kind /\ req'[r].reply = code
      /\ req'[r].job = "none" /\ req'[r].draft \in {req[r].draft, NoSummary}
  BY <1>1, GotoFields
<1> QED
  BY <1>1, <1>2 DEF Calm, Acked, NoSummary

LEMMA AnswerCalm ==
  ASSUME TypeInv, NEW r \in Req, NEW code \in Nat, code # 200 \/ req[r].kind # "frame",
         req[r].job = "none", Answer(r, code)
  PROVE  /\ Others(r) /\ Calm(req[r], req'[r])
         /\ req'[r].pc \notin {"draining", "saving", "verdict"}
<1>1. Done(r) \in PCs \ {"idle", "draining", "saving", "verdict"}
  BY DEF Done, PCs
<1> QED
  BY <1>1, GotoCalm DEF Answer

LEMMA SetPhaseCalm ==
  ASSUME TypeInv, NEW r \in Req, NEW to, NEW code, NEW next,
         code # 200 \/ req[r].kind # "frame",
         req[r].job = "none", SetPhase(r, to, code, next)
  PROVE  /\ Others(r) /\ Calm(req[r], req'[r])
         /\ req'[r].pc = "saving" /\ req'[r].next = next /\ phase' = to
<1> DEFINE h == [req[r] EXCEPT !.pc = "saving", !.save = to, !.reply = code, !.next = next]
<1>0. req[r] \in HandlerType
  BY Handlers
<1>1. req'[r] = h /\ Others(r) /\ phase' = to
  BY Replaced DEF SetPhase
<1>2. /\ h.pc = "saving" /\ h.next = next /\ h.kind = req[r].kind /\ h.reply = code
      /\ h.job = req[r].job /\ h.draft = req[r].draft
  BY <1>0 DEF HandlerType
<1> QED
  BY <1>1, <1>2 DEF Calm, Acked

LEMMA FailCaptureCalm ==
  ASSUME TypeInv, NEW r \in Req, NEW code, NEW next \in {"drain", "summarize"},
         code # 200 \/ req[r].kind # "frame",
         req[r].job = "none", FailCapture(r, code, next)
  PROVE  /\ Others(r) /\ Calm(req[r], req'[r])
         /\ req'[r].pc # "draining" /\ ~ToVerdict(req'[r]) /\ phase' \in {phase, "failed"}
<1> DEFINE h == [req[r] EXCEPT !.pc = next, !.reply = code]
<1>0. req[r] \in HandlerType
  BY Handlers
<1>1. CASE Live
  BY <1>1, SetPhaseCalm DEF FailCapture, ToVerdict
<1>2. CASE ~Live
  <2>1. req'[r] = h /\ Others(r) /\ phase' = phase
    BY <1>2, Replaced DEF FailCapture
  <2>2. /\ h.pc = next /\ h.kind = req[r].kind /\ h.reply = code
        /\ h.job = req[r].job /\ h.draft = req[r].draft
    BY <1>0 DEF HandlerType
  <2> QED
    BY <2>1, <2>2 DEF Calm, Acked, ToVerdict
<1> QED
  BY <1>1, <1>2

\* Moves that keep all that the invariant sees.
LEMMA MoveCalm ==
  ASSUME TypeInv, NEW r \in Req, NEW h, req' = [req EXCEPT ![r] = h],
         req[r].job = "none", h.job = "none", h.draft = req[r].draft, h.pc # "idle",
         Acked(h) => Acked(req[r])
  PROVE  Others(r) /\ Calm(req[r], req'[r]) /\ req'[r] = h
<1>1. req'[r] = h /\ Others(r)
  BY Replaced
<1> QED
  BY <1>1 DEF Calm

LEMMA Idles ==
  ASSUME IInv, NEW r \in Req, req[r].pc = "idle"
  PROVE  req[r].job = "none" /\ req[r].reply = NoReply
BY DEF IInv, AcksLogged, TypeInv, WellPlaced

LEMMA ArriveStill ==
  ASSUME IInv, NEW r \in Req, NEW k \in Kinds, Arrive(r, k) PROVE Still(r)
<1> DEFINE at == IF k \in Stamped THEN now ELSE Unset
           h == [req[r] EXCEPT !.kind = k, !.pc = "body", !.receipt = at]
<1>0. TypeInv /\ req[r] \in HandlerType /\ req[r].job = "none" /\ req[r].reply = NoReply
  BY Handlers, Idles DEF IInv, Arrive, NextUp
<1>1. h.pc = "body" /\ h.reply = NoReply /\ h.job = "none" /\ h.draft = req[r].draft
  BY <1>0 DEF HandlerType
<1>2. req' = [req EXCEPT ![r] = h]
  BY DEF Arrive
<1> HIDE DEF h
<1>3. h.pc # "idle" /\ ~Acked(h)
  BY <1>1 DEF Acked, NoReply
<1>4. Others(r) /\ Calm(req[r], req'[r]) /\ req'[r] = h
  BY <1>0, <1>1, <1>2, <1>3, MoveCalm
<1> QED
  BY <1>1, <1>4 DEF Arrive, Still, PhaseMoves, SameEvidence, ToVerdict, memory, disk

LEMMA ArriveOnBadClockStill ==
  ASSUME IInv, NEW r \in Req, NEW k \in Kinds, ArriveOnBadClock(r, k) PROVE Still(r)
<1> DEFINE h == [req[r] EXCEPT !.kind = k, !.pc = "saving", !.save = "failed",
                               !.reply = 500, !.next = "done"]
           g == [req[r] EXCEPT !.kind = k, !.pc = "done", !.reply = 500]
<1>0. TypeInv /\ req[r] \in HandlerType /\ req[r].job = "none"
  BY Handlers, Idles DEF IInv, ArriveOnBadClock, NextUp
<1>1. /\ h.pc = "saving" /\ h.next = "done" /\ h.reply = 500
      /\ h.job = "none" /\ h.draft = req[r].draft
      /\ g.pc = "done" /\ g.reply = 500 /\ g.job = "none" /\ g.draft = req[r].draft
  BY <1>0 DEF HandlerType
<1>a. h.pc # "idle" /\ ~Acked(h) /\ g.pc # "idle" /\ ~Acked(g)
  BY <1>1 DEF Acked
<1>2. \/ req' = [req EXCEPT ![r] = h] /\ phase' = "failed"
      \/ req' = [req EXCEPT ![r] = g] /\ phase' = phase
  BY DEF ArriveOnBadClock
<1> HIDE DEF h, g
<1>3. CASE req' = [req EXCEPT ![r] = h] /\ phase' = "failed"
  <2>0. Others(r) /\ req'[r] = h
    BY <1>0, <1>3, Replaced
  <2>1. Calm(req[r], req'[r])
    BY <1>0, <1>1, <1>a, <2>0 DEF Calm
  <2> QED
    BY <1>1, <1>3, <2>0, <2>1
       DEF ArriveOnBadClock, Still, PhaseMoves, SameEvidence, ToVerdict, memory, disk
<1>4. CASE req' = [req EXCEPT ![r] = g] /\ phase' = phase
  <2>0. Others(r) /\ req'[r] = g
    BY <1>0, <1>4, Replaced
  <2>1. Calm(req[r], req'[r])
    BY <1>0, <1>1, <1>a, <2>0 DEF Calm
  <2> QED
    BY <1>1, <1>4, <2>0, <2>1
       DEF ArriveOnBadClock, Still, PhaseMoves, SameEvidence, ToVerdict, memory, disk
<1> QED
  BY <1>2, <1>3, <1>4

LEMMA RefuseStill == ASSUME IInv, NEW r \in Req, Refuse(r) PROVE Still(r)
<1> DEFINE h == [Idle EXCEPT !.kind = req[r].kind, !.pc = "done", !.reply = 400,
                             !.save = req[r].save]
<1>0. TypeInv /\ req[r].job = "none"
  BY DEF IInv, Refuse, At
<1>1. /\ h.pc = "done" /\ h.reply = 400 /\ h.job = "none" /\ h.draft = NoSummary
  BY DEF Idle
<1>2. req' = [req EXCEPT ![r] = h]
  BY DEF Refuse, Goto
<1> HIDE DEF h
<1>3. req'[r] = h /\ Others(r)
  BY <1>0, <1>2, Replaced
<1>4. Calm(req[r], req'[r])
  BY <1>0, <1>1, <1>3 DEF Calm, Acked, NoSummary
<1> QED
  BY <1>1, <1>3, <1>4 DEF Refuse, Still, PhaseMoves, SameEvidence, ToVerdict, memory, disk

LEMMA PhaseSavedStill == ASSUME IInv, NEW r \in Req, PhaseSaved(r) PROVE Still(r)
<1>0. TypeInv /\ req[r] \in HandlerType /\ req[r].job = "none" /\ req[r].pc = "saving"
  BY Handlers DEF IInv, PhaseSaved, At
<1>1. /\ req[r].next \in PCs \ {"idle", "draining", "saving"}
      /\ req[r].next = "verdict" => phase = "failed"
  BY <1>0 DEF IInv, TypeInv, WellPlaced, FailingMeansFailed, PCs
<1>2. req[r].reply \in Nat /\ (req[r].reply = 200 => Acked(req[r]) \/ req[r].kind # "frame")
  BY <1>0 DEF HandlerType, Acked
<1>3. Others(r) /\ Calm(req[r], req'[r]) /\ req'[r].pc = req[r].next
  BY <1>0, <1>1, <1>2, GotoCalm DEF PhaseSaved
<1> QED
  BY <1>1, <1>3 DEF PhaseSaved, Still, PhaseMoves, SameEvidence, ToVerdict, memory, logs

LEMMA ClaimStill == ASSUME IInv, NEW r \in Req, Claim(r) PROVE Still(r)
<1>0. TypeInv /\ req[r].job = "none" /\ req[r].kind = "claim"
  BY DEF IInv, Claim, Dispatched, At
<1>1. CASE phase = "ready"
  <2>1. SetPhase(r, "claimed", 200, "done")
    BY <1>1 DEF Claim
  <2> QED
    BY <1>0, <1>1, <2>1, SetPhaseCalm
       DEF Claim, Still, PhaseMoves, SameEvidence, ToVerdict, disk
<1>2. CASE phase # "ready"
  BY <1>0, <1>2, AnswerCalm DEF Claim, Still, PhaseMoves, SameEvidence, ToVerdict, disk
<1> QED
  BY <1>1, <1>2

LEMMA FailStill == ASSUME IInv, NEW r \in Req, Fail(r) PROVE Still(r)
<1>0. TypeInv /\ req[r].job = "none" /\ req[r].kind = "fail"
  BY DEF IInv, Fail, Dispatched, At
<1>1. CASE Live
  BY <1>0, <1>1, SetPhaseCalm
     DEF Fail, Still, PhaseMoves, SameEvidence, ToVerdict, memory, disk
<1>2. CASE ~Live
  BY <1>0, <1>2, AnswerCalm
     DEF Fail, Still, PhaseMoves, SameEvidence, ToVerdict, memory, disk
<1> QED
  BY <1>1, <1>2

LEMMA ChallengeStill == ASSUME IInv, NEW r \in Req, Challenge(r) PROVE Still(r)
<1>0. TypeInv /\ req[r].job = "none" /\ req[r].kind = "challenge"
  BY DEF IInv, Challenge, Dispatched, At
<1>1. CASE SetPhase(r, "failed", 429, "done")
  BY <1>0, <1>1, SetPhaseCalm
     DEF Challenge, Still, PhaseMoves, SameEvidence, ToVerdict, disk
<1>2. CASE (Answer(r, 409) \/ Answer(r, 200)) /\ UNCHANGED phase
  <2>1. /\ Others(r) /\ Calm(req[r], req'[r])
        /\ req'[r].pc \notin {"draining", "saving", "verdict"}
    BY <1>0, <1>2, AnswerCalm
  <2> QED
    BY <1>2, <2>1 DEF Challenge, Still, PhaseMoves, SameEvidence, ToVerdict, disk
<1> QED
  BY <1>1, <1>2 DEF Challenge

LEMMA ObservedEventStill == ASSUME IInv, NEW r \in Req, ObservedEvent(r) PROVE Still(r)
<1> DEFINE pc == IF req[r].kind = "scroll" THEN "flushPointer" ELSE "flushScroll"
           h == [req[r] EXCEPT !.pc = pc]
<1>0. TypeInv /\ req[r] \in HandlerType /\ req[r].job = "none" /\ req[r].kind \in Observed
  BY Handlers DEF IInv, ObservedEvent, Dispatched, At
<1>a. /\ summary' = summary /\ UNCHANGED tail /\ SameEvidence
  BY DEF ObservedEvent, SameEvidence, disk
<1>1. ASSUME NEW code \in {400, 409, 429}, SetPhase(r, "failed", code, "done") PROVE Still(r)
  BY <1>0, <1>1, <1>a, SetPhaseCalm DEF Still, PhaseMoves, ToVerdict
<1>2. CASE Answer(r, 409) /\ UNCHANGED phase
  BY <1>0, <1>2, <1>a, AnswerCalm DEF Still, PhaseMoves, ToVerdict
<1>3. CASE req' = [req EXCEPT ![r] = h] /\ UNCHANGED phase
  <2>1. /\ h.pc = pc /\ h.kind = req[r].kind /\ h.reply = req[r].reply
        /\ h.job = "none" /\ h.draft = req[r].draft
    BY <1>0 DEF HandlerType
  <2> HIDE DEF h
  <2>2. Others(r) /\ Calm(req[r], req'[r]) /\ req'[r] = h
    BY <1>0, <1>3, <2>1, MoveCalm DEF Acked
  <2> QED
    BY <1>3, <1>a, <2>1, <2>2 DEF Still, PhaseMoves, ToVerdict
<1> QED
  BY <1>1, <1>2, <1>3 DEF ObservedEvent, RefuseEvent

LEMMA CoalesceStill == ASSUME IInv, NEW r \in Req, Coalesce(r) PROVE Still(r)
<1>0. TypeInv /\ req[r].job = "none" /\ req[r].kind # "frame"
  BY DEF IInv, Coalesce, At, TypeInv, WellPlaced
<1>1. SetPhase(r, "failed", 429, "done") \/ (Answer(r, 200) /\ UNCHANGED phase)
  BY DEF Coalesce
<1>2. CASE SetPhase(r, "failed", 429, "done")
  BY <1>0, <1>2, SetPhaseCalm
     DEF Coalesce, Still, PhaseMoves, SameEvidence, ToVerdict, disk
<1>3. CASE Answer(r, 200) /\ UNCHANGED phase
  BY <1>0, <1>3, AnswerCalm DEF Coalesce, Still, PhaseMoves, SameEvidence, ToVerdict, disk
<1> QED
  BY <1>1, <1>2, <1>3

LEMMA SetPendingStill == ASSUME IInv, NEW r \in Req, SetPending(r) PROVE Still(r)
<1>0. TypeInv /\ req[r].job = "none" /\ req[r].kind # "frame"
  BY DEF IInv, SetPending, At, TypeInv, WellPlaced
<1> QED
  BY <1>0, AnswerCalm DEF SetPending, Still, PhaseMoves, SameEvidence, ToVerdict, disk

LEMMA AnswerClickStill == ASSUME IInv, NEW r \in Req, AnswerClick(r) PROVE Still(r)
<1>0. TypeInv /\ req[r].job = "none" /\ req[r].kind # "frame"
  BY DEF IInv, AnswerClick, At, TypeInv, WellPlaced
<1> QED
  BY <1>0, AnswerCalm
     DEF AnswerClick, Still, PhaseMoves, SameEvidence, ToVerdict, memory, disk

LEMMA EnterFrameStill == ASSUME IInv, NEW r \in Req, EnterFrame(r) PROVE Still(r)
<1> DEFINE h == [req[r] EXCEPT !.pc = "enter", !.lockSeat = lock.next]
<1>0. TypeInv /\ req[r] \in HandlerType /\ req[r].job = "none"
  BY Handlers DEF IInv, EnterFrame, Dispatched, At
<1>1. /\ h.pc = "enter" /\ h.kind = req[r].kind /\ h.reply = req[r].reply
      /\ h.job = "none" /\ h.draft = req[r].draft
  BY <1>0 DEF HandlerType
<1>2. req' = [req EXCEPT ![r] = h]
  BY DEF EnterFrame
<1> HIDE DEF h
<1>3. Others(r) /\ Calm(req[r], req'[r]) /\ req'[r] = h
  BY <1>0, <1>1, <1>2, MoveCalm DEF Acked
<1> QED
  BY <1>1, <1>3 DEF EnterFrame, Still, PhaseMoves, SameEvidence, ToVerdict, disk

LEMMA CheckFrameStill == ASSUME IInv, NEW r \in Req, CheckFrame(r) PROVE Still(r)
<1>0. TypeInv /\ req[r] \in HandlerType /\ req[r].job = "none"
  BY Handlers DEF IInv, CheckFrame, At
<1>a. summary' = summary /\ UNCHANGED tail /\ SameEvidence
  BY MemoryType, <1>0 DEF CheckFrame, SameEvidence, disk, Reject, TallyType
<1>1. CASE Answer(r, 429) /\ UNCHANGED phase
  BY <1>0, <1>1, <1>a, AnswerCalm DEF Still, PhaseMoves, ToVerdict
<1>2. ASSUME NEW next \in {"drain", "summarize"}, FailCapture(r, 429, next) PROVE Still(r)
  BY <1>0, <1>2, <1>a, FailCaptureCalm DEF Still, PhaseMoves
<1>3. CASE SetPhase(r, "failed", 400, "unlock")
  BY <1>0, <1>3, <1>a, SetPhaseCalm DEF Still, PhaseMoves, ToVerdict
<1>4. ASSUME NEW size \in FrameSizes,
             req' = [req EXCEPT ![r] = [@ EXCEPT !.pc = "flushScroll", !.size = size]],
             UNCHANGED phase
      PROVE  Still(r)
  <2> DEFINE h == [req[r] EXCEPT !.pc = "flushScroll", !.size = size]
  <2>1. /\ h.pc = "flushScroll" /\ h.kind = req[r].kind /\ h.reply = req[r].reply
        /\ h.job = "none" /\ h.draft = req[r].draft
    BY <1>0 DEF HandlerType
  <2>2. req' = [req EXCEPT ![r] = h]
    BY <1>4
  <2> HIDE DEF h
  <2>3. Others(r) /\ Calm(req[r], req'[r]) /\ req'[r] = h
    BY <1>0, <2>1, <2>2, MoveCalm DEF Acked
  <2> QED
    BY <1>4, <1>a, <2>1, <2>3 DEF Still, PhaseMoves, ToVerdict
<1> QED
  BY <1>1, <1>2, <1>3, <1>4 DEF CheckFrame

LEMMA UnlockStill == ASSUME IInv, NEW r \in Req, Unlock(r) PROVE Still(r)
<1>0. TypeInv /\ req[r] \in HandlerType /\ req[r].job = "none"
  BY Handlers DEF IInv, Unlock, At
<1>1. req[r].reply \in Nat /\ (req[r].reply = 200 => Acked(req[r]) \/ req[r].kind # "frame")
  BY <1>0 DEF HandlerType, Acked
<1>2. "done" \in PCs \ {"idle", "draining", "saving"}
  BY DEF PCs
<1>3. Others(r) /\ Calm(req[r], req'[r]) /\ req'[r].pc = "done"
  BY <1>0, <1>1, <1>2, GotoCalm DEF Unlock
<1> QED
  BY <1>3 DEF Unlock, Still, PhaseMoves, SameEvidence, ToVerdict, disk

LEMMA EnterStopStill == ASSUME IInv, NEW r \in Req, EnterStop(r) PROVE Still(r)
<1> DEFINE h == [req[r] EXCEPT !.pc = "stopping", !.lockSeat = lock.next]
<1>0. TypeInv /\ req[r] \in HandlerType /\ req[r].job = "none"
  BY Handlers DEF IInv, EnterStop, Dispatched, At
<1>1. /\ h.pc = "stopping" /\ h.kind = req[r].kind /\ h.reply = req[r].reply
      /\ h.job = "none" /\ h.draft = req[r].draft
  BY <1>0 DEF HandlerType
<1>2. req' = [req EXCEPT ![r] = h]
  BY DEF EnterStop
<1> HIDE DEF h
<1>3. Others(r) /\ Calm(req[r], req'[r]) /\ req'[r] = h
  BY <1>0, <1>1, <1>2, MoveCalm DEF Acked
<1> QED
  BY <1>1, <1>3 DEF EnterStop, Still, PhaseMoves, SameEvidence, ToVerdict, memory, disk

LEMMA CheckStopStill == ASSUME IInv, NEW r \in Req, CheckStop(r) PROVE Still(r)
<1> DEFINE h == [req[r] EXCEPT !.pc = "flushScroll"]
<1>0. TypeInv /\ req[r] \in HandlerType /\ req[r].job = "none"
  BY Handlers DEF IInv, CheckStop, At
<1>a. summary' = summary /\ UNCHANGED tail /\ SameEvidence
  BY DEF CheckStop, SameEvidence, disk, memory
<1>1. CASE Answer(r, 400) /\ UNCHANGED phase
  BY <1>0, <1>1, <1>a, AnswerCalm DEF Still, PhaseMoves, ToVerdict
<1>2. CASE FailCapture(r, 429, "drain")
  BY <1>0, <1>2, <1>a, FailCaptureCalm DEF Still, PhaseMoves
<1>3. CASE req' = [req EXCEPT ![r] = h] /\ UNCHANGED phase
  <2>1. /\ h.pc = "flushScroll" /\ h.kind = req[r].kind /\ h.reply = req[r].reply
        /\ h.job = "none" /\ h.draft = req[r].draft
    BY <1>0 DEF HandlerType
  <2> HIDE DEF h
  <2>2. Others(r) /\ Calm(req[r], req'[r]) /\ req'[r] = h
    BY <1>0, <1>3, <2>1, MoveCalm DEF Acked
  <2> QED
    BY <1>3, <1>a, <2>1, <2>2 DEF Still, PhaseMoves, ToVerdict
<1> QED
  BY <1>1, <1>2, <1>3 DEF CheckStop

LEMMA DrainStill == ASSUME IInv, NEW r \in Req, Drain(r) PROVE Still(r)
<1> DEFINE h == [req[r] EXCEPT !.pc = "draining", !.tailSeat = tail.next]
<1>0. TypeInv /\ req[r] \in HandlerType /\ req[r].job = "none"
  BY Handlers DEF IInv, Drain, At
<1>1. /\ h.pc = "draining" /\ h.kind = req[r].kind /\ h.reply = req[r].reply
      /\ h.job = "none" /\ h.draft = req[r].draft /\ h.tailSeat = tail.next
  BY <1>0 DEF HandlerType
<1>2. req' = [req EXCEPT ![r] = h]
  BY DEF Drain
<1> HIDE DEF h
<1>3. Others(r) /\ Calm(req[r], req'[r]) /\ req'[r] = h
  BY <1>0, <1>1, <1>2, MoveCalm DEF Acked
<1> QED
  BY <1>1, <1>3 DEF Drain, Still, PhaseMoves, SameEvidence, ToVerdict, memory, disk

LEMMA EventsLostStill == ASSUME IInv, NEW r \in Req, EventsLost(r) PROVE Still(r)
<1>0. TypeInv /\ req[r].job = "none" /\ req[r].kind # "frame"
  BY DEF IInv, EventsLost, AtVerdict
<1> QED
  BY <1>0, SetPhaseCalm
     DEF EventsLost, Still, PhaseMoves, SameEvidence, ToVerdict, memory, disk

\* The verdict "stopped" is only reached by a handler whose wait is over.
LEMMA VerdictStill == ASSUME IInv, NEW r \in Req, Verdict(r) PROVE Still(r)
<1>0. /\ TypeInv /\ req[r].job = "none" /\ req[r].kind # "frame"
      /\ Settled(r) \/ req[r].pc = "verdict"
  BY DEF IInv, Verdict, AtVerdict
<1>a. summary' = summary /\ UNCHANGED tail /\ SameEvidence
  BY <1>0, MemoryType DEF Verdict, SameEvidence, disk, TallyType
<1>1. ASSUME NEW final \in FinalCounts, Complete(final), SetPhase(r, "stopped", 200, "summarize")
      PROVE  Still(r)
  <2>1. phase = "running" /\ tally.accepted > 0
    BY <1>1 DEF Complete
  <2>2. Settled(r)
    BY <1>0, <2>1 DEF IInv, FailingMeansFailed
  <2>3. /\ Others(r) /\ Calm(req[r], req'[r])
        /\ req'[r].pc = "saving" /\ req'[r].next = "summarize" /\ phase' = "stopped"
    BY <1>0, <1>1, SetPhaseCalm
  <2> QED
    BY <1>a, <2>1, <2>2, <2>3 DEF Still, PhaseMoves, ToVerdict
<1>2. CASE FailCapture(r, 200, "summarize")
  BY <1>0, <1>2, <1>a, FailCaptureCalm DEF Still, PhaseMoves
<1> QED
  BY <1>1, <1>2 DEF Verdict

LEMMA SummarizeDrafts == ASSUME IInv, NEW r \in Req, Summarize(r) PROVE Drafts(r)
<1> DEFINE d == [status |-> IF phase = "stopped" THEN "stopped" ELSE "failed",
                 accepted |-> tally.accepted, acked |-> tally.acked,
                 rejected |-> tally.rejected]
           h == [req[r] EXCEPT !.pc = "publish", !.draft = d]
<1>0. TypeInv /\ req[r] \in HandlerType /\ req[r].job = "none"
  BY Handlers DEF IInv, Summarize, AtSummary
<1>1. /\ h.pc = "publish" /\ h.kind = req[r].kind /\ h.reply = req[r].reply
      /\ h.job = "none" /\ h.draft = d
  BY <1>0 DEF HandlerType
<1>2. d.status = "stopped" => phase = "stopped" /\ d.accepted = tally.accepted
  OBVIOUS
<1>3. req' = [req EXCEPT ![r] = h]
  BY DEF Summarize
<1> HIDE DEF h, d
<1>4. req'[r] = h /\ Others(r)
  BY <1>0, <1>3, Replaced
<1> QED
  BY <1>0, <1>1, <1>2, <1>4 DEF Drafts, Summarize, Acked, SameEvidence, memory, disk

LEMMA PublishStill == ASSUME IInv, NEW r \in Req, Publish(r) PROVE Still(r)
<1> DEFINE pc == IF req[r].kind = "close" THEN "closing" ELSE Done(r)
<1>0. TypeInv /\ req[r] \in HandlerType /\ req[r].job = "none"
  BY Handlers DEF IInv, Publish, At
<1>1. req[r].reply \in Nat /\ (req[r].reply = 200 => Acked(req[r]) \/ req[r].kind # "frame")
  BY <1>0 DEF HandlerType, Acked
<1>2. pc \in PCs \ {"idle", "draining", "saving"} /\ pc # "verdict"
  BY DEF PCs, Done
<1>3. Others(r) /\ Calm(req[r], req'[r]) /\ req'[r].pc = pc
  BY <1>0, <1>1, <1>2, GotoCalm DEF Publish
<1> HIDE DEF pc
<1> QED
  BY <1>2, <1>3 DEF Publish, Still, PhaseMoves, SameEvidence, ToVerdict, memory, logs

LEMMA CloseStill == ASSUME IInv, NEW r \in Req, Close(r) PROVE Still(r)
<1> DEFINE h == [req[r] EXCEPT !.kind = "close", !.pc = "saving",
                               !.save = "failed", !.next = "drain"]
           g == [req[r] EXCEPT !.kind = "close", !.pc = "closing"]
<1>0. TypeInv /\ req[r] \in HandlerType /\ req[r].job = "none"
  BY Handlers, Idles DEF IInv, Close, NextUp
<1>1. /\ h.pc = "saving" /\ h.next = "drain" /\ h.kind = "close"
      /\ h.job = "none" /\ h.draft = req[r].draft
      /\ g.pc = "closing" /\ g.kind = "close" /\ g.job = "none" /\ g.draft = req[r].draft
  BY <1>0 DEF HandlerType
<1>2. \/ req' = [req EXCEPT ![r] = h] /\ phase' = "failed"
      \/ req' = [req EXCEPT ![r] = g] /\ phase' = phase
  BY DEF Close
<1> HIDE DEF h, g
<1>3. CASE req' = [req EXCEPT ![r] = h] /\ phase' = "failed"
  <2>0. Others(r) /\ req'[r] = h
    BY <1>0, <1>3, Replaced
  <2>1. Calm(req[r], req'[r])
    BY <1>0, <1>1, <2>0 DEF Calm, Acked
  <2> QED
    BY <1>1, <1>3, <2>0, <2>1 DEF Close, Still, PhaseMoves, SameEvidence, ToVerdict, disk
<1>4. CASE req' = [req EXCEPT ![r] = g] /\ phase' = phase
  <2>0. Others(r) /\ req'[r] = g
    BY <1>0, <1>4, Replaced
  <2>1. Calm(req[r], req'[r])
    BY <1>0, <1>1, <2>0 DEF Calm, Acked
  <2> QED
    BY <1>1, <1>4, <2>0, <2>1 DEF Close, Still, PhaseMoves, SameEvidence, ToVerdict, disk
<1> QED
  BY <1>2, <1>3, <1>4

LEMMA StopListeningStill == ASSUME IInv, NEW r \in Req, StopListening(r) PROVE Still(r)
<1> DEFINE h == [req[r] EXCEPT !.pc = "leaving"]
<1>0. TypeInv /\ req[r] \in HandlerType /\ req[r].job = "none"
  BY Handlers DEF IInv, StopListening, At
<1>1. /\ h.pc = "leaving" /\ h.kind = req[r].kind /\ h.reply = req[r].reply
      /\ h.job = "none" /\ h.draft = req[r].draft
  BY <1>0 DEF HandlerType
<1>2. req' = [req EXCEPT ![r] = h]
  BY DEF StopListening
<1> HIDE DEF h
<1>3. Others(r) /\ Calm(req[r], req'[r]) /\ req'[r] = h
  BY <1>0, <1>1, <1>2, MoveCalm DEF Acked
<1> QED
  BY <1>1, <1>3 DEF StopListening, Still, PhaseMoves, SameEvidence, ToVerdict, disk

LEMMA ClosedStill == ASSUME IInv, NEW r \in Req, Closed(r) PROVE Still(r)
<1>0. TypeInv /\ req[r] \in HandlerType /\ req[r].job = "none"
  BY Handlers DEF IInv, Closed, At
<1>1. req[r].reply \in Nat /\ (req[r].reply = 200 => Acked(req[r]) \/ req[r].kind # "frame")
  BY <1>0 DEF HandlerType, Acked
<1>2. "done" \in PCs \ {"idle", "draining", "saving"}
  BY DEF PCs
<1>3. Others(r) /\ Calm(req[r], req'[r]) /\ req'[r].pc = "done"
  BY <1>0, <1>1, <1>2, GotoCalm DEF Closed
<1> QED
  BY <1>3 DEF Closed, Still, PhaseMoves, SameEvidence, ToVerdict, memory, disk

\* Linking a job, or going on where there is none to link.
LEMMA EnqueueLinks ==
  ASSUME TypeInv, NEW r \in Req, NEW event, NEW pc \in JobPlaces(req[r].kind),
         Enqueue(r, event, pc), req[r].job = "none", UNCHANGED <<phase, summary>>, SameEvidence
  PROVE  Links(r)
<1> DEFINE h == [req[r] EXCEPT !.pc = pc, !.job = "queued", !.event = event,
                               !.tailSeat = tail.next]
<1>0. req[r] \in HandlerType
  BY Handlers
<1>1. /\ h.pc = pc /\ h.job = "queued" /\ h.kind = req[r].kind /\ h.reply = req[r].reply
      /\ h.tailSeat = tail.next /\ h.draft = req[r].draft
  BY <1>0 DEF HandlerType
<1>2. req' = [req EXCEPT ![r] = h]
  BY DEF Enqueue
<1>3. pc \notin {"idle", "draining", "verdict", "saving"}
  BY <1>0 DEF JobPlaces, HandlerType
<1> HIDE DEF h
<1>4. req'[r] = h /\ Others(r)
  BY <1>2, Replaced
<1> QED
  BY <1>1, <1>3, <1>4 DEF Links, Acked, Enqueue

LEMMA FlushEffect ==
  ASSUME TypeInv, NEW r \in Req, NEW k, NEW pc \in JobPlaces(req[r].kind),
         Flush(r, k, pc), req[r].job = "none", UNCHANGED <<phase, summary>>, SameEvidence
  PROVE  Still(r) \/ Links(r)
<1> DEFINE h == [req[r] EXCEPT !.pc = pc]
<1>0. req[r] \in HandlerType /\ pc \notin {"idle", "draining", "verdict", "saving"}
  BY Handlers DEF JobPlaces, HandlerType
<1>1. CASE pending[k] = NoEvent
  <2>1. /\ h.pc = pc /\ h.kind = req[r].kind /\ h.reply = req[r].reply
        /\ h.job = "none" /\ h.draft = req[r].draft
    BY <1>0 DEF HandlerType
  <2>2. req' = [req EXCEPT ![r] = h] /\ UNCHANGED tail
    BY <1>1 DEF Flush
  <2> HIDE DEF h
  <2>3. Others(r) /\ Calm(req[r], req'[r]) /\ req'[r] = h
    BY <1>0, <2>1, <2>2, MoveCalm DEF Acked
  <2> QED
    BY <1>0, <2>1, <2>2, <2>3 DEF Still, PhaseMoves, ToVerdict
<1>2. CASE pending[k] # NoEvent
  BY <1>2, EnqueueLinks DEF Flush
<1> QED
  BY <1>1, <1>2

LEMMA FlushScrollEffect ==
  ASSUME IInv, NEW r \in Req, FlushScroll(r) PROVE Still(r) \/ Links(r)
<1>0. TypeInv /\ req[r].job = "none" /\ req[r].kind \in {"pointer", "click", "frame", "stop"}
  BY DEF IInv, FlushScroll, At, TypeInv, WellPlaced
<1>1. (IF req[r].kind = "pointer" THEN "place" ELSE "flushPointer") \in JobPlaces(req[r].kind)
  BY <1>0 DEF JobPlaces
<1> QED
  BY <1>0, <1>1, FlushEffect DEF FlushScroll, SameEvidence, disk

LEMMA FlushPointerEffect ==
  ASSUME IInv, NEW r \in Req, FlushPointer(r) PROVE Still(r) \/ Links(r)
<1>0. TypeInv /\ req[r].job = "none" /\ req[r].kind \in {"scroll", "click", "frame", "stop"}
  BY DEF IInv, FlushPointer, At, TypeInv, WellPlaced
<1>1. AfterFlushPointer(req[r].kind) \in JobPlaces(req[r].kind)
  BY <1>0 DEF JobPlaces, AfterFlushPointer
<1> QED
  BY <1>0, <1>1, FlushEffect DEF FlushPointer, SameEvidence, disk

LEMMA FlushOwnEffect ==
  ASSUME IInv, NEW r \in Req, FlushOwn(r) PROVE Still(r) \/ Links(r)
<1>0. TypeInv /\ req[r].job = "none" /\ req[r].kind \in {"scroll", "pointer"}
  BY DEF IInv, FlushOwn, At, TypeInv, WellPlaced
<1>1. "set" \in JobPlaces(req[r].kind)
  BY <1>0 DEF JobPlaces
<1> QED
  BY <1>0, <1>1, FlushEffect DEF FlushOwn, SameEvidence, disk

LEMMA QueueClickLinks == ASSUME IInv, NEW r \in Req, QueueClick(r) PROVE Links(r)
<1>0. TypeInv /\ req[r].job = "none" /\ req[r].kind = "click"
  BY DEF IInv, QueueClick, At, TypeInv, WellPlaced
<1>1. "accepted" \in JobPlaces(req[r].kind)
  BY <1>0 DEF JobPlaces
<1> QED
  BY <1>0, <1>1, EnqueueLinks DEF QueueClick, SameEvidence, disk

LEMMA AdmitFrameLinks == ASSUME IInv, NEW r \in Req, AdmitFrame(r) PROVE Links(r)
<1>0. TypeInv /\ req[r].job = "none" /\ req[r].kind = "frame"
  BY DEF IInv, AdmitFrame, At, TypeInv, WellPlaced
<1>1. "persisting" \in JobPlaces(req[r].kind)
  BY <1>0 DEF JobPlaces
<1>2. load'.frames = load.frames
  BY <1>0, MemoryType DEF AdmitFrame, LoadType
<1> QED
  BY <1>0, <1>1, <1>2, EnqueueLinks DEF AdmitFrame, SameEvidence, disk

\* A step of a job changes nothing of its handler but the job.
LEMMA JobKeepsRest ==
  ASSUME TypeInv, NEW r \in Req, NEW job, req' = [req EXCEPT ![r] = [@ EXCEPT !.job = job]]
  PROVE  Others(r) /\ KeepsRest(r) /\ req'[r].job = job
<1> DEFINE h == [req[r] EXCEPT !.job = job]
<1>0. req[r] \in HandlerType
  BY Handlers
<1>1. /\ h.pc = req[r].pc /\ h.next = req[r].next /\ h.kind = req[r].kind /\ h.job = job
      /\ h.reply = req[r].reply /\ h.draft = req[r].draft /\ h.tailSeat = req[r].tailSeat
  BY <1>0 DEF HandlerType
<1> HIDE DEF h
<1>2. req'[r] = h /\ Others(r)
  BY Replaced DEF h
<1> QED
  BY <1>1, <1>2 DEF KeepsRest

LEMMA StartFrameBegins == ASSUME IInv, NEW r \in Req, StartFrame(r) PROVE Begins(r)
<1>1. Others(r) /\ KeepsRest(r) /\ req'[r].job = "writing"
  BY JobKeepsRest DEF IInv, StartFrame
<1> QED
  BY <1>1 DEF StartFrame, JobTurn, Begins, disk

LEMMA StartObservedBegins == ASSUME IInv, NEW r \in Req, StartObserved(r) PROVE Begins(r)
<1>1. Others(r) /\ KeepsRest(r) /\ req'[r].job = "appending"
  BY JobKeepsRest DEF IInv, StartObserved
<1> QED
  BY <1>1 DEF StartObserved, JobTurn, Begins, disk

LEMMA WriteImagePuts == ASSUME IInv, NEW r \in Req, WriteImage(r) PROVE PutsImage(r)
<1>1. Others(r) /\ KeepsRest(r) /\ req'[r].job = "imaged"
  BY JobKeepsRest DEF IInv, WriteImage
<1> QED
  BY <1>1 DEF WriteImage, PutsImage, memory

LEMMA SettleFrameEnds ==
  ASSUME TypeInv, NEW r \in Req, NEW bytes, NEW code \in Nat, SettleFrame(r, bytes, code),
         req[r].job # "none", req[r].tailSeat = tail.served
  PROVE  /\ Ends(r) /\ req'[r].pc = "done" /\ req'[r].reply = code
         /\ req'[r].kind = req[r].kind /\ load'.frames = load.frames
<1>1. req'[r] = Goto(r, "done", code) /\ Others(r)
  BY Replaced DEF SettleFrame
<1>2. /\ req'[r].pc = "done" /\ req'[r].kind = req[r].kind /\ req'[r].reply = code
      /\ req'[r].job = "none" /\ req'[r].draft \in {req[r].draft, NoSummary}
  BY <1>1, GotoFields DEF PCs
<1>3. load'.frames = load.frames
  BY MemoryType DEF SettleFrame, LoadType
<1> QED
  BY <1>1, <1>2, <1>3 DEF Ends, SettleFrame

\* A job that was begun is the one whose turn it is.
LEMMA Begun ==
  ASSUME IInv, NEW r \in Req, req[r].job \notin {"none", "queued"}
  PROVE  TypeInv /\ req[r].tailSeat = tail.served
BY DEF IInv, JobsInOrder

LEMMA RunningSavedSettles == ASSUME IInv, NEW r \in Req, RunningSaved(r) PROVE Settles(r)
<1>0. req[r].job = "starting" /\ TypeInv /\ req[r].tailSeat = tail.served
  BY Begun DEF RunningSaved
<1>1. Ends(r) /\ req'[r].pc = "done" /\ load'.frames = load.frames
  BY <1>0, SettleFrameEnds DEF RunningSaved
<1> QED
  BY <1>0, <1>1 DEF RunningSaved, Settles, SameEvidence, logs

LEMMA AppendFrameAppends == ASSUME IInv, NEW r \in Req, AppendFrame(r) PROVE Appends(r)
<1>0. req[r].job = "imaged" /\ TypeInv /\ req[r].tailSeat = tail.served
  BY Begun DEF AppendFrame
<1>1. CASE phase = "claimed"
  <2>1. Others(r) /\ KeepsRest(r) /\ req'[r].job = "starting"
    BY <1>0, <1>1, JobKeepsRest DEF AppendFrame
  <2>2. load'.frames = load.frames
    BY <1>0, <1>1, MemoryType DEF AppendFrame, LoadType
  <2> QED
    BY <1>0, <1>1, <2>1, <2>2 DEF AppendFrame, Appends
<1>2. CASE phase # "claimed"
  <2>1. SettleFrame(r, req[r].size, 200) /\ UNCHANGED phase
    BY <1>2 DEF AppendFrame
  <2>2. Ends(r) /\ req'[r].pc = "done" /\ load'.frames = load.frames
    BY <1>0, <2>1, SettleFrameEnds
  <2> QED
    BY <1>0, <2>1, <2>2 DEF AppendFrame, Appends, Ends
<1> QED
  BY <1>1, <1>2

LEMMA AppendObservedSettles == ASSUME IInv, NEW r \in Req, AppendObserved(r) PROVE Settles(r)
<1>0. req[r].job = "appending" /\ TypeInv /\ req[r].tailSeat = tail.served
  BY Begun DEF AppendObserved
<1>1. Others(r) /\ KeepsRest(r) /\ req'[r].job = "none"
  BY <1>0, JobKeepsRest DEF AppendObserved
<1>2. req[r].pc \notin {"idle", "draining", "saving", "verdict"}
  BY <1>0 DEF TypeInv, WellPlaced
<1> QED
  BY <1>0, <1>1, <1>2 DEF AppendObserved, Settles, Ends, KeepsRest, Acked, SameEvidence

LEMMA RejectJobSettles ==
  ASSUME IInv, NEW r \in Req, RejectJob(r), req[r].job # "none",
         req[r].tailSeat = tail.served, phase = "failed",
         UNCHANGED <<phase, summary, images, frameLog>>
  PROVE  Settles(r)
<1>0. TypeInv
  BY DEF IInv
<1>1. CASE FrameJob(r)
  <2>1. /\ Ends(r) /\ req'[r].pc = "done" /\ req'[r].reply = 500
        /\ load'.frames = load.frames
    BY <1>0, <1>1, SettleFrameEnds DEF RejectJob
  <2>2. tally'.accepted = tally.accepted
    BY <1>0, <1>1, MemoryType DEF RejectJob, TallyType
  <2> QED
    BY <2>1, <2>2 DEF Settles, SameEvidence, Acked
<1>2. CASE ~FrameJob(r)
  <2>0. UNCHANGED <<tally, load>> /\ tail' = [tail EXCEPT !.served = @ + 1]
    BY <1>2 DEF RejectJob
  <2>1. CASE req[r].kind = "stop"
    <3>1. req'[r] = Goto(r, "verdict", NoReply) /\ Others(r)
      BY <1>0, <1>2, <2>1, Replaced DEF RejectJob
    <3>2. /\ req'[r].pc = "verdict" /\ req'[r].kind = "stop" /\ req'[r].job = "none"
          /\ req'[r].draft \in {req[r].draft, NoSummary}
      BY <1>0, <2>1, <3>1, GotoFields DEF PCs, NoReply
    <3> QED
      BY <2>0, <3>1, <3>2 DEF Settles, Ends, SameEvidence, Acked
  <2>2. CASE req[r].kind # "stop"
    <3>1. req'[r] = Goto(r, Done(r), 500) /\ Others(r)
      BY <1>0, <1>2, <2>2, Replaced DEF RejectJob
    <3>2. Done(r) \in PCs /\ Done(r) \notin {"idle", "draining", "saving", "verdict"}
      BY DEF Done, PCs
    <3>3. /\ req'[r].pc = Done(r) /\ req'[r].reply = 500 /\ req'[r].job = "none"
          /\ req'[r].draft \in {req[r].draft, NoSummary}
      BY <1>0, <3>1, <3>2, GotoFields
    <3> QED
      BY <2>0, <3>1, <3>2, <3>3 DEF Settles, Ends, SameEvidence, Acked
  <2> QED
    BY <2>1, <2>2
<1> QED
  BY <1>1, <1>2

LEMMA ThrowJobEffect ==
  ASSUME IInv, NEW r \in Req, ThrowJob(r), req[r].job # "none", req[r].tailSeat = tail.served
  PROVE  FailsJob(r) \/ Settles(r)
<1>1. CASE phase # "failed"
  <2>1. Others(r) /\ KeepsRest(r) /\ req'[r].job = "failing"
    BY <1>1, JobKeepsRest DEF IInv, ThrowJob
  <2> QED
    BY <1>1, <2>1 DEF ThrowJob, FailsJob, SameEvidence, disk
<1>2. CASE phase = "failed"
  BY <1>2, RejectJobSettles DEF ThrowJob, disk
<1> QED
  BY <1>1, <1>2

LEMMA RefuseJobEffect ==
  ASSUME IInv, NEW r \in Req, RefuseJob(r) PROVE FailsJob(r) \/ Settles(r)
BY ThrowJobEffect DEF RefuseJob, JobTurn

LEMMA DiskFaultEffect ==
  ASSUME IInv, NEW r \in Req, DiskFault(r) PROVE FailsJob(r) \/ Settles(r)
<1>1. req[r].job \in {"writing", "imaged", "appending"} /\ ThrowJob(r)
  BY DEF DiskFault
<1> QED
  BY <1>1, Begun, ThrowJobEffect

LEMMA FailureSavedSettles == ASSUME IInv, NEW r \in Req, FailureSaved(r) PROVE Settles(r)
<1>1. req[r].job = "failing" /\ RejectJob(r) /\ phase = "failed"
  BY DEF FailureSaved, IInv, FailingMeansFailed
<1> QED
  BY <1>1, Begun, RejectJobSettles DEF FailureSaved, logs

\* Every step of a handler does one of the eight things.
LEMMA StepEffect ==
  ASSUME IInv, NEW r \in Req, Environment(r) \/ Callback(r) \/ Continuation(r)
  PROVE  Effect(r)
<1>1. CASE Environment(r)
  BY <1>1, ArriveStill, ArriveOnBadClockStill, CloseStill DEF Environment, Effect
<1>2. CASE Callback(r)
  BY <1>2, RefuseStill, ClaimStill, FailStill, ChallengeStill, ObservedEventStill,
     EnterFrameStill, EnterStopStill, PhaseSavedStill, PublishStill, StopListeningStill,
     ClosedStill, WriteImagePuts, AppendFrameAppends, RunningSavedSettles,
     AppendObservedSettles, DiskFaultEffect, FailureSavedSettles DEF Callback, Effect
<1>3. CASE Continuation(r)
  BY <1>3, FlushScrollEffect, FlushPointerEffect, CoalesceStill, FlushOwnEffect,
     SetPendingStill, QueueClickLinks, AnswerClickStill, CheckFrameStill, AdmitFrameLinks,
     UnlockStill, CheckStopStill, DrainStill, EventsLostStill, VerdictStill,
     SummarizeDrafts, StartFrameBegins, StartObservedBegins, RefuseJobEffect
     DEF Continuation, Effect
<1> QED
  BY <1>1, <1>2, <1>3

-----------------------------------------------------------------------------
(* 3. Each effect keeps the invariant.                                       *)

LEMMA Seats ==
  ASSUME IInv
  PROVE  /\ tail.served \in Nat /\ tail.next \in Nat /\ tail.served <= tail.next
         /\ \A q \in Req : req[q].tailSeat \in Nat
         /\ \A q \in Req : req[q].job # "none" =>
              tail.served <= req[q].tailSeat /\ req[q].tailSeat < tail.next
         /\ \A q \in Req : req[q].job \notin {"none", "queued"} => req[q].tailSeat = tail.served
<1>1. tail \in TicketType /\ \A q \in Req : req[q] \in HandlerType
  BY MemoryType, Handlers DEF IInv
<1> QED
  BY <1>1 DEF IInv, JobsInOrder, TicketType, HandlerType

\* One job at a time has its turn.
LEMMA OneTurn ==
  ASSUME IInv, NEW q \in Req, NEW r \in Req, req[q].job # "none", req[r].job # "none",
         req[q].tailSeat = tail.served, req[r].tailSeat = tail.served
  PROVE  q = r
BY DEF IInv, JobsInOrder

LEMMA EndedTail ==
  ASSUME IInv, NEW r \in Req, Ends(r)
  PROVE  tail'.served = tail.served + 1 /\ tail'.next = tail.next
BY MemoryType DEF IInv, Ends, TicketType

LEMMA KeepsJobsInOrder ==
  ASSUME IInv, NEW r \in Req, Effect(r) PROVE JobsInOrder'
<1>0. /\ tail.served \in Nat /\ tail.next \in Nat /\ tail.served <= tail.next
      /\ \A q \in Req : req[q].tailSeat \in Nat
  BY Seats
<1>1. CASE Still(r) \/ Drafts(r)
  BY <1>1 DEF Still, Drafts, Calm, Others, IInv, JobsInOrder
<1>2. CASE Links(r)
  <2>1. tail'.served = tail.served /\ tail'.next = tail.next + 1
    BY <1>2, MemoryType DEF IInv, Links, TicketType
  <2> QED
    BY <1>0, <1>2, <2>1 DEF Links, Others, IInv, JobsInOrder
<1>3. ASSUME KeepsRest(r), Others(r), UNCHANGED tail, req[r].job # "none",
             req[r].tailSeat = tail.served
      PROVE  JobsInOrder'
  BY <1>0, <1>3 DEF KeepsRest, Others, IInv, JobsInOrder
<1>4. CASE Begins(r) \/ PutsImage(r) \/ FailsJob(r)
  <2>1. KeepsRest(r) /\ Others(r) /\ UNCHANGED tail /\ req[r].job # "none"
    BY <1>4 DEF Begins, PutsImage, FailsJob
  <2>2. req[r].tailSeat = tail.served
    BY <1>4, Begun DEF Begins, PutsImage, FailsJob
  <2> QED
    BY <1>3, <2>1, <2>2
<1>5. CASE Ends(r)
  <2>1. \A q \in Req \ {r} : req[q].job # "none" =>
          req[q].tailSeat > tail.served /\ req[q].job = "queued"
    BY <1>0, <1>5, Seats, OneTurn DEF Ends
  <2>2. tail.served < tail.next
    BY <1>5, Seats DEF Ends
  <2> QED
    BY <1>0, <1>5, <2>1, <2>2, EndedTail DEF Ends, Others, IInv, JobsInOrder
<1>6. CASE Appends(r)
  <2>1. req[r].tailSeat = tail.served /\ req[r].job # "none"
    BY <1>6, Begun DEF Appends
  <2> QED
    BY <1>3, <1>5, <1>6, <2>1 DEF Appends
<1> QED
  BY <1>1, <1>2, <1>4, <1>5, <1>6 DEF Effect, Settles

LEMMA KeepsSettledMeansQuiet ==
  ASSUME IInv, NEW r \in Req, Effect(r) PROVE SettledMeansQuiet'
<1>0. /\ tail.served \in Nat /\ tail.next \in Nat
      /\ \A q \in Req : req[q].tailSeat \in Nat
      /\ \A p, q \in Req : Settled(q) => ~Writing(p)
  BY Seats DEF IInv, SettledMeansQuiet
<1>1. CASE Still(r)
  <2>1. req'[r].job = "none" /\ Others(r) /\ UNCHANGED tail
    BY <1>1 DEF Still, Calm
  <2>2. \A p \in Req : Writing(p)' => Writing(p)
    BY <2>1 DEF Writing, Others
  <2>3. \A q \in Req \ {r} : Settled(q)' => Settled(q)
    BY <2>1 DEF Settled, Others
  <2>4. Settled(r)' => \A p \in Req : ~Writing(p)
    BY <1>0, <1>1, <2>1, Seats DEF Still, Settled, Writing
  <2> QED
    BY <1>0, <2>2, <2>3, <2>4 DEF SettledMeansQuiet
<1>2. CASE Drafts(r)
  BY <1>0, <1>2 DEF Drafts, Others, SettledMeansQuiet, Settled, Writing
<1>3. CASE Links(r)
  <2>1. tail'.served = tail.served
    BY <1>3, MemoryType DEF IInv, Links, TicketType
  <2> QED
    BY <1>0, <1>3, <2>1 DEF Links, Others, SettledMeansQuiet, Settled, Writing
<1>4. CASE Begins(r)
  BY <1>4 DEF Begins, KeepsRest, Others, SettledMeansQuiet, Settled
<1>5. ASSUME KeepsRest(r), Others(r), UNCHANGED tail, Writing(r)' => Writing(r)
      PROVE  SettledMeansQuiet'
  BY <1>0, <1>5 DEF KeepsRest, Others, SettledMeansQuiet, Settled, Writing
<1>6. CASE PutsImage(r) \/ FailsJob(r)
  BY <1>5, <1>6 DEF PutsImage, FailsJob, Writing
<1>7. CASE Ends(r)
  <2>1. \A p \in Req : ~Writing(p)'
    BY <1>0, <1>7, Seats, OneTurn DEF Ends, Others, Writing
  <2> QED
    BY <2>1 DEF SettledMeansQuiet
<1>8. CASE Appends(r)
  BY <1>5, <1>7, <1>8 DEF Appends, Writing
<1> QED
  BY <1>1, <1>2, <1>3, <1>4, <1>6, <1>7, <1>8 DEF Effect, Settles

LEMMA KeepsFailingMeansFailed ==
  ASSUME IInv, NEW r \in Req, Effect(r) PROVE FailingMeansFailed'
<1>0. FailingMeansFailed
  BY DEF IInv
<1>1. CASE Still(r)
  BY <1>0, <1>1 DEF Still, Calm, PhaseMoves, ToVerdict, Others, FailingMeansFailed
<1>2. CASE Drafts(r)
  BY <1>0, <1>2 DEF Drafts, Others, FailingMeansFailed
<1>3. CASE Links(r)
  BY <1>0, <1>3 DEF Links, Others, FailingMeansFailed
<1>4. CASE Begins(r) \/ PutsImage(r)
  BY <1>0, <1>4 DEF Begins, PutsImage, KeepsRest, Others, FailingMeansFailed
<1>5. CASE FailsJob(r)
  BY <1>5 DEF FailsJob, FailingMeansFailed
<1>6. CASE Settles(r)
  BY <1>0, <1>6 DEF Settles, Ends, Others, FailingMeansFailed
<1>7. CASE Appends(r)
  BY <1>0, <1>7 DEF Appends, Ends, KeepsRest, Others, FailingMeansFailed
<1> QED
  BY <1>1, <1>2, <1>3, <1>4, <1>5, <1>6, <1>7 DEF Effect

\* Once a stop is decided there is no write in progress to add to the evidence.
LEMMA NoWriteOnceDecided ==
  ASSUME IInv, StopDecided
  PROVE  /\ phase \in {"stopped", "failed"} /\ tally.accepted > 0
         /\ \A q \in Req : ~Writing(q)
BY DEF IInv, Frozen

LEMMA KeepsFrozen ==
  ASSUME IInv, NEW r \in Req, Effect(r) PROVE Frozen'
<1>1. CASE Still(r)
  <2>1. \A q \in Req : Writing(q)' => Writing(q)
    BY <1>1 DEF Still, Calm, Others, Writing
  <2>2. tally'.accepted = tally.accepted
    BY <1>1 DEF Still, SameEvidence
  <2>3. CASE StopDecided
    BY <1>1, <2>1, <2>2, <2>3, NoWriteOnceDecided DEF Frozen, Still, PhaseMoves
  <2>4. CASE ~StopDecided /\ StopDecided'
    <3>1. phase # "stopped" /\ phase' = "stopped"
      BY <1>1, <2>4 DEF StopDecided, Still, Calm, Others
    <3>2. tally.accepted > 0 /\ Settled(r)
      BY <1>1, <3>1 DEF Still, PhaseMoves
    <3> QED
      BY <2>1, <2>2, <3>1, <3>2 DEF Frozen, IInv, SettledMeansQuiet
  <2> QED
    BY <2>3, <2>4 DEF Frozen
<1>2. CASE Drafts(r) \/ Links(r) \/ Settles(r)
  <2>1. StopDecided' => StopDecided
    BY <1>2 DEF Drafts, Links, Settles, Ends, Others, StopDecided, NoSummary
  <2>2. \A q \in Req : Writing(q)' => Writing(q)
    BY <1>2 DEF Drafts, Links, Settles, Ends, Others, Writing
  <2>3. phase' = phase /\ tally'.accepted = tally.accepted
    BY <1>2 DEF Drafts, Links, Settles, SameEvidence
  <2> QED
    BY <2>1, <2>2, <2>3, NoWriteOnceDecided DEF Frozen
<1>3. CASE Begins(r)
  <2>1. ~StopDecided
    BY <1>3, NoWriteOnceDecided DEF Begins, Live
  <2> QED
    BY <1>3, <2>1 DEF Begins, KeepsRest, Others, StopDecided, Frozen
<1>4. CASE PutsImage(r)
  <2>1. ~StopDecided
    BY <1>4, NoWriteOnceDecided DEF PutsImage, Writing
  <2> QED
    BY <1>4, <2>1 DEF PutsImage, KeepsRest, Others, StopDecided, Frozen
<1>5. CASE FailsJob(r)
  <2>1. StopDecided' => StopDecided
    BY <1>5 DEF FailsJob, KeepsRest, Others, StopDecided
  <2>2. \A q \in Req : Writing(q)' => Writing(q)
    BY <1>5 DEF FailsJob, Others, Writing
  <2>3. phase' = "failed" /\ tally'.accepted = tally.accepted
    BY <1>5 DEF FailsJob, SameEvidence
  <2> QED
    BY <2>1, <2>2, <2>3, NoWriteOnceDecided DEF Frozen
<1>6. CASE Appends(r)
  <2>1. ~StopDecided
    BY <1>6, NoWriteOnceDecided DEF Appends, Writing
  <2>2. \A q \in Req : req'[q].draft \in {req[q].draft, NoSummary}
    BY <1>6 DEF Appends, Ends, KeepsRest, Others
  <2> QED
    BY <1>6, <2>1, <2>2 DEF Appends, StopDecided, Frozen, NoSummary
<1> QED
  BY <1>1, <1>2, <1>3, <1>4, <1>5, <1>6 DEF Effect

LEMMA Appended ==
  ASSUME IInv, NEW r \in Req, Appends(r)
  PROVE  /\ Len(frameLog') = Len(frameLog) + 1
         /\ Len(frameLog) \in Nat /\ tally'.accepted = tally.accepted + 1
         /\ \A i \in DOMAIN frameLog : i \in DOMAIN frameLog' /\ frameLog'[i] = frameLog[i]
         /\ Len(frameLog) + 1 \in DOMAIN frameLog'
         /\ frameLog'[Len(frameLog) + 1].from = r
         /\ frameLog'[Len(frameLog) + 1].id = load.frames
<1> DEFINE line == [id |-> load.frames, offset |-> clock.frame, from |-> r]
<1>1. line \in FrameLine /\ frameLog \in Seq(FrameLine)
  BY MemoryType DEF IInv, TypeInv, TypeOK, LoadType, ClockType, FrameLine
<1>2. frameLog' = Append(frameLog, line)
  BY DEF Appends
<1>3. tally'.accepted = tally.accepted + 1
  BY MemoryType DEF IInv, Appends, TallyType
<1>4. line.from = r /\ line.id = load.frames
  OBVIOUS
<1> HIDE DEF line
<1> QED
  BY <1>1, <1>2, <1>3, <1>4

LEMMA KeepsStoppedCounts ==
  ASSUME IInv, NEW r \in Req, Effect(r) PROVE StoppedCounts'
<1>0. StoppedCounts
  BY DEF IInv
<1>1. CASE Still(r)
  BY <1>0, <1>1 DEF Still, Calm, Others, SameEvidence, StoppedCounts
<1>2. CASE Drafts(r)
  BY <1>0, <1>2 DEF Drafts, Others, SameEvidence, StoppedCounts
<1>3. CASE Links(r) \/ Settles(r)
  BY <1>0, <1>3 DEF Links, Settles, Ends, Others, SameEvidence, StoppedCounts, NoSummary
<1>4. CASE Begins(r) \/ PutsImage(r) \/ FailsJob(r)
  BY <1>0, <1>4
     DEF Begins, PutsImage, FailsJob, KeepsRest, Others, SameEvidence, StoppedCounts
<1>5. CASE Appends(r)
  <2>1. ~StopDecided
    BY <1>5, NoWriteOnceDecided DEF Appends, Writing
  <2>2. /\ \A q \in Req : req'[q].draft \in {req[q].draft, NoSummary}
        /\ summary' = summary
    BY <1>5 DEF Appends, Ends, KeepsRest, Others
  <2> QED
    BY <1>0, <1>5, <2>1, <2>2, Appended DEF StoppedCounts, StopDecided, NoSummary
<1> QED
  BY <1>1, <1>2, <1>3, <1>4, <1>5 DEF Effect

LEMMA KeepsAcksLogged ==
  ASSUME IInv, NEW r \in Req, Effect(r) PROVE AcksLogged'
<1> DEFINE Must(h) == h.job = "starting" \/ Acked(h)
<1>0. \A q \in Req : /\ req[q].pc = "idle" => req[q].reply = NoReply
                     /\ req[q].job = "imaged" => load.frames \in images
                     /\ Must(req[q]) => Logged(q)
  BY DEF IInv, AcksLogged, Acked
<1>1. SUFFICES
        /\ req'[r].pc = "idle" => req'[r].reply = NoReply
        /\ \A q \in Req : req'[q].job = "imaged" => load'.frames \in images'
        /\ \A q \in Req : Must(req'[q]) => Logged(q)'
        /\ Others(r)
  BY <1>0 DEF AcksLogged, Others, Acked
<1>2. CASE Still(r) \/ Drafts(r) \/ Links(r) \/ FailsJob(r) \/ Settles(r)
  <2>1. Others(r) /\ SameEvidence
    BY <1>2 DEF Still, Drafts, Links, FailsJob, Settles, Ends
  <2>2. \A q \in Req : Logged(q)' = Logged(q)
    BY <2>1 DEF Logged, SameEvidence
  <2>3. Must(req'[r]) => Must(req[r])
    BY <1>2 DEF Still, Drafts, Links, FailsJob, Settles, Ends, Calm, KeepsRest, Acked
  <2>4. req'[r].job # "imaged"
    BY <1>2 DEF Still, Drafts, Links, FailsJob, Settles, Ends, Calm
  <2>5. req'[r].pc = "idle" => req'[r].reply = NoReply
    BY <1>0, <1>2 DEF Still, Drafts, Links, FailsJob, Settles, Ends, Calm, KeepsRest
  <2> HIDE DEF Must
  <2> QED
    BY <1>0, <2>1, <2>2, <2>3, <2>4, <2>5 DEF Others, SameEvidence
<1>3. CASE Begins(r) \/ PutsImage(r)
  <2>1. Others(r) /\ KeepsRest(r) /\ frameLog' = frameLog /\ images \subseteq images'
    BY <1>3 DEF Begins, PutsImage
  <2>2. \A q \in Req : Logged(q) => Logged(q)'
    BY <2>1 DEF Logged
  <2>3. Must(req'[r]) => Must(req[r])
    BY <1>3 DEF Begins, PutsImage, KeepsRest, Acked
  <2>4. \A q \in Req : req'[q].job = "imaged" => load'.frames \in images'
    <3>1. CASE PutsImage(r)
      BY <3>1 DEF PutsImage
    <3>2. CASE Begins(r)
      <4>1. \A q \in Req \ {r} : req[q].job # "imaged"
        BY <3>2, Seats, OneTurn DEF Begins
      <4> QED
        BY <3>2, <4>1 DEF Begins, Others
    <3> QED
      BY <1>3, <3>1, <3>2
  <2>5. req'[r].pc = "idle" => req'[r].reply = NoReply
    BY <1>0, <2>1 DEF KeepsRest
  <2> HIDE DEF Must
  <2> QED
    BY <1>0, <2>1, <2>2, <2>3, <2>4, <2>5 DEF Others
<1>4. CASE Appends(r)
  <2>1. Others(r) /\ load'.frames = load.frames /\ images' = images /\ load.frames \in images
    BY <1>0, <1>4 DEF Appends, Ends
  <2>2. \A q \in Req : Logged(q) => Logged(q)'
    BY <1>4, <2>1, Appended DEF Logged
  <2>3. Logged(r)'
    BY <1>4, <2>1, Appended DEF Logged
  <2>4. req'[r].pc = "idle" => req'[r].reply = NoReply
    BY <1>0, <1>4 DEF Appends, Ends, KeepsRest
  <2> HIDE DEF Must
  <2> QED
    BY <1>0, <2>1, <2>2, <2>3, <2>4 DEF Others
<1> QED
  BY <1>2, <1>3, <1>4 DEF Effect

-----------------------------------------------------------------------------
(* 4. The theorems.                                                          *)

LEMMA InitSafe == Init => IInv
<1> SUFFICES ASSUME Init PROVE IInv
  OBVIOUS
<1>1. TypeInv
  BY InitType
<1>2. /\ \A r \in Req : req[r] = Idle
      /\ Idle.pc = "idle" /\ Idle.job = "none" /\ Idle.reply = NoReply
      /\ Idle.draft.status = "none" /\ Idle.kind = "none"
  BY DEF Init, Idle, NoSummary
<1> HIDE DEF Idle
<1>3. JobsInOrder
  BY <1>2 DEF Init, JobsInOrder
<1>4. SettledMeansQuiet /\ FailingMeansFailed
  BY <1>2 DEF SettledMeansQuiet, Settled, FailingMeansFailed
<1>5. ~StopDecided
  BY <1>2 DEF Init, StopDecided, NoSummary
<1>6. Frozen /\ StoppedCounts
  BY <1>5 DEF Frozen, StoppedCounts, StopDecided, Init
<1>7. AcksLogged
  BY <1>2 DEF AcksLogged, NoReply
<1> QED
  BY <1>1, <1>3, <1>4, <1>6, <1>7 DEF IInv

LEMMA StepSafe == IInv /\ [Next]_vars => IInv'
<1> SUFFICES ASSUME IInv, [Next]_vars PROVE IInv'
  OBVIOUS
<1>1. TypeInv'
  BY StepType DEF IInv
<1>2. CASE Tick \/ UNCHANGED vars
  <2>1. UNCHANGED <<req, phase, tally, load, tail, summary, images, frameLog>>
    BY <1>2 DEF Tick, vars, memory, disk
  <2>2. JobsInOrder' /\ FailingMeansFailed'
    BY <2>1 DEF IInv, JobsInOrder, FailingMeansFailed
  <2>3. SettledMeansQuiet'
    BY <2>1 DEF IInv, SettledMeansQuiet, Settled, Writing
  <2>4. Frozen' /\ StoppedCounts'
    BY <2>1 DEF IInv, Frozen, StopDecided, StoppedCounts, Writing
  <2>5. AcksLogged'
    BY <2>1 DEF IInv, AcksLogged, Logged
  <2> QED
    BY <1>1, <2>2, <2>3, <2>4, <2>5 DEF IInv
<1>3. ASSUME NEW r \in Req, Environment(r) \/ Callback(r) \/ Continuation(r) PROVE IInv'
  <2>1. Effect(r)
    BY <1>3, StepEffect
  <2> QED
    BY <1>1, <2>1, KeepsJobsInOrder, KeepsSettledMeansQuiet, KeepsFailingMeansFailed,
       KeepsFrozen, KeepsStoppedCounts, KeepsAcksLogged DEF IInv
<1> QED
  BY <1>2, <1>3 DEF Next

\* The invariant behind the theorems below holds of every reachable state.
THEOREM Safe == Spec => []IInv
BY InitSafe, StepSafe, PTL DEF Spec

\* A frame answered 200 is durable, whatever fails, stops or overtakes it.
THEOREM AcksAreDurable == Spec => []AckedFramesDurable
<1>1. IInv => AckedFramesDurable
  BY DEF IInv, AcksLogged, AckedFramesDurable, Frames
<1> QED
  BY <1>1, Safe, PTL

\* A summary that says "stopped" counts every line the log has or will have.
THEOREM StoppedIsComplete == Spec => []StoppedSummaryComplete
<1>1. IInv => StoppedSummaryComplete
  BY DEF IInv, Frozen, StoppedCounts, StopDecided, StoppedSummaryComplete
<1> QED
  BY <1>1, Safe, PTL

\* Only a job in progress adds to a log.
LEMMA LogsGrow ==
  ASSUME IInv, NEW r \in Req, Environment(r) \/ Callback(r) \/ Continuation(r), ~Writing(r)
  PROVE  UNCHANGED logs
<1>1. CASE Environment(r)
  BY <1>1 DEF Environment, Arrive, ArriveOnBadClock, Close, disk, logs
<1>2. CASE Callback(r)
  <2>1. ~WriteImage(r) /\ ~AppendFrame(r) /\ ~AppendObserved(r)
    BY DEF Writing, WriteImage, AppendFrame, AppendObserved
  <2>2. CASE \/ Refuse(r) \/ Claim(r) \/ Fail(r) \/ Challenge(r) \/ ObservedEvent(r)
             \/ EnterFrame(r) \/ EnterStop(r)
    BY <2>2 DEF Refuse, Claim, Fail, Challenge, ObservedEvent, EnterFrame, EnterStop, disk, logs
  <2>3. CASE \/ PhaseSaved(r) \/ Publish(r) \/ StopListening(r) \/ Closed(r)
             \/ RunningSaved(r) \/ DiskFault(r) \/ FailureSaved(r)
    BY <2>3 DEF PhaseSaved, Publish, StopListening, Closed, RunningSaved, DiskFault,
                FailureSaved, ThrowJob, disk, logs
  <2> QED
    BY <1>2, <2>1, <2>2, <2>3 DEF Callback
<1>3. CASE Continuation(r)
  <2>1. CASE \/ FlushScroll(r) \/ FlushPointer(r) \/ Coalesce(r) \/ FlushOwn(r)
             \/ SetPending(r) \/ QueueClick(r) \/ AnswerClick(r)
    BY <2>1 DEF FlushScroll, FlushPointer, Coalesce, FlushOwn, SetPending, QueueClick,
                AnswerClick, disk, logs
  <2>2. CASE CheckFrame(r) \/ AdmitFrame(r) \/ Unlock(r)
    BY <2>2 DEF CheckFrame, AdmitFrame, Unlock, disk, logs
  <2>3. CASE CheckStop(r) \/ Drain(r) \/ EventsLost(r) \/ Verdict(r) \/ Summarize(r)
    BY <2>3 DEF CheckStop, Drain, EventsLost, Verdict, Summarize, disk, logs
  <2>4. CASE StartFrame(r) \/ StartObserved(r) \/ RefuseJob(r)
    BY <2>4 DEF StartFrame, StartObserved, RefuseJob, ThrowJob, disk, logs
  <2> QED
    BY <1>3, <2>1, <2>2, <2>3, <2>4 DEF Continuation
<1> QED
  BY <1>1, <1>2, <1>3

\* A failed capture stays failed; a stopped one may only fail, and its logs are
\* what they were when /stop decided.
THEOREM FailureIsFinal == Spec => FailureFinal
<1> DEFINE Final == /\ phase = "failed" => phase' = "failed"
                    /\ phase = "stopped" => phase' \in {"stopped", "failed"}
                    /\ phase = "stopped" => UNCHANGED logs
<1>1. IInv /\ [Next]_vars => [Final]_vars
  <2> SUFFICES ASSUME IInv, Next PROVE Final
    BY DEF FailureFinal
  <2>1. CASE Tick
    BY <2>1 DEF Tick, disk, logs
  <2>2. ASSUME NEW r \in Req, Environment(r) \/ Callback(r) \/ Continuation(r) PROVE Final
    <3>1. Effect(r)
      BY <2>2, StepEffect
    <3>2. phase \in {"failed", "stopped"} => phase' \in {phase, "failed"}
      BY <3>1 DEF Effect, Still, PhaseMoves, Drafts, Links, Begins, PutsImage, FailsJob,
                  Settles, Appends
    <3>3. phase = "stopped" => UNCHANGED logs
      BY <2>2, LogsGrow, NoWriteOnceDecided DEF StopDecided
    <3> QED
      BY <3>2, <3>3
  <2> QED
    BY <2>1, <2>2 DEF Next
<1> QED
  BY <1>1, Safe, PTL DEF Spec, FailureFinal

==============================================================================
