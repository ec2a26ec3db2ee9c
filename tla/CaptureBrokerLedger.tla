------------------------- MODULE CaptureBrokerLedger -------------------------
(***************************************************************************)
(* What the broker's logs, its state file, its last summary and its        *)
(* counters say is so, in every order its handlers can run in, whatever    *)
(* fails: the logs can be replayed, an answered click is in its log, the   *)
(* state file is stale only about a failure, close() has the last word,    *)
(* the budgets are kept, no frame is dropped from a live capture and no    *)
(* scroll of a client that waits for its answers is lost.                  *)
(*                                                                         *)
(* Section 1 says what a step does to the one handler it moves, section 2  *)
(* which action does it; the other sections take one part of the ledger    *)
(* each, with the invariant that makes it inductive.                       *)
(***************************************************************************)
EXTENDS CaptureBrokerProofs, FiniteSetTheorems

Over == phase \in {"stopped", "failed"}

-----------------------------------------------------------------------------
(* 1. What a step does to its handler.                                       *)

\* What a handler takes along until it is done.
Carries(r) ==
  /\ req'[r].receipt = req[r].receipt /\ req'[r].size = req[r].size
  /\ req'[r].lockSeat = req[r].lockSeat /\ req'[r].next = req[r].next
  /\ req'[r].draft = req[r].draft

\* It goes to pc with an answer in hand.
Moves(r, pc, code) ==
  /\ Others(r)
  /\ req'[r].pc = pc /\ req'[r].reply = code
  /\ req'[r].kind = req[r].kind /\ req'[r].save = req[r].save
  /\ IF pc = "done" THEN req'[r].draft = NoSummary ELSE Carries(r)

\* It sets the phase and waits for the state file.
Switches(r, to, code, next) ==
  /\ Others(r)
  /\ req[r].job = "none" /\ req'[r].job = "none"
  /\ req'[r].pc = "saving" /\ req'[r].save = to
  /\ req'[r].reply = code /\ req'[r].next = next
  /\ req'[r].kind = req[r].kind /\ req'[r].draft = req[r].draft
  /\ req'[r].receipt = req[r].receipt /\ req'[r].size = req[r].size
  /\ req'[r].lockSeat = req[r].lockSeat
  /\ phase' = to

\* The numbers the next lines take.
SameNumbers ==
  /\ clock'.first = clock.first /\ clock'.frame = clock.frame
  /\ clock'.observed = clock.observed
  /\ gate'.seq = gate.seq /\ load'.frames = load.frames
SameLogs == UNCHANGED <<images, frameLog, observedLog>> /\ SameNumbers

Arrives(r) ==
  /\ req[r].pc = "idle" /\ Others(r)
  /\ req'[r].pc = "body" /\ req'[r].kind \in Kinds \ {"close"}
  /\ req'[r].kind = "claim" \/ TokenIssued
  /\ req'[r].kind = "frame" => req'[r].receipt = now
  /\ req'[r].reply = req[r].reply /\ req'[r].job = req[r].job
  /\ req'[r].draft = req[r].draft
  /\ SameLogs
  /\ UNCHANGED <<phase, tally, load, lock, tail, stateFile, summary>>

Stumbles(r) ==
  /\ req[r].pc = "idle" /\ Others(r)
  /\ req'[r].kind \in Stamped /\ req'[r].reply = 500
  /\ req'[r].job = req[r].job /\ req'[r].draft = req[r].draft
  /\ \/ /\ Live /\ phase' = "failed"
        /\ req'[r].pc = "saving" /\ req'[r].save = "failed" /\ req'[r].next = "done"
     \/ ~Live /\ phase' = phase /\ req'[r].pc = "done"
  /\ SameLogs
  /\ UNCHANGED <<tally, load, lock, tail, stateFile, summary>>

Closes(r) ==
  /\ req[r].pc = "idle" /\ Others(r)
  /\ req'[r].kind = "close" /\ req'[r].reply = req[r].reply
  /\ req'[r].job = req[r].job /\ req'[r].draft = req[r].draft
  /\ \/ /\ Live /\ phase' = "failed"
        /\ req'[r].pc = "saving" /\ req'[r].save = "failed" /\ req'[r].next = "drain"
     \/ ~Live /\ phase' = phase /\ req'[r].pc = "closing" /\ req'[r].save = req[r].save
  /\ SameLogs
  /\ UNCHANGED <<tally, load, lock, tail, stateFile, summary>>

Claims(r) ==
  /\ req[r].kind = "claim" /\ req[r].pc = "body" /\ phase = "ready"
  /\ Switches(r, "claimed", 200, "done")
  /\ SameLogs
  /\ UNCHANGED <<tally, load, lock, tail, stateFile, summary>>

\* Where a handler goes on that fails the capture.
AfterFailure(r, code, next) ==
  CASE req[r].kind = "frame" -> /\ req[r].pc = "enter" /\ HasLock(r) /\ Live
                                /\ next \in {"unlock", "drain", "summarize"}
    [] req[r].kind = "stop"  -> \/ req[r].pc = "stopping" /\ next = "drain"
                                \/ AtVerdict(r) /\ next \in {"verdict", "summarize"}
    [] OTHER -> /\ next = "done" /\ req[r].pc \in {"body", "place"}
                /\ req[r].kind \notin {"none", "claim", "close"}
                /\ req[r].kind \in {"click", "scroll"} => code # 200

Fails(r) ==
  /\ Switches(r, "failed", req'[r].reply, req'[r].next)
  /\ AfterFailure(r, req'[r].reply, req'[r].next)
  /\ SameLogs /\ tally'.accepted = tally.accepted
  /\ UNCHANGED <<load, lock, tail, stateFile, summary>>

Stops(r) ==
  /\ req[r].kind = "stop" /\ AtVerdict(r) /\ phase = "running"
  /\ Switches(r, "stopped", 200, "summarize")
  /\ SameLogs /\ tally'.accepted = tally.accepted
  /\ UNCHANGED <<load, lock, tail, stateFile, summary>>

Saves(r) ==
  /\ req[r].pc = "saving" /\ req[r].job = "none" /\ req'[r].job = "none"
  /\ Moves(r, req[r].next, req[r].reply)
  /\ stateFile' = req[r].save
  /\ SameLogs
  /\ UNCHANGED <<phase, tally, load, lock, tail, summary>>

\* What a handler may do next that changes nothing but where it is.
Onward(kind, pc, to) ==
  CASE kind = "frame" -> <<pc, to>> \in {<<"body", "done">>, <<"enter", "unlock">>,
                           <<"flushScroll", "flushPointer">>, <<"flushPointer", "admit">>,
                           <<"drain", "draining">>}
    [] kind = "stop"  -> \/ <<pc, to>> \in {<<"body", "done">>, <<"stopping", "done">>,
                              <<"stopping", "drain">>, <<"stopping", "flushScroll">>,
                              <<"flushScroll", "flushPointer">>, <<"flushPointer", "drain">>,
                              <<"drain", "draining">>}
                         \/ pc \in {"draining", "verdict"} /\ to = "summarize"
    [] kind = "close" -> <<pc, to>> \in {<<"body", "done">>, <<"drain", "draining">>,
                           <<"closing", "leaving">>, <<"leaving", "done">>}
    [] OTHER -> \/ pc \in {"body", "place", "set", "accepted"} /\ to = "done"
                \/ <<pc, to>> \in {<<"body", "flushScroll">>, <<"body", "flushPointer">>,
                     <<"flushScroll", "flushPointer">>, <<"flushScroll", "place">>,
                     <<"flushPointer", "place">>, <<"flushPointer", "click">>,
                     <<"place", "set">>}

Goes(r) ==
  /\ req[r].job = "none" /\ req'[r].job = "none"
  /\ Moves(r, req'[r].pc, req'[r].reply) /\ Onward(req[r].kind, req[r].pc, req'[r].pc)
  /\ req'[r].reply = 200 => /\ req[r].kind = "claim" => req[r].reply = 200
                            /\ req[r].kind = "click" => req[r].pc = "accepted"
                                                          \/ req[r].reply = 200
                            /\ req[r].kind = "scroll" =>
                                 \/ req[r].pc \in {"place", "set"} /\ req'[r].pc = "done"
                                 \/ req[r].reply = 200
  /\ (req[r].pc = "body" /\ req'[r].pc # "done") => Live
  /\ req'[r].pc = "drain" => req[r].pc = "flushPointer" \/ req'[r].reply # NoReply
  /\ req[r].kind = "stop" =>
       \/ req'[r].reply = req[r].reply \/ req'[r].pc = "done"
       \/ ~Live /\ req[r].pc \in {"stopping", "draining", "verdict"}
  /\ req[r].pc = "enter" => ~Live /\ HasLock(r)
  /\ req'[r].pc = "summarize" => AtVerdict(r) /\ ~Live
  /\ SameLogs /\ tally'.accepted = tally.accepted
  /\ tally' = tally \/ (~Live /\ req[r].kind \in {"frame", "stop"})
  /\ UNCHANGED <<phase, load, lock, tail, stateFile, summary>>

\* It takes a seat: a frame joins the lock, /stop waits for it.
Joins(r) ==
  /\ req[r].pc = "body" /\ req[r].job = "none" /\ req'[r].job = "none"
  /\ Others(r)
  /\ req'[r].kind = req[r].kind /\ req'[r].reply = req[r].reply
  /\ req'[r].save = req[r].save /\ req'[r].draft = req[r].draft
  /\ req'[r].receipt = req[r].receipt
  /\ \/ /\ req[r].kind = "frame" /\ req'[r].pc = "enter"
        /\ req'[r].lockSeat = lock.next /\ lock' = [lock EXCEPT !.next = @ + 1]
     \/ req[r].kind = "stop" /\ req'[r].pc = "stopping" /\ UNCHANGED lock
  /\ SameLogs
  /\ UNCHANGED <<phase, tally, load, tail, stateFile, summary>>

\* A frame passes the checks of the budgets.
Checks(r) ==
  /\ req[r].kind = "frame" /\ req[r].pc = "enter" /\ req[r].job = "none" /\ HasLock(r)
  /\ Live /\ load.pending < QueueCapacity
  /\ req'[r].size \in FrameSizes /\ ~OverBudget(r, req'[r].size)
  /\ Others(r) /\ req'[r].pc = "flushScroll" /\ req'[r].job = "none"
  /\ req'[r].kind = req[r].kind /\ req'[r].reply = req[r].reply
  /\ req'[r].save = req[r].save /\ req'[r].draft = req[r].draft
  /\ req'[r].receipt = req[r].receipt /\ req'[r].lockSeat = req[r].lockSeat
  /\ tally' = [tally EXCEPT !.received = @ + 1]
  /\ SameLogs
  /\ UNCHANGED <<phase, load, lock, tail, stateFile, summary>>

\* A job of r is linked.
LinksJob(r) ==
  /\ req[r].job = "none" /\ req'[r].job = "queued" /\ req'[r].tailSeat = tail.next
  /\ tail' = [tail EXCEPT !.next = @ + 1]

Admits(r) ==
  /\ req[r].kind = "frame" /\ req[r].pc = "admit" /\ LinksJob(r)
  /\ Moves(r, "persisting", req[r].reply)
  /\ load' = [load EXCEPT !.pending = @ + 1, !.inflight = @ + req[r].size]
  /\ lock' = [lock EXCEPT !.served = @ + 1]
  /\ SameLogs
  /\ UNCHANGED <<phase, tally, stateFile, summary>>

Queues(r) ==
  /\ LinksJob(r)
  /\ Moves(r, req'[r].pc, req[r].reply)
  /\ \/ /\ Onward(req[r].kind, req[r].pc, req'[r].pc)
        /\ req[r].pc \notin {"body", "stopping"}
        /\ req'[r].pc \notin {"done", "unlock", "summarize", "draining"}
     \/ /\ req[r].kind = "click" /\ req[r].pc = "click"
        /\ req'[r].pc = "accepted" /\ req'[r].event.from = {r}
  /\ SameLogs
  /\ UNCHANGED <<phase, tally, load, lock, stateFile, summary>>

Unlocks(r) ==
  /\ req[r].kind = "frame" /\ req[r].pc = "unlock"
  /\ req[r].job = "none" /\ req'[r].job = "none"
  /\ Moves(r, "done", req[r].reply)
  /\ lock' = [lock EXCEPT !.served = @ + 1]
  /\ SameLogs
  /\ UNCHANGED <<phase, tally, load, tail, stateFile, summary>>

Summarizes(r) ==
  /\ AtSummary(r) /\ req'[r].job = "none"
  /\ Others(r)
  /\ req'[r].pc = "publish" /\ req'[r].reply = req[r].reply
  /\ req'[r].kind = req[r].kind /\ req'[r].save = req[r].save
  /\ req'[r].receipt = req[r].receipt /\ req'[r].size = req[r].size
  /\ req'[r].lockSeat = req[r].lockSeat
  /\ req'[r].draft.status = IF phase = "stopped" THEN "stopped" ELSE "failed"
  /\ req'[r].draft.accepted = tally.accepted
  /\ SameLogs
  /\ UNCHANGED <<phase, tally, load, lock, tail, stateFile, summary>>

Publishes(r) ==
  /\ req[r].pc = "publish" /\ req[r].job = "none" /\ req'[r].job = "none"
  /\ Moves(r, IF req[r].kind = "close" THEN "closing" ELSE Done(r), req[r].reply)
  /\ summary' = req[r].draft
  /\ SameLogs
  /\ UNCHANGED <<phase, tally, load, lock, tail, stateFile>>

\* Only the job of r changes.
Works(r, old, new) ==
  /\ Moves(r, req[r].pc, req[r].reply) /\ req[r].pc # "done"
  /\ req'[r].event = req[r].event /\ req'[r].tailSeat = req[r].tailSeat
  /\ req[r].job = old /\ req'[r].job = new

BeginsFrame(r) ==
  /\ FrameJob(r) /\ Live /\ Works(r, "queued", "writing") /\ req[r].tailSeat = tail.served
  /\ load' = [load EXCEPT !.frames = @ + 1]
  /\ IF clock.first = Unset
     THEN clock'.first = req[r].receipt /\ clock'.frame = 0
     ELSE clock'.first = clock.first /\ clock'.frame = Larger(req[r].receipt - clock.first,
                                                              clock.frame + 1)
  /\ clock'.observed = clock.observed
  /\ UNCHANGED <<phase, tally, gate, lock, tail, disk>>

BeginsEvent(r) ==
  /\ ~FrameJob(r) /\ Live /\ Works(r, "queued", "appending") /\ req[r].tailSeat = tail.served
  /\ gate'.seq = gate.seq + 1
  /\ clock'.observed = Larger(Larger(0, req[r].event.receipt - clock.first), clock.observed + 1)
  /\ clock'.first = clock.first /\ clock'.frame = clock.frame
  /\ UNCHANGED <<phase, tally, load, lock, tail, disk>>

Images(r) ==
  /\ Works(r, "writing", "imaged")
  /\ images' = images \cup {load.frames}
  /\ UNCHANGED <<phase, memory, stateFile, summary, frameLog, observedLog>>

LogsEvent(r) ==
  /\ Works(r, "appending", "none")
  /\ observedLog' = Append(observedLog,
       [seq |-> gate.seq, type |-> req[r].event.type, offset |-> clock.observed,
        from |-> req[r].event.from])
  /\ tail' = [tail EXCEPT !.served = @ + 1]
  /\ SameNumbers
  /\ UNCHANGED <<phase, tally, load, lock, stateFile, summary, images, frameLog>>

LogsLine(r) ==
  /\ frameLog' = Append(frameLog, [id |-> load.frames, offset |-> clock.frame, from |-> r])
  /\ tally' = [tally EXCEPT !.accepted = @ + 1]
  /\ SameNumbers
  /\ UNCHANGED <<lock, stateFile, summary, images, observedLog>>

LogsFirst(r) ==
  /\ Works(r, "imaged", "starting") /\ LogsLine(r)
  /\ phase = "claimed" /\ phase' = "running"
  /\ load' = [load EXCEPT !.bytes = @ + req[r].size]
  /\ UNCHANGED tail

\* The write of a frame is over.
SettlesFrame(r, bytes, code) ==
  /\ req[r].pc = "persisting" /\ req[r].kind = "frame" /\ req'[r].job = "none"
  /\ Moves(r, "done", code)
  /\ load' = [load EXCEPT !.pending = @ - 1, !.inflight = @ - req[r].size, !.bytes = @ + bytes]
  /\ tail' = [tail EXCEPT !.served = @ + 1]

LogsNext(r) ==
  /\ req[r].job = "imaged" /\ LogsLine(r) /\ SettlesFrame(r, req[r].size, 200)
  /\ phase # "claimed" /\ phase' = phase

SavesRunning(r) ==
  /\ req[r].job = "starting" /\ SettlesFrame(r, 0, 200)
  /\ stateFile' = "running"
  /\ SameLogs
  /\ UNCHANGED <<phase, tally, lock, summary>>

\* A job throws.
Breaks(r) ==
  /\ req[r].job \notin {"none", "starting", "failing"} /\ Works(r, req[r].job, "failing")
  /\ phase # "failed" /\ phase' = "failed"
  /\ SameLogs
  /\ UNCHANGED <<tally, load, lock, tail, stateFile, summary>>

\* Its handler hears of it.
Hears(r) ==
  /\ req[r].job \notin {"none", "starting"} /\ req'[r].job = "none" /\ phase = "failed"
  /\ req[r].tailSeat = tail.served
  /\ \/ /\ FrameJob(r) /\ SettlesFrame(r, 0, 500)
     \/ /\ ~FrameJob(r) /\ UNCHANGED load
        /\ tail' = [tail EXCEPT !.served = @ + 1]
        /\ IF req[r].kind = "stop" THEN Moves(r, "verdict", NoReply)
           ELSE Moves(r, Done(r), 500)
  /\ SameLogs /\ tally'.accepted = tally.accepted
  /\ stateFile' \in {stateFile, phase}
  /\ UNCHANGED <<phase, lock, summary>>

Move(r) == \/ Arrives(r) \/ Stumbles(r) \/ Closes(r) \/ Claims(r) \/ Fails(r) \/ Stops(r)
           \/ Saves(r) \/ Goes(r) \/ Joins(r) \/ Checks(r) \/ Admits(r) \/ Queues(r)
           \/ Unlocks(r) \/ Summarizes(r) \/ Publishes(r)
           \/ BeginsFrame(r) \/ BeginsEvent(r) \/ Images(r) \/ LogsEvent(r)
           \/ LogsFirst(r) \/ LogsNext(r) \/ SavesRunning(r) \/ Breaks(r) \/ Hears(r)

-----------------------------------------------------------------------------
(* 2. Which action does it.                                                  *)

\* Both ways Goto leaves a handler.
LEMMA GotoMoves ==
  ASSUME TypeInv, NEW r \in Req, NEW pc, NEW code, req' = [req EXCEPT ![r] = Goto(r, pc, code)]
  PROVE  Moves(r, pc, code) /\ req'[r].job = "none"
<1> DEFINE h == [req[r] EXCEPT !.pc = pc, !.reply = code, !.job = "none"]
           d == [Idle EXCEPT !.kind = req[r].kind, !.pc = pc, !.reply = code,
                             !.save = req[r].save]
<1>0. req[r] \in HandlerType /\ req'[r] = Goto(r, pc, code) /\ Others(r)
  BY Handlers, Replaced
<1>1. /\ h.pc = pc /\ h.kind = req[r].kind /\ h.reply = code /\ h.job = "none"
      /\ h.draft = req[r].draft /\ h.save = req[r].save /\ h.receipt = req[r].receipt
      /\ h.size = req[r].size /\ h.lockSeat = req[r].lockSeat /\ h.next = req[r].next
  BY <1>0 DEF HandlerType
<1>2. /\ d.pc = pc /\ d.kind = req[r].kind /\ d.reply = code /\ d.job = "none"
      /\ d.draft = NoSummary /\ d.save = req[r].save
  BY DEF Idle
<1>3. req'[r] = IF pc = "done" THEN d ELSE h
  BY <1>0 DEF Goto
<1> HIDE DEF h, d
<1> QED
  BY <1>0, <1>1, <1>2, <1>3 DEF Moves, Carries

LEMMA AnswerMoves ==
  ASSUME TypeInv, NEW r \in Req, NEW code, Answer(r, code)
  PROVE  Moves(r, Done(r), code) /\ req'[r].job = "none"
BY GotoMoves DEF Answer

LEMMA SetPhaseSwitches ==
  ASSUME TypeInv, NEW r \in Req, NEW to, NEW code, NEW next, req[r].job = "none",
         SetPhase(r, to, code, next)
  PROVE  Switches(r, to, code, next)
<1> DEFINE h == [req[r] EXCEPT !.pc = "saving", !.save = to, !.reply = code, !.next = next]
<1>0. req[r] \in HandlerType /\ req'[r] = h /\ Others(r) /\ phase' = to
  BY Handlers, Replaced DEF SetPhase
<1>1. /\ h.pc = "saving" /\ h.kind = req[r].kind /\ h.reply = code /\ h.job = "none"
      /\ h.draft = req[r].draft /\ h.save = to /\ h.receipt = req[r].receipt
      /\ h.size = req[r].size /\ h.lockSeat = req[r].lockSeat /\ h.next = next
  BY <1>0 DEF HandlerType
<1> HIDE DEF h
<1> QED
  BY <1>0, <1>1 DEF Switches

\* A handler that only goes to another place, or answers there too.
LEMMA StepMoves ==
  ASSUME TypeInv, NEW r \in Req, NEW pc, NEW code, pc # "done",
         \/ req' = [req EXCEPT ![r] = [@ EXCEPT !.pc = pc]] /\ code = req[r].reply
         \/ req' = [req EXCEPT ![r] = [@ EXCEPT !.pc = pc, !.reply = code]]
  PROVE  Moves(r, pc, code) /\ req'[r].job = req[r].job
<1> DEFINE h == [req[r] EXCEPT !.pc = pc]
           g == [req[r] EXCEPT !.pc = pc, !.reply = code]
<1>0. req[r] \in HandlerType
  BY Handlers
<1>1. /\ h.pc = pc /\ h.kind = req[r].kind /\ h.reply = req[r].reply /\ h.job = req[r].job
      /\ h.draft = req[r].draft /\ h.save = req[r].save /\ h.receipt = req[r].receipt
      /\ h.size = req[r].size /\ h.lockSeat = req[r].lockSeat /\ h.next = req[r].next
  BY <1>0 DEF HandlerType
<1>2. /\ g.pc = pc /\ g.kind = req[r].kind /\ g.reply = code /\ g.job = req[r].job
      /\ g.draft = req[r].draft /\ g.save = req[r].save /\ g.receipt = req[r].receipt
      /\ g.size = req[r].size /\ g.lockSeat = req[r].lockSeat /\ g.next = req[r].next
  BY <1>0 DEF HandlerType
<1>3. \/ req' = [req EXCEPT ![r] = h] /\ code = req[r].reply
      \/ req' = [req EXCEPT ![r] = g]
  OBVIOUS
<1> HIDE DEF h, g
<1>4. Others(r) /\ (\/ req'[r] = h /\ code = req[r].reply
                    \/ req'[r] = g)
  BY <1>3, Replaced
<1> QED
  BY <1>1, <1>2, <1>4 DEF Moves, Carries

LEMMA EnqueueMoves ==
  ASSUME TypeInv, NEW r \in Req, NEW event, NEW pc, pc # "done", req[r].job = "none",
         Enqueue(r, event, pc)
  PROVE  Moves(r, pc, req[r].reply) /\ LinksJob(r) /\ req'[r].event = event
<1> DEFINE h == [req[r] EXCEPT !.pc = pc, !.job = "queued", !.event = event,
                               !.tailSeat = tail.next]
<1>0. req[r] \in HandlerType
  BY Handlers
<1>1. /\ h.pc = pc /\ h.kind = req[r].kind /\ h.reply = req[r].reply /\ h.job = "queued"
      /\ h.draft = req[r].draft /\ h.save = req[r].save /\ h.receipt = req[r].receipt
      /\ h.size = req[r].size /\ h.lockSeat = req[r].lockSeat /\ h.next = req[r].next
      /\ h.event = event /\ h.tailSeat = tail.next
  BY <1>0 DEF HandlerType
<1>2. req' = [req EXCEPT ![r] = h] /\ tail' = [tail EXCEPT !.next = @ + 1]
  BY DEF Enqueue
<1> HIDE DEF h
<1>3. req'[r] = h /\ Others(r)
  BY <1>2, Replaced
<1> QED
  BY <1>1, <1>2, <1>3 DEF Moves, Carries, LinksJob

LEMMA JobWorks ==
  ASSUME TypeInv, NEW r \in Req, NEW new, req[r].job # "none",
         req' = [req EXCEPT ![r] = [@ EXCEPT !.job = new]]
  PROVE  Works(r, req[r].job, new)
<1> DEFINE h == [req[r] EXCEPT !.job = new]
<1>0. req[r] \in HandlerType /\ req[r].pc # "done"
  BY Handlers DEF TypeInv, WellPlaced
<1>1. /\ h.pc = req[r].pc /\ h.kind = req[r].kind /\ h.reply = req[r].reply /\ h.job = new
      /\ h.draft = req[r].draft /\ h.save = req[r].save /\ h.receipt = req[r].receipt
      /\ h.size = req[r].size /\ h.lockSeat = req[r].lockSeat /\ h.next = req[r].next
      /\ h.event = req[r].event /\ h.tailSeat = req[r].tailSeat
  BY <1>0 DEF HandlerType
<1> HIDE DEF h
<1>2. req'[r] = h /\ Others(r)
  BY Replaced DEF h
<1> QED
  BY <1>0, <1>1, <1>2 DEF Works, Moves, Carries

LEMMA Rests == ASSUME UNCHANGED <<memory, logs>> PROVE SameLogs
BY DEF memory, logs, SameLogs, SameNumbers

LEMMA ArriveMoves == ASSUME IInv, NEW r \in Req, NEW k \in Kinds, Arrive(r, k) PROVE Arrives(r)
<1> DEFINE at == IF k \in Stamped THEN now ELSE Unset
           h == [req[r] EXCEPT !.kind = k, !.pc = "body", !.receipt = at]
<1>0. TypeInv /\ req[r] \in HandlerType /\ req[r].pc = "idle"
  BY Handlers DEF IInv, Arrive, NextUp
<1>1. /\ h.pc = "body" /\ h.kind = k /\ h.reply = req[r].reply /\ h.job = req[r].job
      /\ h.draft = req[r].draft /\ h.receipt = at
  BY <1>0 DEF HandlerType
<1>2. req' = [req EXCEPT ![r] = h]
  BY DEF Arrive
<1>3. k = "frame" => at = now
  BY DEF Stamped
<1> HIDE DEF h, at
<1>4. req'[r] = h /\ Others(r)
  BY <1>0, <1>2, Replaced
<1>5. k # "close" /\ (k = "claim" \/ TokenIssued) /\ UNCHANGED <<now, phase, memory, disk>>
  BY DEF Arrive
<1> QED
  BY <1>0, <1>1, <1>3, <1>4, <1>5, Rests DEF Arrives, memory, disk, logs

LEMMA ArriveOnBadClockMoves ==
  ASSUME IInv, NEW r \in Req, NEW k \in Kinds, ArriveOnBadClock(r, k) PROVE Stumbles(r)
<1> DEFINE h == [req[r] EXCEPT !.kind = k, !.pc = "saving", !.save = "failed",
                               !.reply = 500, !.next = "done"]
           g == [req[r] EXCEPT !.kind = k, !.pc = "done", !.reply = 500]
<1>0. TypeInv /\ req[r] \in HandlerType /\ req[r].pc = "idle" /\ k \in Stamped
  BY Handlers DEF IInv, ArriveOnBadClock, NextUp
<1>1. /\ h.pc = "saving" /\ h.next = "done" /\ h.reply = 500 /\ h.save = "failed"
      /\ h.kind = k /\ h.job = req[r].job /\ h.draft = req[r].draft
      /\ g.pc = "done" /\ g.reply = 500 /\ g.kind = k
      /\ g.job = req[r].job /\ g.draft = req[r].draft
  BY <1>0 DEF HandlerType
<1>2. \/ Live /\ req' = [req EXCEPT ![r] = h] /\ phase' = "failed"
      \/ ~Live /\ req' = [req EXCEPT ![r] = g] /\ phase' = phase
  BY DEF ArriveOnBadClock
<1>3. UNCHANGED <<memory, disk>>
  BY DEF ArriveOnBadClock
<1> HIDE DEF h, g
<1>4. Others(r) /\ (\/ Live /\ req'[r] = h /\ phase' = "failed"
                    \/ ~Live /\ req'[r] = g /\ phase' = phase)
  BY <1>0, <1>2, Replaced
<1> QED
  BY <1>0, <1>1, <1>3, <1>4, Rests DEF Stumbles, memory, disk, logs

LEMMA CloseMoves == ASSUME IInv, NEW r \in Req, Close(r) PROVE Closes(r)
<1> DEFINE h == [req[r] EXCEPT !.kind = "close", !.pc = "saving",
                               !.save = "failed", !.next = "drain"]
           g == [req[r] EXCEPT !.kind = "close", !.pc = "closing"]
<1>0. TypeInv /\ req[r] \in HandlerType /\ req[r].pc = "idle"
  BY Handlers DEF IInv, Close, NextUp
<1>1. /\ h.pc = "saving" /\ h.next = "drain" /\ h.reply = req[r].reply /\ h.save = "failed"
      /\ h.kind = "close" /\ h.job = req[r].job /\ h.draft = req[r].draft
      /\ g.pc = "closing" /\ g.reply = req[r].reply /\ g.kind = "close" /\ g.save = req[r].save
      /\ g.job = req[r].job /\ g.draft = req[r].draft
  BY <1>0 DEF HandlerType
<1>2. \/ Live /\ req' = [req EXCEPT ![r] = h] /\ phase' = "failed"
      \/ ~Live /\ req' = [req EXCEPT ![r] = g] /\ phase' = phase
  BY DEF Close
<1>3. UNCHANGED <<clock, tally, load, gate, lock, tail, disk>>
  BY DEF Close
<1> HIDE DEF h, g
<1>4. Others(r) /\ (\/ Live /\ req'[r] = h /\ phase' = "failed"
                    \/ ~Live /\ req'[r] = g /\ phase' = phase)
  BY <1>0, <1>2, Replaced
<1> QED
  BY <1>0, <1>1, <1>3, <1>4 DEF Closes, disk, SameLogs, SameNumbers

LEMMA RefuseMoves == ASSUME IInv, NEW r \in Req, Refuse(r) PROVE Goes(r)
<1>0. TypeInv /\ req[r].job = "none" /\ req[r].pc = "body" /\ req[r] \in HandlerType
  BY Handlers DEF IInv, Refuse, At
<1>1. Moves(r, "done", 400) /\ req'[r].job = "none"
  BY <1>0, GotoMoves DEF Refuse
<1>2. Onward(req[r].kind, "body", "done")
  BY DEF Onward
<1>3. UNCHANGED <<phase, memory, disk>>
  BY DEF Refuse
<1> QED
  BY <1>0, <1>1, <1>2, <1>3, Rests DEF Goes, Moves, memory, disk, logs

LEMMA ClaimMoves == ASSUME IInv, NEW r \in Req, Claim(r) PROVE Claims(r) \/ Goes(r)
<1>0. TypeInv /\ req[r].job = "none" /\ req[r].pc = "body" /\ req[r].kind = "claim"
  BY DEF IInv, Claim, Dispatched, At
<1>1. /\ UNCHANGED <<tally, load, gate, pending, lock, tail, server, disk>>
      /\ clock'.first = clock.first /\ clock'.frame = clock.frame
      /\ clock'.observed = clock.observed
  BY <1>0, MemoryType DEF Claim, ClockType
<1>2. SameLogs
  BY <1>1 DEF disk, SameLogs, SameNumbers
<1>3. CASE phase = "ready"
  <2>1. Switches(r, "claimed", 200, "done")
    BY <1>0, <1>3, SetPhaseSwitches DEF Claim
  <2> QED
    BY <1>0, <1>1, <1>2, <1>3, <2>1 DEF Claims, disk
<1>4. CASE phase # "ready"
  <2>1. Moves(r, "done", 409) /\ req'[r].job = "none" /\ UNCHANGED phase
    BY <1>0, <1>4, AnswerMoves DEF Claim, Done
  <2>2. Onward("claim", "body", "done")
    BY DEF Onward
  <2> QED
    BY <1>0, <1>1, <1>2, <2>1, <2>2 DEF Goes, Moves, disk
<1> QED
  BY <1>3, <1>4

LEMMA FailMoves == ASSUME IInv, NEW r \in Req, Fail(r) PROVE Fails(r) \/ Goes(r)
<1>0. TypeInv /\ req[r].job = "none" /\ req[r].pc = "body" /\ req[r].kind = "fail"
  BY DEF IInv, Fail, Dispatched, At
<1>1. SameLogs /\ UNCHANGED <<tally, load, lock, tail, stateFile, summary>>
  BY Rests DEF Fail, memory, disk, logs
<1>2. CASE Live
  <2>1. Switches(r, "failed", 200, "done")
    BY <1>0, <1>2, SetPhaseSwitches DEF Fail
  <2>2. AfterFailure(r, 200, "done")
    BY <1>0 DEF AfterFailure
  <2> QED
    BY <1>1, <1>2, <2>1, <2>2 DEF Fails, Switches, Live
<1>3. CASE ~Live
  <2>1. Moves(r, "done", 409) /\ req'[r].job = "none" /\ UNCHANGED phase
    BY <1>0, <1>3, AnswerMoves DEF Fail, Done
  <2>2. Onward("fail", "body", "done")
    BY DEF Onward
  <2> QED
    BY <1>0, <1>1, <2>1, <2>2 DEF Goes, Moves
<1> QED
  BY <1>2, <1>3

LEMMA ChallengeMoves == ASSUME IInv, NEW r \in Req, Challenge(r) PROVE Fails(r) \/ Goes(r)
<1>0. TypeInv /\ req[r].job = "none" /\ req[r].pc = "body" /\ req[r].kind = "challenge"
  BY DEF IInv, Challenge, Dispatched, At
<1>1. gate'.seq = gate.seq
  BY <1>0, MemoryType DEF Challenge, GateType
<1>2. SameLogs /\ UNCHANGED <<tally, load, lock, tail, stateFile, summary>>
  BY <1>1 DEF Challenge, disk, SameLogs, SameNumbers
<1>3. CASE Live /\ SetPhase(r, "failed", 429, "done")
  <2>1. Switches(r, "failed", 429, "done")
    BY <1>0, <1>3, SetPhaseSwitches
  <2>2. AfterFailure(r, 429, "done")
    BY <1>0 DEF AfterFailure
  <2> QED
    BY <1>2, <1>3, <2>1, <2>2 DEF Fails, Switches, Live
<1>4. ASSUME NEW code, Answer(r, code), UNCHANGED phase PROVE Goes(r)
  <2>1. Moves(r, "done", code) /\ req'[r].job = "none"
    BY <1>0, <1>4, AnswerMoves DEF Done
  <2>2. Onward("challenge", "body", "done")
    BY DEF Onward
  <2> QED
    BY <1>0, <1>2, <1>4, <2>1, <2>2 DEF Goes, Moves
<1> QED
  BY <1>3, <1>4 DEF Challenge

LEMMA ObservedEventMoves == ASSUME IInv, NEW r \in Req, ObservedEvent(r) PROVE Fails(r) \/ Goes(r)
<1> DEFINE to == IF req[r].kind = "scroll" THEN "flushPointer" ELSE "flushScroll"
<1>0. TypeInv /\ req[r].job = "none" /\ req[r].pc = "body" /\ req[r].kind \in Observed
  BY DEF IInv, ObservedEvent, Dispatched, At
<1>1. gate'.seq = gate.seq
  BY <1>0, MemoryType DEF ObservedEvent, RefuseEvent, RateAfter, GateType
<1>2. SameLogs /\ UNCHANGED <<tally, load, lock, tail, stateFile, summary>>
  BY <1>1 DEF ObservedEvent, disk, SameLogs, SameNumbers
<1>3. ASSUME Live, NEW code \in {400, 409, 429}, SetPhase(r, "failed", code, "done")
      PROVE  Fails(r)
  <2>1. Switches(r, "failed", code, "done")
    BY <1>0, <1>3, SetPhaseSwitches
  <2>2. AfterFailure(r, code, "done")
    BY <1>0 DEF AfterFailure, Observed
  <2> QED
    BY <1>2, <1>3, <2>1, <2>2 DEF Fails, Switches, Live
<1>4. CASE Answer(r, 409) /\ UNCHANGED phase
  <2>1. Moves(r, "done", 409) /\ req'[r].job = "none"
    BY <1>0, <1>4, AnswerMoves DEF Done, Observed
  <2>2. Onward(req[r].kind, "body", "done")
    BY DEF Onward
  <2> QED
    BY <1>0, <1>2, <1>4, <2>1, <2>2 DEF Goes, Moves
<1>5. CASE req' = [req EXCEPT ![r] = [@ EXCEPT !.pc = to]] /\ UNCHANGED phase /\ Live
  <2>1. Moves(r, to, req[r].reply) /\ req'[r].job = "none"
    BY <1>0, <1>5, StepMoves
  <2>2. Onward(req[r].kind, "body", to) /\ req[r].kind # "claim" /\ to # "summarize"
    BY <1>0 DEF Onward, Observed
  <2> QED
    BY <1>0, <1>2, <1>5, <2>1, <2>2 DEF Goes, Moves
<1> QED
  BY <1>3, <1>4, <1>5 DEF ObservedEvent, RefuseEvent

LEMMA FlushMoves ==
  ASSUME TypeInv, NEW r \in Req, NEW k, NEW pc, req[r].job = "none", Flush(r, k, pc),
         Onward(req[r].kind, req[r].pc, pc), req[r].kind # "claim",
         req[r].pc \in {"flushScroll", "flushPointer", "place"},
         pc \notin {"done", "unlock", "summarize", "draining"},
         SameLogs, UNCHANGED <<phase, tally, load, lock, stateFile, summary>>
  PROVE  Goes(r) \/ Queues(r)
<1>0. pc = "drain" => req[r].pc = "flushPointer"
  BY DEF Onward
<1>1. CASE pending[k] = NoEvent
  <2>1. Moves(r, pc, req[r].reply) /\ req'[r].job = "none" /\ UNCHANGED tail
    BY <1>1, StepMoves DEF Flush
  <2> QED
    BY <1>0, <2>1 DEF Goes, Moves
<1>2. CASE pending[k] # NoEvent
  <2>1. Moves(r, pc, req[r].reply) /\ LinksJob(r)
    BY <1>2, EnqueueMoves DEF Flush
  <2> QED
    BY <2>1 DEF Queues, Moves
<1> QED
  BY <1>1, <1>2

LEMMA FlushScrollMoves == ASSUME IInv, NEW r \in Req, FlushScroll(r) PROVE Goes(r) \/ Queues(r)
<1> DEFINE pc == IF req[r].kind = "pointer" THEN "place" ELSE "flushPointer"
<1>0. /\ TypeInv /\ req[r].job = "none" /\ req[r].pc = "flushScroll"
      /\ req[r].kind \in {"pointer", "click", "frame", "stop"}
  BY DEF IInv, FlushScroll, At, TypeInv, WellPlaced
<1>1. Onward(req[r].kind, "flushScroll", pc)
  BY <1>0 DEF Onward
<1>2. SameLogs /\ UNCHANGED <<phase, tally, load, lock, stateFile, summary>>
  BY DEF FlushScroll, disk, SameLogs, SameNumbers
<1> QED
  BY <1>0, <1>1, <1>2, FlushMoves DEF FlushScroll

LEMMA FlushPointerMoves == ASSUME IInv, NEW r \in Req, FlushPointer(r) PROVE Goes(r) \/ Queues(r)
<1> DEFINE pc == AfterFlushPointer(req[r].kind)
<1>0. /\ TypeInv /\ req[r].job = "none" /\ req[r].pc = "flushPointer"
      /\ req[r].kind \in {"scroll", "click", "frame", "stop"}
  BY DEF IInv, FlushPointer, At, TypeInv, WellPlaced
<1>1. Onward(req[r].kind, "flushPointer", pc) /\ pc \in {"place", "click", "admit", "drain"}
  BY <1>0 DEF Onward, AfterFlushPointer
<1>2. SameLogs /\ UNCHANGED <<phase, tally, load, lock, stateFile, summary>>
  BY DEF FlushPointer, disk, SameLogs, SameNumbers
<1> QED
  BY <1>0, <1>1, <1>2, FlushMoves DEF FlushPointer

LEMMA FlushOwnMoves == ASSUME IInv, NEW r \in Req, FlushOwn(r) PROVE Goes(r) \/ Queues(r)
<1>0. /\ TypeInv /\ req[r].job = "none" /\ req[r].pc = "place"
      /\ req[r].kind \in {"scroll", "pointer"}
  BY DEF IInv, FlushOwn, At, TypeInv, WellPlaced
<1>1. Onward(req[r].kind, "place", "set")
  BY <1>0 DEF Onward
<1>2. SameLogs /\ UNCHANGED <<phase, tally, load, lock, stateFile, summary>>
  BY DEF FlushOwn, disk, SameLogs, SameNumbers
<1> QED
  BY <1>0, <1>1, <1>2, FlushMoves DEF FlushOwn

LEMMA CoalesceMoves == ASSUME IInv, NEW r \in Req, Coalesce(r) PROVE Fails(r) \/ Goes(r)
<1>0. /\ TypeInv /\ req[r].job = "none" /\ req[r].pc = "place"
      /\ req[r].kind \in {"scroll", "pointer"}
  BY DEF IInv, Coalesce, At, TypeInv, WellPlaced
<1>1. SameLogs /\ UNCHANGED <<tally, load, lock, tail, stateFile, summary>>
  BY DEF Coalesce, disk, SameLogs, SameNumbers
<1>2. SetPhase(r, "failed", 429, "done") \/ (Answer(r, 200) /\ UNCHANGED phase)
  BY DEF Coalesce
<1>3. CASE SetPhase(r, "failed", 429, "done")
  <2>1. Switches(r, "failed", 429, "done") /\ AfterFailure(r, 429, "done")
    BY <1>0, <1>3, SetPhaseSwitches DEF AfterFailure
  <2> QED
    BY <1>1, <2>1 DEF Fails, Switches
<1>4. CASE Answer(r, 200) /\ UNCHANGED phase
  <2>1. Moves(r, "done", 200) /\ req'[r].job = "none"
    BY <1>0, <1>4, AnswerMoves DEF Done
  <2>2. Onward(req[r].kind, "place", "done")
    BY <1>0 DEF Onward
  <2> QED
    BY <1>0, <1>1, <1>4, <2>1, <2>2 DEF Goes, Moves
<1> QED
  BY <1>2, <1>3, <1>4

LEMMA SetPendingMoves == ASSUME IInv, NEW r \in Req, SetPending(r) PROVE Goes(r)
<1>0. /\ TypeInv /\ req[r].job = "none" /\ req[r].pc = "set"
      /\ req[r].kind \in {"scroll", "pointer"}
  BY DEF IInv, SetPending, At, TypeInv, WellPlaced
<1>1. SameLogs /\ UNCHANGED <<phase, tally, load, lock, tail, stateFile, summary>>
  BY DEF SetPending, disk, SameLogs, SameNumbers
<1>2. Moves(r, "done", 200) /\ req'[r].job = "none"
  BY <1>0, AnswerMoves DEF SetPending, Done
<1>3. Onward(req[r].kind, "set", "done")
  BY <1>0 DEF Onward
<1> QED
  BY <1>0, <1>1, <1>2, <1>3 DEF Goes, Moves

LEMMA QueueClickMoves == ASSUME IInv, NEW r \in Req, QueueClick(r) PROVE Queues(r)
<1>0. TypeInv /\ req[r].job = "none" /\ req[r].kind = "click" /\ req[r].pc = "click"
  BY DEF IInv, QueueClick, At, TypeInv, WellPlaced
<1>1. SameLogs /\ UNCHANGED <<phase, tally, load, lock, stateFile, summary>>
  BY DEF QueueClick, disk, SameLogs, SameNumbers
<1>2. Moves(r, "accepted", req[r].reply) /\ LinksJob(r) /\ req'[r].event = Sample(r)
  BY <1>0, EnqueueMoves DEF QueueClick
<1>3. Sample(r).from = {r}
  BY DEF Sample
<1> QED
  BY <1>0, <1>1, <1>2, <1>3 DEF Queues, Moves

LEMMA AnswerClickMoves == ASSUME IInv, NEW r \in Req, AnswerClick(r) PROVE Goes(r)
<1>0. TypeInv /\ req[r].job = "none" /\ req[r].pc = "accepted" /\ req[r].kind = "click"
  BY DEF IInv, AnswerClick, At, TypeInv, WellPlaced
<1>1. SameLogs /\ UNCHANGED <<phase, tally, load, lock, tail, stateFile, summary>>
  BY Rests DEF AnswerClick, memory, disk, logs
<1>2. Moves(r, "done", 200) /\ req'[r].job = "none"
  BY <1>0, AnswerMoves DEF AnswerClick, Done
<1>3. Onward("click", "accepted", "done")
  BY DEF Onward
<1> QED
  BY <1>0, <1>1, <1>2, <1>3 DEF Goes, Moves

LEMMA EnterFrameMoves == ASSUME IInv, NEW r \in Req, EnterFrame(r) PROVE Joins(r)
<1> DEFINE h == [req[r] EXCEPT !.pc = "enter", !.lockSeat = lock.next]
<1>0. /\ TypeInv /\ req[r] \in HandlerType /\ req[r].job = "none"
      /\ req[r].kind = "frame" /\ req[r].pc = "body"
  BY Handlers DEF IInv, EnterFrame, Dispatched, At
<1>1. /\ h.pc = "enter" /\ h.kind = req[r].kind /\ h.reply = req[r].reply
      /\ h.job = "none" /\ h.draft = req[r].draft /\ h.save = req[r].save
      /\ h.receipt = req[r].receipt /\ h.lockSeat = lock.next
  BY <1>0 DEF HandlerType
<1>2. req' = [req EXCEPT ![r] = h]
  BY DEF EnterFrame
<1> HIDE DEF h
<1>3. req'[r] = h /\ Others(r)
  BY <1>0, <1>2, Replaced
<1> QED
  BY <1>0, <1>1, <1>3 DEF EnterFrame, Joins, disk, SameLogs, SameNumbers

LEMMA EnterStopMoves == ASSUME IInv, NEW r \in Req, EnterStop(r) PROVE Joins(r)
<1> DEFINE h == [req[r] EXCEPT !.pc = "stopping", !.lockSeat = lock.next]
<1>0. /\ TypeInv /\ req[r] \in HandlerType /\ req[r].job = "none"
      /\ req[r].kind = "stop" /\ req[r].pc = "body"
  BY Handlers DEF IInv, EnterStop, Dispatched, At
<1>1. /\ h.pc = "stopping" /\ h.kind = req[r].kind /\ h.reply = req[r].reply
      /\ h.job = "none" /\ h.draft = req[r].draft /\ h.save = req[r].save
      /\ h.receipt = req[r].receipt
  BY <1>0 DEF HandlerType
<1>2. req' = [req EXCEPT ![r] = h]
  BY DEF EnterStop
<1> HIDE DEF h
<1>3. req'[r] = h /\ Others(r)
  BY <1>0, <1>2, Replaced
<1> QED
  BY <1>0, <1>1, <1>3 DEF EnterStop, Joins, memory, disk, SameLogs, SameNumbers

LEMMA CheckFrameMoves ==
  ASSUME IInv, NEW r \in Req, CheckFrame(r) PROVE Goes(r) \/ Fails(r) \/ Checks(r)
<1>0. /\ TypeInv /\ req[r] \in HandlerType /\ req[r].job = "none"
      /\ req[r].kind = "frame" /\ req[r].pc = "enter" /\ HasLock(r)
  BY Handlers DEF IInv, CheckFrame, At, TypeInv, WellPlaced
<1>1. SameLogs /\ UNCHANGED <<load, lock, tail, stateFile, summary>>
  BY DEF CheckFrame, disk, SameLogs, SameNumbers
<1>2. tally'.accepted = tally.accepted
  BY MemoryType, <1>0 DEF CheckFrame, Reject, TallyType
<1>3. CASE ~Live /\ Answer(r, 429) /\ UNCHANGED phase
  <2>1. Moves(r, "unlock", 429) /\ req'[r].job = "none"
    BY <1>0, <1>3, AnswerMoves DEF Done
  <2>2. Onward("frame", "enter", "unlock")
    BY DEF Onward
  <2> QED
    BY <1>0, <1>1, <1>2, <1>3, <2>1, <2>2 DEF Goes, Moves
<1>4. ASSUME Live, NEW code, NEW next \in {"unlock", "drain", "summarize"},
             SetPhase(r, "failed", code, next)
      PROVE  Fails(r)
  <2>1. Switches(r, "failed", code, next) /\ AfterFailure(r, code, next)
    BY <1>0, <1>4, SetPhaseSwitches DEF AfterFailure
  <2> QED
    BY <1>1, <1>2, <2>1 DEF Fails, Switches
<1>5. ASSUME Live, load.pending < QueueCapacity, NEW size \in FrameSizes, ~OverBudget(r, size),
             req' = [req EXCEPT ![r] = [@ EXCEPT !.pc = "flushScroll", !.size = size]],
             tally' = [tally EXCEPT !.received = @ + 1], UNCHANGED phase
      PROVE  Checks(r)
  <2> DEFINE h == [req[r] EXCEPT !.pc = "flushScroll", !.size = size]
  <2>1. /\ h.pc = "flushScroll" /\ h.kind = req[r].kind /\ h.reply = req[r].reply
        /\ h.job = "none" /\ h.draft = req[r].draft /\ h.save = req[r].save
        /\ h.receipt = req[r].receipt /\ h.lockSeat = req[r].lockSeat /\ h.size = size
    BY <1>0 DEF HandlerType
  <2>2. req' = [req EXCEPT ![r] = h]
    BY <1>5
  <2> HIDE DEF h
  <2>3. req'[r] = h /\ Others(r)
    BY <1>0, <2>2, Replaced
  <2> QED
    BY <1>0, <1>1, <1>5, <2>1, <2>3 DEF Checks
<1>6. \/ ~Live /\ Answer(r, 429) /\ UNCHANGED phase
      \/ Live /\ FailCapture(r, 429, "summarize")
      \/ Live /\ SetPhase(r, "failed", 400, "unlock")
      \/ Live /\ FailCapture(r, 429, "drain")
      \/ /\ Live /\ load.pending < QueueCapacity
         /\ tally' = [tally EXCEPT !.received = @ + 1] /\ UNCHANGED phase
         /\ \E size \in FrameSizes :
              /\ ~OverBudget(r, size)
              /\ req' = [req EXCEPT ![r] = [@ EXCEPT !.pc = "flushScroll", !.size = size]]
  BY DEF CheckFrame
<1>7. CASE Live /\ FailCapture(r, 429, "summarize")
  BY <1>4, <1>7 DEF FailCapture
<1>8. CASE Live /\ SetPhase(r, "failed", 400, "unlock")
  BY <1>4, <1>8
<1>9. CASE Live /\ FailCapture(r, 429, "drain")
  BY <1>4, <1>9 DEF FailCapture
<1> QED
  BY <1>3, <1>5, <1>6, <1>7, <1>8, <1>9

LEMMA AdmitFrameMoves == ASSUME IInv, NEW r \in Req, AdmitFrame(r) PROVE Admits(r)
<1>0. TypeInv /\ req[r].job = "none" /\ req[r].kind = "frame" /\ req[r].pc = "admit"
  BY DEF IInv, AdmitFrame, At, TypeInv, WellPlaced
<1>1. Moves(r, "persisting", req[r].reply) /\ LinksJob(r)
  BY <1>0, EnqueueMoves DEF AdmitFrame
<1>2. load'.frames = load.frames
  BY <1>0, MemoryType DEF AdmitFrame, LoadType
<1> QED
  BY <1>0, <1>1, <1>2 DEF AdmitFrame, Admits, disk, SameLogs, SameNumbers

LEMMA UnlockMoves == ASSUME IInv, NEW r \in Req, Unlock(r) PROVE Unlocks(r)
<1>0. TypeInv /\ req[r].job = "none" /\ req[r].kind = "frame" /\ req[r].pc = "unlock"
  BY DEF IInv, Unlock, At, TypeInv, WellPlaced
<1>1. Moves(r, "done", req[r].reply) /\ req'[r].job = "none"
  BY <1>0, GotoMoves DEF Unlock
<1> QED
  BY <1>0, <1>1 DEF Unlock, Unlocks, disk, SameLogs, SameNumbers

LEMMA StartFrameMoves == ASSUME IInv, NEW r \in Req, StartFrame(r) PROVE BeginsFrame(r)
<1>0. TypeInv /\ req[r].job = "queued" /\ FrameJob(r) /\ Live /\ req[r].tailSeat = tail.served
  BY DEF IInv, StartFrame, JobTurn
<1>1. Works(r, "queued", "writing")
  BY <1>0, JobWorks DEF StartFrame
<1>2. IF clock.first = Unset
      THEN clock'.first = req[r].receipt /\ clock'.frame = 0
      ELSE clock'.first = clock.first /\ clock'.frame = Larger(req[r].receipt - clock.first,
                                                               clock.frame + 1)
  BY <1>0, MemoryType DEF StartFrame, ClockType
<1>3. clock'.observed = clock.observed
  BY <1>0, MemoryType DEF StartFrame, ClockType
<1> QED
  BY <1>0, <1>1, <1>2, <1>3 DEF StartFrame, BeginsFrame

LEMMA StartObservedMoves == ASSUME IInv, NEW r \in Req, StartObserved(r) PROVE BeginsEvent(r)
<1>0. TypeInv /\ req[r].job = "queued" /\ ~FrameJob(r) /\ Live /\ req[r].tailSeat = tail.served
  BY DEF IInv, StartObserved, JobTurn
<1>1. Works(r, "queued", "appending")
  BY <1>0, JobWorks DEF StartObserved
<1>2. /\ clock'.observed = Larger(Larger(0, req[r].event.receipt - clock.first),
                                  clock.observed + 1)
      /\ clock'.first = clock.first /\ clock'.frame = clock.frame
      /\ gate'.seq = gate.seq + 1
  BY <1>0, MemoryType DEF StartObserved, ClockType, GateType
<1> QED
  BY <1>0, <1>1, <1>2 DEF StartObserved, BeginsEvent

LEMMA WriteImageMoves == ASSUME IInv, NEW r \in Req, WriteImage(r) PROVE Images(r)
<1>0. TypeInv /\ req[r].job = "writing"
  BY DEF IInv, WriteImage
<1>1. Works(r, "writing", "imaged")
  BY <1>0, JobWorks DEF WriteImage
<1> QED
  BY <1>1 DEF WriteImage, Images

LEMMA AppendObservedMoves == ASSUME IInv, NEW r \in Req, AppendObserved(r) PROVE LogsEvent(r)
<1>0. TypeInv /\ req[r].job = "appending"
  BY DEF IInv, AppendObserved
<1>1. Works(r, "appending", "none")
  BY <1>0, JobWorks DEF AppendObserved
<1> QED
  BY <1>1 DEF AppendObserved, LogsEvent, SameNumbers

\* Only a frame is settled by SettleFrame.
LEMMA SettleFrameMoves ==
  ASSUME TypeInv, NEW r \in Req, NEW bytes, NEW code, SettleFrame(r, bytes, code),
         req[r].pc = "persisting"
  PROVE  SettlesFrame(r, bytes, code) /\ load'.frames = load.frames
<1>1. Moves(r, "done", code) /\ req'[r].job = "none"
  BY GotoMoves DEF SettleFrame
<1>2. req[r].kind = "frame" /\ load'.frames = load.frames
  BY MemoryType DEF TypeInv, WellPlaced, SettleFrame, LoadType
<1> QED
  BY <1>1, <1>2 DEF SettleFrame, SettlesFrame

LEMMA AppendFrameMoves ==
  ASSUME IInv, NEW r \in Req, AppendFrame(r) PROVE LogsFirst(r) \/ LogsNext(r)
<1>0. TypeInv /\ req[r].job = "imaged" /\ req[r].pc = "persisting"
  BY DEF IInv, AppendFrame, TypeInv, WellPlaced
<1>1. CASE phase = "claimed"
  <2>1. Works(r, "imaged", "starting")
    BY <1>0, <1>1, JobWorks DEF AppendFrame
  <2>2. load'.frames = load.frames
    BY <1>0, <1>1, MemoryType DEF AppendFrame, LoadType
  <2> QED
    BY <1>1, <2>1, <2>2 DEF AppendFrame, LogsFirst, LogsLine, SameNumbers
<1>2. CASE phase # "claimed"
  <2>1. SettlesFrame(r, req[r].size, 200) /\ load'.frames = load.frames
    BY <1>0, <1>2, SettleFrameMoves DEF AppendFrame
  <2> QED
    BY <1>0, <1>2, <2>1 DEF AppendFrame, LogsNext, LogsLine, SameNumbers
<1> QED
  BY <1>1, <1>2

LEMMA RunningSavedMoves == ASSUME IInv, NEW r \in Req, RunningSaved(r) PROVE SavesRunning(r)
<1>0. TypeInv /\ req[r].job = "starting" /\ req[r].pc = "persisting"
  BY DEF IInv, RunningSaved, TypeInv, WellPlaced
<1>1. SettlesFrame(r, 0, 200) /\ load'.frames = load.frames
  BY <1>0, SettleFrameMoves DEF RunningSaved
<1> QED
  BY <1>0, <1>1 DEF RunningSaved, SavesRunning, logs, SameLogs, SameNumbers

LEMMA RejectJobMoves ==
  ASSUME IInv, NEW r \in Req, RejectJob(r), req[r].job \notin {"none", "starting"},
         req[r].tailSeat = tail.served, phase = "failed", UNCHANGED <<clock, gate, phase, lock, summary, logs>>,
         stateFile' \in {stateFile, phase}
  PROVE  Hears(r)
<1>0. TypeInv
  BY DEF IInv
<1>1. CASE FrameJob(r)
  <2>1. SettlesFrame(r, 0, 500) /\ load'.frames = load.frames
    BY <1>0, <1>1, SettleFrameMoves DEF RejectJob, FrameJob
  <2>2. tally'.accepted = tally.accepted
    BY <1>0, <1>1, MemoryType DEF RejectJob, TallyType
  <2> QED
    BY <1>1, <2>1, <2>2 DEF Hears, SettlesFrame, logs, SameLogs, SameNumbers
<1>2. CASE ~FrameJob(r)
  <2>1. UNCHANGED <<tally, load>> /\ tail' = [tail EXCEPT !.served = @ + 1]
    BY <1>2 DEF RejectJob
  <2>2. req'[r].job = "none" /\ (IF req[r].kind = "stop" THEN Moves(r, "verdict", NoReply)
                                                         ELSE Moves(r, Done(r), 500))
    BY <1>0, <1>2, GotoMoves DEF RejectJob
  <2> QED
    BY <1>2, <2>1, <2>2 DEF Hears, logs, SameLogs, SameNumbers
<1> QED
  BY <1>1, <1>2

LEMMA ThrowJobMoves ==
  ASSUME IInv, NEW r \in Req, ThrowJob(r), req[r].tailSeat = tail.served,
         req[r].job \notin {"none", "starting", "failing"}
  PROVE  Breaks(r) \/ Hears(r)
<1>0. UNCHANGED <<now, clock, gate, pending, lock, server, disk>>
  BY DEF ThrowJob
<1>1. CASE phase # "failed"
  <2>1. Works(r, req[r].job, "failing")
    BY <1>1, JobWorks DEF IInv, ThrowJob
  <2> QED
    BY <1>0, <1>1, <2>1 DEF ThrowJob, Breaks, disk, SameLogs, SameNumbers
<1>2. CASE phase = "failed"
  BY <1>0, <1>2, RejectJobMoves DEF ThrowJob, disk, logs
<1> QED
  BY <1>1, <1>2

LEMMA RefuseJobMoves == ASSUME IInv, NEW r \in Req, RefuseJob(r) PROVE Breaks(r) \/ Hears(r)
BY ThrowJobMoves DEF RefuseJob, JobTurn

LEMMA DiskFaultMoves == ASSUME IInv, NEW r \in Req, DiskFault(r) PROVE Breaks(r) \/ Hears(r)
<1>1. req[r].job \in {"writing", "imaged", "appending"} /\ ThrowJob(r)
  BY DEF DiskFault
<1> QED
  BY <1>1, Begun, ThrowJobMoves

LEMMA FailureSavedMoves == ASSUME IInv, NEW r \in Req, FailureSaved(r) PROVE Hears(r)
<1>1. req[r].job = "failing" /\ RejectJob(r) /\ phase = "failed"
  BY DEF FailureSaved, IInv, FailingMeansFailed
<1> QED
  BY <1>1, Begun, RejectJobMoves DEF FailureSaved

LEMMA CheckStopMoves == ASSUME IInv, NEW r \in Req, CheckStop(r) PROVE Fails(r) \/ Goes(r)
<1>0. TypeInv /\ req[r].job = "none" /\ req[r].kind = "stop" /\ req[r].pc = "stopping"
  BY DEF IInv, CheckStop, At, TypeInv, WellPlaced
<1>1. SameLogs /\ UNCHANGED <<tally, load, lock, tail, stateFile, summary>>
  BY Rests DEF CheckStop, memory, disk, logs
<1>2. ASSUME NEW pc \in {"done", "drain", "flushScroll"}, NEW code, Moves(r, pc, code),
             code = req[r].reply \/ pc = "done" \/ ~Live, pc = "drain" => code # NoReply,
             req'[r].job = "none", UNCHANGED phase
      PROVE  Goes(r)
  <2>1. Onward("stop", "stopping", pc)
    BY DEF Onward
  <2> QED
    BY <1>0, <1>1, <1>2, <2>1 DEF Goes, Moves
<1>3. CASE Live /\ SetPhase(r, "failed", 429, "drain")
  <2>1. Switches(r, "failed", 429, "drain") /\ AfterFailure(r, 429, "drain")
    BY <1>0, <1>3, SetPhaseSwitches DEF AfterFailure
  <2> QED
    BY <1>1, <2>1 DEF Fails, Switches
<1>4. CASE /\ ~Live
           /\ req' = [req EXCEPT ![r] = [@ EXCEPT !.pc = "drain", !.reply = 429]]
           /\ UNCHANGED phase
  <2>1. TypeInv /\ req' = [req EXCEPT ![r] = [@ EXCEPT !.pc = "drain", !.reply = 429]]
    BY <1>0, <1>4
  <2>2. Moves(r, "drain", 429) /\ req'[r].job = req[r].job
    BY <2>1, StepMoves
  <2>3. 429 # NoReply
    BY DEF NoReply
  <2> QED
    BY <1>0, <1>2, <1>4, <2>2, <2>3
<1>5. CASE Answer(r, 400) /\ UNCHANGED phase
  BY <1>0, <1>2, <1>5, AnswerMoves DEF Done
<1>6. CASE req' = [req EXCEPT ![r] = [@ EXCEPT !.pc = "flushScroll"]] /\ UNCHANGED phase
  BY <1>0, <1>2, <1>6, StepMoves
<1> QED
  BY <1>3, <1>4, <1>5, <1>6 DEF CheckStop, FailCapture

LEMMA DrainMoves ==
  ASSUME IInv, NEW r \in Req, Drain(r), req[r].kind \in {"frame", "stop", "close"}
  PROVE  Goes(r)
<1> DEFINE h == [req[r] EXCEPT !.pc = "draining", !.tailSeat = tail.next]
<1>0. TypeInv /\ req[r] \in HandlerType /\ req[r].job = "none" /\ req[r].pc = "drain"
  BY Handlers DEF IInv, Drain, At
<1>1. /\ h.pc = "draining" /\ h.kind = req[r].kind /\ h.reply = req[r].reply
      /\ h.job = "none" /\ h.draft = req[r].draft /\ h.save = req[r].save
      /\ h.receipt = req[r].receipt /\ h.size = req[r].size
      /\ h.lockSeat = req[r].lockSeat /\ h.next = req[r].next
  BY <1>0 DEF HandlerType
<1>2. req' = [req EXCEPT ![r] = h]
  BY DEF Drain
<1> HIDE DEF h
<1>3. req'[r] = h /\ Others(r)
  BY <1>0, <1>2, Replaced
<1>4. Onward(req[r].kind, "drain", "draining")
  BY DEF Onward
<1>5. SameLogs /\ UNCHANGED <<phase, tally, load, lock, tail, stateFile, summary>>
  BY Rests DEF Drain, memory, disk, logs
<1> QED
  BY <1>0, <1>1, <1>3, <1>4, <1>5 DEF Goes, Moves, Carries

LEMMA EventsLostMoves == ASSUME IInv, NEW r \in Req, EventsLost(r) PROVE Fails(r)
<1>0. TypeInv /\ req[r].job = "none" /\ req[r].kind = "stop" /\ AtVerdict(r)
  BY DEF IInv, EventsLost, AtVerdict
<1>1. Switches(r, "failed", NoReply, "verdict") /\ AfterFailure(r, NoReply, "verdict")
  BY <1>0, SetPhaseSwitches DEF EventsLost, AfterFailure
<1>2. SameLogs /\ UNCHANGED <<tally, load, lock, tail, stateFile, summary>>
  BY Rests DEF EventsLost, memory, disk, logs
<1> QED
  BY <1>1, <1>2 DEF Fails, Switches

LEMMA VerdictMoves == ASSUME IInv, NEW r \in Req, Verdict(r) PROVE Fails(r) \/ Stops(r) \/ Goes(r)
<1>0. /\ TypeInv /\ req[r].job = "none" /\ req[r].kind = "stop" /\ AtVerdict(r)
      /\ req[r].pc \in {"draining", "verdict"}
  BY DEF IInv, Verdict, AtVerdict, Settled
<1>1. SameLogs /\ UNCHANGED <<load, lock, tail, stateFile, summary>>
  BY DEF Verdict, disk, SameLogs, SameNumbers
<1>2. tally'.accepted = tally.accepted
  BY <1>0, MemoryType DEF Verdict, TallyType
<1>3. CASE phase = "running" /\ SetPhase(r, "stopped", 200, "summarize")
  <2>1. Switches(r, "stopped", 200, "summarize")
    BY <1>0, <1>3, SetPhaseSwitches
  <2> QED
    BY <1>0, <1>1, <1>2, <1>3, <2>1 DEF Stops
<1>4. CASE Live /\ SetPhase(r, "failed", 200, "summarize")
  <2>1. Switches(r, "failed", 200, "summarize") /\ AfterFailure(r, 200, "summarize")
    BY <1>0, <1>4, SetPhaseSwitches DEF AfterFailure
  <2> QED
    BY <1>1, <1>2, <2>1 DEF Fails, Switches
<1>5. CASE /\ ~Live /\ UNCHANGED phase
           /\ req' = [req EXCEPT ![r] = [@ EXCEPT !.pc = "summarize", !.reply = 200]]
  <2>1. Moves(r, "summarize", 200) /\ req'[r].job = "none"
    BY <1>0, <1>5, StepMoves
  <2>2. Onward("stop", req[r].pc, "summarize")
    BY <1>0 DEF Onward
  <2> QED
    BY <1>0, <1>1, <1>2, <1>5, <2>1, <2>2 DEF Goes, Moves
<1> QED
  BY <1>3, <1>4, <1>5 DEF Verdict, FailCapture, Complete

LEMMA SummarizeMoves == ASSUME IInv, NEW r \in Req, Summarize(r) PROVE Summarizes(r)
<1> DEFINE d == [status |-> IF phase = "stopped" THEN "stopped" ELSE "failed",
                 accepted |-> tally.accepted, acked |-> tally.acked,
                 rejected |-> tally.rejected]
           h == [req[r] EXCEPT !.pc = "publish", !.draft = d]
<1>0. TypeInv /\ req[r] \in HandlerType /\ req[r].job = "none" /\ AtSummary(r)
  BY Handlers DEF IInv, Summarize, AtSummary
<1>1. /\ h.pc = "publish" /\ h.kind = req[r].kind /\ h.reply = req[r].reply
      /\ h.job = "none" /\ h.draft = d /\ h.save = req[r].save
      /\ h.receipt = req[r].receipt /\ h.size = req[r].size /\ h.lockSeat = req[r].lockSeat
  BY <1>0 DEF HandlerType
<1>2. /\ d.status = IF phase = "stopped" THEN "stopped" ELSE "failed"
      /\ d.accepted = tally.accepted
  OBVIOUS
<1>3. req' = [req EXCEPT ![r] = h]
  BY DEF Summarize
<1> HIDE DEF h, d
<1>4. req'[r] = h /\ Others(r)
  BY <1>0, <1>3, Replaced
<1>5. SameLogs /\ UNCHANGED <<phase, tally, load, lock, tail, stateFile, summary>>
  BY Rests DEF Summarize, memory, disk, logs
<1> QED
  BY <1>0, <1>1, <1>2, <1>4, <1>5 DEF Summarizes

LEMMA PublishMoves == ASSUME IInv, NEW r \in Req, Publish(r) PROVE Publishes(r)
<1> DEFINE pc == IF req[r].kind = "close" THEN "closing" ELSE Done(r)
<1>0. TypeInv /\ req[r].job = "none" /\ req[r].pc = "publish"
  BY DEF IInv, Publish, At
<1>1. Moves(r, pc, req[r].reply) /\ req'[r].job = "none"
  BY <1>0, GotoMoves DEF Publish
<1>2. SameLogs /\ UNCHANGED <<phase, tally, load, lock, tail, stateFile>>
  BY DEF Publish, memory, logs, SameLogs, SameNumbers
<1> QED
  BY <1>0, <1>1, <1>2 DEF Publish, Publishes

LEMMA PhaseSavedMoves == ASSUME IInv, NEW r \in Req, PhaseSaved(r) PROVE Saves(r)
<1>0. TypeInv /\ req[r].job = "none" /\ req[r].pc = "saving"
  BY DEF IInv, PhaseSaved, At
<1>1. Moves(r, req[r].next, req[r].reply) /\ req'[r].job = "none"
  BY <1>0, GotoMoves DEF PhaseSaved
<1>2. SameLogs /\ UNCHANGED <<phase, tally, load, lock, tail, summary>>
  BY Rests DEF PhaseSaved, memory, logs
<1> QED
  BY <1>0, <1>1, <1>2 DEF PhaseSaved, Saves

LEMMA StopListeningMoves ==
  ASSUME IInv, NEW r \in Req, StopListening(r), req[r].kind = "close" PROVE Goes(r)
<1>0. TypeInv /\ req[r].job = "none" /\ req[r].pc = "closing"
  BY DEF IInv, StopListening, At
<1>1. Moves(r, "leaving", req[r].reply) /\ req'[r].job = "none"
  BY <1>0, StepMoves DEF StopListening
<1>2. Onward("close", "closing", "leaving")
  BY DEF Onward
<1>3. SameLogs /\ UNCHANGED <<phase, tally, load, lock, tail, stateFile, summary>>
  BY DEF StopListening, disk, SameLogs, SameNumbers
<1> QED
  BY <1>0, <1>1, <1>2, <1>3 DEF Goes, Moves

LEMMA ClosedMoves ==
  ASSUME IInv, NEW r \in Req, Closed(r), req[r].kind = "close" PROVE Goes(r)
<1>0. TypeInv /\ req[r].job = "none" /\ req[r].pc = "leaving"
  BY DEF IInv, Closed, At
<1>1. Moves(r, "done", req[r].reply) /\ req'[r].job = "none"
  BY <1>0, GotoMoves DEF Closed
<1>2. Onward("close", "leaving", "done")
  BY DEF Onward
<1>3. SameLogs /\ UNCHANGED <<phase, tally, load, lock, tail, stateFile, summary>>
  BY Rests DEF Closed, memory, disk, logs
<1> QED
  BY <1>0, <1>1, <1>2, <1>3 DEF Goes, Moves

\* A handler that drains, reports or closes is of a kind that may.
Placed(h) ==
  /\ h.pc \in {"drain", "draining", "summarize", "publish"} => h.kind \in {"frame", "stop", "close"}
  /\ h.pc \in {"closing", "leaving"} => h.kind = "close"
  /\ h.pc = "saving" /\ h.next \in {"drain", "summarize"} => h.kind \in {"frame", "stop", "close"}

\* Every step of a handler is one of the moves.
LEMMA StepMove ==
  ASSUME IInv, NEW r \in Req, Placed(req[r]), Environment(r) \/ Callback(r) \/ Continuation(r)
  PROVE  Move(r)
<1>0. /\ req[r].pc = "drain" => req[r].kind \in {"frame", "stop", "close"}
      /\ req[r].pc \in {"closing", "leaving"} => req[r].kind = "close"
  BY DEF Placed
<1>1. CASE Environment(r)
  BY <1>1, ArriveMoves, ArriveOnBadClockMoves, CloseMoves DEF Environment, Move
<1>2. CASE Callback(r)
  <2>1. CASE \/ Refuse(r) \/ Claim(r) \/ Fail(r) \/ Challenge(r) \/ ObservedEvent(r)
             \/ EnterFrame(r) \/ EnterStop(r)
    BY <2>1, RefuseMoves, ClaimMoves, FailMoves, ChallengeMoves, ObservedEventMoves,
       EnterFrameMoves, EnterStopMoves DEF Move
  <2>2. CASE StopListening(r) \/ Closed(r)
    BY <1>0, <2>2, StopListeningMoves, ClosedMoves DEF Move, StopListening, Closed, At
  <2>3. CASE PhaseSaved(r) \/ Publish(r) \/ WriteImage(r) \/ AppendFrame(r) \/ RunningSaved(r)
    BY <2>3, PhaseSavedMoves, PublishMoves, WriteImageMoves, AppendFrameMoves,
       RunningSavedMoves DEF Move
  <2>4. CASE AppendObserved(r) \/ DiskFault(r) \/ FailureSaved(r)
    BY <2>4, AppendObservedMoves, DiskFaultMoves, FailureSavedMoves DEF Move
  <2> QED
    BY <1>2, <2>1, <2>2, <2>3, <2>4 DEF Callback
<1>3. CASE Continuation(r)
  <2>1. CASE \/ FlushScroll(r) \/ FlushPointer(r) \/ Coalesce(r) \/ FlushOwn(r)
             \/ SetPending(r) \/ QueueClick(r) \/ AnswerClick(r)
    BY <2>1, FlushScrollMoves, FlushPointerMoves, CoalesceMoves, FlushOwnMoves,
       SetPendingMoves, QueueClickMoves, AnswerClickMoves DEF Move
  <2>2. CASE CheckFrame(r) \/ AdmitFrame(r) \/ Unlock(r) \/ CheckStop(r)
    BY <2>2, CheckFrameMoves, AdmitFrameMoves, UnlockMoves, CheckStopMoves DEF Move
  <2>3. CASE Drain(r)
    BY <1>0, <2>3, DrainMoves DEF Move, Drain, At
  <2>4. CASE EventsLost(r) \/ Verdict(r) \/ Summarize(r)
    BY <2>4, EventsLostMoves, VerdictMoves, SummarizeMoves DEF Move
  <2>5. CASE StartFrame(r) \/ StartObserved(r) \/ RefuseJob(r)
    BY <2>5, StartFrameMoves, StartObservedMoves, RefuseJobMoves DEF Move
  <2> QED
    BY <1>3, <2>1, <2>2, <2>3, <2>4, <2>5 DEF Continuation
<1> QED
  BY <1>1, <1>2, <1>3

-----------------------------------------------------------------------------
(* 3. Where handlers are.                                                    *)

\* A handler is where its kind may be, and one that has not arrived is untouched.
InPlace == \A r \in Req : Placed(req[r]) /\ (req[r].pc = "idle" => req[r] = Idle)

LEMMA IdleFields ==
  /\ Idle.pc = "idle" /\ Idle.job = "none" /\ Idle.reply = NoReply
  /\ Idle.draft = NoSummary /\ Idle.draft.status = "none"
  /\ Idle.kind = "none" /\ Idle.save = "ready" /\ Idle.next = "done"
BY DEF Idle, NoSummary

LEMMA KeepsInPlace ==
  ASSUME IInv, InPlace, NEW r \in Req, Move(r) PROVE InPlace' /\ Others(r)
<1>0. WellPlaced(req[r]) /\ Placed(req[r])
  BY DEF IInv, TypeInv, InPlace
<1>1. SUFFICES Others(r) /\ Placed(req'[r]) /\ req'[r].pc # "idle"
  BY DEF InPlace, Others
<1>2. CASE Arrives(r) \/ Stumbles(r) \/ Closes(r)
  BY <1>2 DEF Arrives, Stumbles, Closes, Placed, Stamped, Observed, Kinds
<1>3. CASE Claims(r) \/ Fails(r) \/ Stops(r)
  BY <1>0, <1>3 DEF Claims, Fails, Stops, Switches, AfterFailure, Placed
<1>4. CASE Saves(r)
  BY <1>0, <1>4 DEF Saves, Moves, Placed, WellPlaced
<1>5. CASE Goes(r)
  BY <1>0, <1>5 DEF Goes, Moves, Onward, Placed, WellPlaced
<1>6. CASE Joins(r) \/ Checks(r) \/ Summarizes(r) \/ Publishes(r) \/ Unlocks(r) \/ Admits(r)
  BY <1>0, <1>6 DEF Joins, Checks, Summarizes, AtSummary, Settled, Publishes, Unlocks, Admits,
                    Moves, Done, Placed
<1>7. CASE Queues(r)
  BY <1>0, <1>7 DEF Queues, Moves, Onward, Placed, WellPlaced
<1>8. ASSUME Moves(r, req[r].pc, req[r].reply), req[r].job # "none"
      PROVE  Others(r) /\ Placed(req'[r]) /\ req'[r].pc # "idle"
  BY <1>0, <1>8 DEF Moves, Placed, WellPlaced
<1>9. CASE \/ BeginsFrame(r) \/ BeginsEvent(r) \/ Images(r) \/ LogsEvent(r) \/ LogsFirst(r)
           \/ Breaks(r)
  BY <1>8, <1>9 DEF BeginsFrame, BeginsEvent, Images, LogsEvent, LogsFirst, Breaks, Works
<1>10. CASE LogsNext(r) \/ SavesRunning(r) \/ Hears(r)
  BY <1>0, <1>10 DEF LogsNext, SavesRunning, Hears, SettlesFrame, Moves, Done, Placed
<1> QED
  BY <1>2, <1>3, <1>4, <1>5, <1>6, <1>7, <1>9, <1>10 DEF Move

-----------------------------------------------------------------------------
(* 4. The state file.                                                        *)

\* Who moves: a request that arrives, one whose state file is written, or one
\* that is neither.
LEMMA Acts ==
  ASSUME IInv, NEW r \in Req, Move(r)
  PROVE  /\ req[r].pc # "done"
         /\ \/ req[r].pc = "idle" /\ (Arrives(r) \/ Stumbles(r) \/ Closes(r))
            \/ req[r].pc = "saving" /\ Saves(r) /\ req'[r].kind = req[r].kind
            \/ req[r].pc \notin {"idle", "saving"} /\ req'[r].kind = req[r].kind
<1>0. WellPlaced(req[r])
  BY DEF IInv, TypeInv
<1>1. CASE Arrives(r) \/ Stumbles(r) \/ Closes(r)
  BY <1>1 DEF Arrives, Stumbles, Closes
<1>2. CASE Claims(r) \/ Fails(r) \/ Stops(r)
  BY <1>2 DEF Claims, Fails, Stops, Switches, AfterFailure, AtVerdict, Settled
<1>3. CASE Saves(r)
  BY <1>3 DEF Saves, Moves
<1>4. CASE Goes(r) \/ Queues(r)
  BY <1>4 DEF Goes, Queues, Moves, Onward
<1>5. CASE Joins(r) \/ Checks(r) \/ Summarizes(r) \/ Publishes(r) \/ Unlocks(r) \/ Admits(r)
  BY <1>5 DEF Joins, Checks, Summarizes, AtSummary, Settled, Publishes, Unlocks, Admits, Moves
<1>6. CASE \/ BeginsFrame(r) \/ BeginsEvent(r) \/ Images(r) \/ LogsEvent(r) \/ LogsFirst(r)
           \/ Breaks(r)
  BY <1>0, <1>6 DEF BeginsFrame, BeginsEvent, Images, LogsEvent, LogsFirst, Breaks, Works,
                    Moves, WellPlaced
<1>7. CASE LogsNext(r) \/ SavesRunning(r) \/ Hears(r)
  BY <1>0, <1>7 DEF LogsNext, SavesRunning, Hears, SettlesFrame, Moves, WellPlaced
<1> QED
  BY <1>1, <1>2, <1>3, <1>4, <1>5, <1>6, <1>7 DEF Move

\* How the phase moves.
LEMMA PhaseSteps ==
  ASSUME IInv, NEW r \in Req, Move(r)
  PROVE  \/ phase' = phase /\ ~Claims(r) /\ ~Stops(r) /\ ~LogsFirst(r)
         \/ phase # "failed" /\ phase' = "failed"
         \/ phase = "ready" /\ phase' = "claimed" /\ Claims(r)
         \/ phase = "claimed" /\ phase' = "running" /\ LogsFirst(r)
         \/ phase = "running" /\ phase' = "stopped" /\ Stops(r)
<1>1. CASE Arrives(r) \/ Stumbles(r) \/ Closes(r) \/ Claims(r) \/ Fails(r) \/ Stops(r)
  BY <1>1 DEF Arrives, Stumbles, Closes, Claims, Fails, Stops, LogsFirst, Switches, Works, Live
<1>2. CASE \/ Saves(r) \/ Goes(r) \/ Joins(r) \/ Checks(r) \/ Admits(r) \/ Queues(r)
           \/ Unlocks(r) \/ Summarizes(r) \/ Publishes(r) \/ BeginsFrame(r) \/ BeginsEvent(r)
           \/ Images(r) \/ LogsEvent(r) \/ SavesRunning(r) \/ Hears(r) \/ LogsNext(r)
  BY <1>2 DEF Saves, Goes, Joins, Checks, Admits, Queues, Unlocks, Summarizes, Publishes,
              BeginsFrame, BeginsEvent, Images, LogsEvent, SavesRunning, Hears, LogsNext,
              Claims, Stops, LogsFirst, Switches
<1>3. CASE LogsFirst(r) \/ Breaks(r)
  BY <1>3 DEF LogsFirst, Breaks
<1> QED
  BY <1>1, <1>2, <1>3 DEF Move

Claimed(c) == req[c].kind = "claim" /\ req[c].reply = 200

\* One claim is ever granted.
OneClaim ==
  /\ \A c, d \in Req : Claimed(c) /\ Claimed(d) => c = d
  /\ phase = "ready" => \A c \in Req : ~Claimed(c)

\* A request beyond its arrival came with the capability.
Trusted(h) == /\ h.kind \notin {"none", "claim", "close"} /\ h.pc # "done"
              /\ ~(h.pc = "saving" /\ h.next = "done")

\* No capture runs before the claim has been answered.
TokenFirst ==
  /\ (\E r \in Req : Trusted(req[r])) => TokenIssued
  /\ phase \in {"running", "stopped"} => TokenIssued

\* Which phases a handler may be writing.
Savers ==
  \A r \in Req : req[r].pc = "saving" =>
    /\ req[r].save \in {"claimed", "stopped", "failed"}
    /\ req[r].save = "failed" => phase = "failed"
    /\ req[r].save = "stopped" => Over
    /\ req[r].save = "claimed" => Claimed(r) /\ req[r].next = "done"

\* The state file says the phase, or somebody is about to write it.
FileSays ==
  /\ \A r \in Req : req[r].job = "starting" => phase \in {"running", "failed"}
  /\ phase # "failed" =>
       \/ stateFile = phase
       \/ \E r \in Req : req[r].pc = "saving" /\ req[r].save = phase
       \/ phase = "running" /\ \E r \in Req : req[r].job = "starting"

StateInv == OneClaim /\ TokenFirst /\ Savers /\ FileSays

LEMMA ClaimsOnce ==
  ASSUME IInv, InPlace, NEW r \in Req, Move(r), ~Claims(r), Claimed(r)'
  PROVE  Claimed(r)
<1>1. req[r].pc = "idle" => req[r].reply = NoReply /\ NoReply # 200
  BY IdleFields DEF InPlace, NoReply
<1>2. CASE req[r].pc = "idle"
  BY <1>1, <1>2, Acts DEF Arrives, Stumbles, Closes, Claimed
<1>3. CASE req[r].pc # "idle"
  <2>1. req[r].kind = "claim"
    BY <1>3, Acts DEF Claimed
  <2>2. CASE Fails(r) \/ Stops(r) \/ Saves(r) \/ Goes(r) \/ Queues(r)
    BY <2>1, <2>2 DEF Fails, AfterFailure, Stops, Saves, Goes, Queues, Moves, Claimed
  <2>3. CASE \/ Joins(r) \/ Checks(r) \/ Summarizes(r) \/ Publishes(r) \/ Unlocks(r)
             \/ Admits(r)
    BY <2>1, <2>3 DEF Joins, Checks, Summarizes, Publishes, Unlocks, Admits, Moves, Claimed
  <2>4. CASE \/ BeginsFrame(r) \/ BeginsEvent(r) \/ Images(r) \/ LogsEvent(r) \/ LogsFirst(r)
             \/ Breaks(r)
    BY <2>1, <2>4 DEF BeginsFrame, BeginsEvent, Images, LogsEvent, LogsFirst, Breaks, Works,
                      Moves, Claimed
  <2>5. CASE LogsNext(r) \/ SavesRunning(r) \/ Hears(r)
    BY <2>1, <2>5 DEF LogsNext, SavesRunning, Hears, SettlesFrame, Moves, Claimed, NoReply
  <2> QED
    BY <1>3, <2>2, <2>3, <2>4, <2>5 DEF Move, Arrives, Stumbles, Closes
<1> QED
  BY <1>2, <1>3

LEMMA KeepsOneClaim ==
  ASSUME IInv, InPlace, OneClaim, NEW r \in Req, Move(r) PROVE OneClaim'
<1>0. Others(r)
  BY KeepsInPlace
<1>1. \A c \in Req \ {r} : Claimed(c)' => Claimed(c)
  BY <1>0 DEF Others, Claimed
<1>2. CASE Claims(r)
  BY <1>1, <1>2 DEF Claims, Switches, OneClaim
<1>3. CASE ~Claims(r)
  <2>1. \A c \in Req : Claimed(c)' => Claimed(c)
    BY <1>1, <1>3, ClaimsOnce
  <2>2. phase' = "ready" => phase = "ready"
    BY PhaseSteps
  <2> QED
    BY <2>1, <2>2 DEF OneClaim
<1> QED
  BY <1>2, <1>3

LEMMA KeepsTokenFirst ==
  ASSUME IInv, InPlace, TokenFirst, NEW r \in Req, Move(r) PROVE TokenFirst'
<1>0. Others(r)
  BY KeepsInPlace
<1>1. TokenIssued => TokenIssued'
  BY <1>0, Acts DEF TokenIssued, At, Others
<1>2. Trusted(req'[r]) => Trusted(req[r]) \/ TokenIssued
  BY Acts DEF Arrives, Stumbles, Closes, Saves, Moves, Trusted
<1>3. LogsFirst(r) => Trusted(req[r])
  <2>1. LogsFirst(r) => req[r].pc = "persisting" /\ req[r].kind = "frame"
    BY DEF LogsFirst, Works, IInv, TypeInv, WellPlaced
  <2> QED
    BY <2>1 DEF Trusted
<1> QED
  BY <1>0, <1>1, <1>2, <1>3, PhaseSteps DEF TokenFirst, Others

LEMMA KeepsSavers ==
  ASSUME IInv, InPlace, Savers, NEW r \in Req, Move(r) PROVE Savers'
<1>0. Others(r)
  BY KeepsInPlace
<1>1. (phase = "failed" => phase' = "failed") /\ (Over => Over')
  BY PhaseSteps DEF Over
<1>2. \A q \in Req \ {r} : Claimed(q) => Claimed(q)'
  BY <1>0 DEF Others, Claimed
<1>3. SUFFICES ASSUME req'[r].pc = "saving"
               PROVE  /\ req'[r].save \in {"claimed", "stopped", "failed"}
                      /\ req'[r].save = "failed" => phase' = "failed"
                      /\ req'[r].save = "stopped" => Over'
                      /\ req'[r].save = "claimed" => Claimed(r)' /\ req'[r].next = "done"
  BY <1>0, <1>1, <1>2 DEF Savers, Others
<1>4. CASE \/ Arrives(r) \/ Stumbles(r) \/ Closes(r) \/ Claims(r) \/ Fails(r) \/ Stops(r)
  BY <1>3, <1>4 DEF Arrives, Stumbles, Closes, Claims, Fails, Stops, Switches, Over, Claimed
<1>5. CASE Saves(r) \/ Goes(r) \/ Queues(r)
  BY <1>3, <1>5 DEF Saves, Goes, Queues, Onward, Moves, IInv, TypeInv, WellPlaced
<1>6. CASE Joins(r) \/ Checks(r) \/ Summarizes(r) \/ Publishes(r) \/ Unlocks(r) \/ Admits(r)
  BY <1>3, <1>6 DEF Joins, Checks, Summarizes, Publishes, Unlocks, Admits, Moves, Done
<1>7. CASE \/ BeginsFrame(r) \/ BeginsEvent(r) \/ Images(r) \/ LogsEvent(r) \/ LogsFirst(r)
           \/ Breaks(r)
  BY <1>3, <1>7 DEF BeginsFrame, BeginsEvent, Images, LogsEvent, LogsFirst, Breaks, Works,
                    Moves, IInv, TypeInv, WellPlaced
<1>8. CASE LogsNext(r) \/ SavesRunning(r) \/ Hears(r)
  BY <1>3, <1>8 DEF LogsNext, SavesRunning, Hears, SettlesFrame, Moves, Done
<1> QED
  BY <1>4, <1>5, <1>6, <1>7, <1>8 DEF Move

\* Only these moves write the state file.
LEMMA FileSteps ==
  ASSUME NEW r \in Req, Move(r)
  PROVE  stateFile' = stateFile \/ Saves(r) \/ SavesRunning(r) \/ Hears(r)
BY DEF Move, Arrives, Stumbles, Closes, Claims, Fails, Stops, Goes, Joins, Checks, Admits,
       Queues, Unlocks, Summarizes, Publishes, BeginsFrame, BeginsEvent, Images, LogsEvent,
       LogsFirst, LogsLine, LogsNext, Breaks, disk

\* The write of "running" is only ended by its own end.
LEMMA StartingStays ==
  ASSUME IInv, NEW r \in Req, Move(r)
  PROVE  /\ req[r].job = "starting" => req'[r].job = "starting" \/ SavesRunning(r)
         /\ req'[r].job = "starting" => req[r].job = "starting" \/ LogsFirst(r)
<1>1. CASE \/ Arrives(r) \/ Stumbles(r) \/ Closes(r) \/ Claims(r) \/ Fails(r) \/ Stops(r)
           \/ Saves(r) \/ Goes(r) \/ Joins(r) \/ Checks(r) \/ Admits(r) \/ Queues(r)
           \/ Unlocks(r) \/ Publishes(r) \/ Summarizes(r)
  BY <1>1 DEF Arrives, Stumbles, Closes, Claims, Fails, Stops, Switches, Saves, Goes, Joins,
              Checks, Admits, Queues, LinksJob, Unlocks, Publishes, Summarizes, AtSummary
<1>2. CASE \/ BeginsFrame(r) \/ BeginsEvent(r) \/ Images(r) \/ LogsEvent(r) \/ LogsFirst(r)
           \/ LogsNext(r) \/ SavesRunning(r) \/ Breaks(r) \/ Hears(r)
  BY <1>2 DEF BeginsFrame, BeginsEvent, Images, LogsEvent, LogsFirst, LogsNext, SavesRunning,
              SettlesFrame, Breaks, Hears, Works
<1> QED
  BY <1>1, <1>2 DEF Move

LEMMA KeepsFileSays ==
  ASSUME IInv, InPlace, StateInv, NEW r \in Req, Move(r) PROVE FileSays'
<1>0. Others(r) /\ FileSays /\ Savers /\ phase \in Phases
  BY KeepsInPlace DEF StateInv, IInv, TypeInv, TypeOK
<1>1. \A q \in Req : req'[q].job = "starting" => phase' \in {"running", "failed"}
  <2>1. Stops(r) => \A q \in Req : ~Writing(q)
    BY DEF Stops, AtVerdict, IInv, SettledMeansQuiet, FailingMeansFailed
  <2>2. ASSUME NEW q \in Req, req[q].job = "starting" PROVE phase' \in {"running", "failed"}
    <3>1. phase \in {"running", "failed"} /\ ~Stops(r)
      BY <1>0, <2>1, <2>2 DEF FileSays, Writing
    <3> QED
      BY <3>1, PhaseSteps
  <2>3. LogsFirst(r) => phase' = "running"
    BY DEF LogsFirst
  <2>4. \A q \in Req : req'[q].job = "starting" => req[q].job = "starting" \/ LogsFirst(r)
    BY <1>0, StartingStays DEF Others
  <2> QED
    BY <2>2, <2>3, <2>4
<1>2. ASSUME phase' # "failed"
      PROVE  \/ stateFile' = phase'
             \/ \E q \in Req : req'[q].pc = "saving" /\ req'[q].save = phase'
             \/ phase' = "running" /\ \E q \in Req : req'[q].job = "starting"
  <2>0. phase # "failed"
    BY <1>2, PhaseSteps
  <2>1. CASE Claims(r) \/ Stops(r) \/ LogsFirst(r)
    BY <2>1 DEF Claims, Stops, LogsFirst, Switches, Works
  <2>2. CASE Saves(r)
    <3>1. phase' = phase /\ stateFile' = req[r].save /\ req[r].pc = "saving"
      BY <2>2 DEF Saves
    <3>2. req[r].save = "stopped" => phase = "stopped"
      BY <1>0, <2>0, <3>1 DEF Savers, Over
    <3>3. req[r].save = "claimed" => phase = "claimed"
      BY <1>0, <2>0, <3>1 DEF Savers, StateInv, TokenFirst, TokenIssued, OneClaim, Claimed, At,
                              Phases
    <3> QED
      BY <1>0, <2>0, <3>1, <3>2, <3>3 DEF Savers
  <2>3. CASE SavesRunning(r)
    BY <1>0, <2>0, <2>3 DEF SavesRunning, FileSays
  <2>4. CASE Hears(r)
    BY <2>0, <2>4 DEF Hears
  <2>5. CASE ~Claims(r) /\ ~Stops(r) /\ ~LogsFirst(r) /\ ~Saves(r) /\ ~SavesRunning(r) /\ ~Hears(r)
    <3>1. stateFile' = stateFile /\ phase' = phase
      BY <1>2, <2>5, FileSteps, PhaseSteps
    <3>2. req[r].pc # "saving" /\ (req[r].job = "starting" => req'[r].job = "starting")
      BY <2>5, Acts, StartingStays
    <3> QED
      BY <1>0, <2>0, <3>1, <3>2 DEF FileSays, Others
  <2> QED
    BY <2>1, <2>2, <2>3, <2>4, <2>5
<1> QED
  BY <1>1, <1>2 DEF FileSays

LEMMA KeepsStateInv ==
  ASSUME IInv, InPlace, StateInv, NEW r \in Req, Move(r) PROVE StateInv'
<1>1. OneClaim /\ TokenFirst /\ Savers
  BY DEF StateInv
<1> QED
  BY <1>1, KeepsOneClaim, KeepsTokenFirst, KeepsSavers, KeepsFileSays DEF StateInv

-----------------------------------------------------------------------------
(* 5. The logs.                                                              *)

AtImage(r) == req[r].job \in {"writing", "imaged"}
Appending(r) == req[r].job = "appending"

\* The number and the offset a frame takes are those of the next line; they are
\* only lost by a capture that has failed.
FramesInOrder ==
  /\ \A i \in DOMAIN frameLog :
       frameLog[i].id = i /\ i \in images /\ frameLog[i].offset <= clock.frame
  /\ \A i, j \in DOMAIN frameLog : i < j => frameLog[i].offset < frameLog[j].offset
  /\ clock.first = Unset => frameLog = <<>>
  /\ \A r \in Req : AtImage(r) =>
       /\ load.frames = Len(frameLog) + 1 /\ clock.first # Unset
       /\ \A i \in DOMAIN frameLog : frameLog[i].offset < clock.frame
  /\ (~Over /\ \A r \in Req : ~AtImage(r)) => load.frames = Len(frameLog)

EventsInOrder ==
  /\ \A i \in DOMAIN observedLog :
       observedLog[i].seq = i /\ observedLog[i].offset <= clock.observed
  /\ \A i, j \in DOMAIN observedLog : i < j => observedLog[i].offset < observedLog[j].offset
  /\ \A r \in Req : Appending(r) =>
       /\ gate.seq = Len(observedLog) + 1
       /\ \A i \in DOMAIN observedLog : observedLog[i].offset < clock.observed
  /\ (~Over /\ \A r \in Req : ~Appending(r)) => gate.seq = Len(observedLog)

\* A frame on its way to its write has a receipt to take an offset from.
Bound(h) == h.kind = "frame" /\ h.pc \in {"body", "enter", "flushScroll", "flushPointer",
                                          "admit", "persisting"}
FramesReceived == \A r \in Req : Bound(req[r]) => req[r].receipt # Unset

\* A click is answered 200 by the handler that has awaited its line.
ClickLine(r) == \E i \in DOMAIN observedLog : observedLog[i].from = {r}
ClicksLogged ==
  \A r \in Req : req[r].kind = "click" =>
    /\ (req[r].pc = "accepted" /\ req[r].job # "none") => req[r].event.from = {r}
    /\ (At(r, "accepted") \/ req[r].reply = 200) => ClickLine(r)

LogsInv == FramesInOrder /\ EventsInOrder /\ FramesReceived /\ ClicksLogged

\* The other moves leave the logs alone and lose a number only with the capture.
Plain(r) ==
  /\ SameLogs
  /\ AtImage(r)' => AtImage(r)
  /\ Appending(r)' => Appending(r)
  /\ (AtImage(r) /\ ~AtImage(r)') => phase' = "failed"
  /\ (Appending(r) /\ ~Appending(r)') => phase' = "failed"

LEMMA LogSteps ==
  ASSUME IInv, NEW r \in Req, Move(r)
  PROVE  Plain(r) \/ BeginsFrame(r) \/ BeginsEvent(r) \/ Images(r) \/ LogsEvent(r)
           \/ LogsFirst(r) \/ LogsNext(r)
<1>1. CASE \/ Arrives(r) \/ Stumbles(r) \/ Closes(r) \/ Claims(r) \/ Fails(r) \/ Stops(r)
           \/ Saves(r) \/ Goes(r) \/ Joins(r) \/ Checks(r) \/ Admits(r) \/ Queues(r)
           \/ Unlocks(r) \/ Publishes(r) \/ Summarizes(r)
  BY <1>1 DEF Arrives, Stumbles, Closes, Claims, Fails, Stops, Switches, Saves, Goes, Joins,
              Checks, Admits, Queues, LinksJob, Unlocks, Publishes, Summarizes, AtSummary,
              Plain, AtImage, Appending
<1>2. CASE SavesRunning(r) \/ Breaks(r) \/ Hears(r)
  BY <1>2 DEF SavesRunning, SettlesFrame, Breaks, Hears, Works, Plain, AtImage, Appending
<1> QED
  BY <1>1, <1>2 DEF Move

\* One job is being done at a time.
LEMMA OnTurn ==
  ASSUME IInv, NEW r \in Req, req[r].job # "none", req[r].tailSeat = tail.served
  PROVE  \A q \in Req \ {r} : req[q].job \in {"none", "queued"}
BY Seats, OneTurn

\* What the state says of the numbers.
LEMMA Numbers ==
  ASSUME IInv
  PROVE  /\ load.frames \in Nat /\ gate.seq \in Nat
         /\ clock.first \in Int /\ clock.frame \in Int /\ clock.observed \in Int
         /\ Len(frameLog) \in Nat /\ Len(observedLog) \in Nat
         /\ DOMAIN frameLog = 1..Len(frameLog) /\ DOMAIN observedLog = 1..Len(observedLog)
         /\ \A i \in DOMAIN frameLog : frameLog[i].offset \in Int
         /\ \A i \in DOMAIN observedLog : observedLog[i].offset \in Int
<1>1. frameLog \in Seq(FrameLine) /\ observedLog \in Seq(ObservedLine)
  BY DEF IInv, TypeInv, TypeOK
<1>2. /\ \A i \in DOMAIN frameLog : frameLog[i] \in FrameLine
      /\ \A i \in DOMAIN observedLog : observedLog[i] \in ObservedLine
      /\ Len(frameLog) \in Nat /\ Len(observedLog) \in Nat
      /\ DOMAIN frameLog = 1..Len(frameLog) /\ DOMAIN observedLog = 1..Len(observedLog)
  BY <1>1
<1>3. Offsets \subseteq Int
  BY DEF Offsets, Unset
<1>4. clock \in ClockType /\ load \in LoadType /\ gate \in GateType
  BY MemoryType DEF IInv
<1> QED
  BY <1>2, <1>3, <1>4 DEF ClockType, LoadType, GateType, FrameLine, ObservedLine

LEMMA LineLogged ==
  ASSUME IInv, NEW r \in Req, LogsLine(r)
  PROVE  /\ DOMAIN frameLog' = 1..(Len(frameLog) + 1) /\ Len(frameLog') = Len(frameLog) + 1
         /\ \A i \in DOMAIN frameLog : frameLog'[i] = frameLog[i]
         /\ frameLog'[Len(frameLog) + 1].id = load.frames
         /\ frameLog'[Len(frameLog) + 1].offset = clock.frame
<1> DEFINE line == [id |-> load.frames, offset |-> clock.frame, from |-> r]
<1>1. line \in FrameLine /\ frameLog \in Seq(FrameLine)
  BY MemoryType DEF IInv, TypeInv, TypeOK, LoadType, ClockType, FrameLine
<1>2. frameLog' = Append(frameLog, line)
  BY DEF LogsLine
<1>3. line.id = load.frames /\ line.offset = clock.frame
  OBVIOUS
<1> HIDE DEF line
<1> QED
  BY <1>1, <1>2, <1>3

LEMMA EventLogged ==
  ASSUME IInv, NEW r \in Req, LogsEvent(r)
  PROVE  /\ DOMAIN observedLog' = 1..(Len(observedLog) + 1)
         /\ Len(observedLog') = Len(observedLog) + 1
         /\ \A i \in DOMAIN observedLog : observedLog'[i] = observedLog[i]
         /\ observedLog'[Len(observedLog) + 1].seq = gate.seq
         /\ observedLog'[Len(observedLog) + 1].offset = clock.observed
         /\ observedLog'[Len(observedLog) + 1].from = req[r].event.from
<1> DEFINE line == [seq |-> gate.seq, type |-> req[r].event.type, offset |-> clock.observed,
                    from |-> req[r].event.from]
<1>0. req[r].event \in EventType /\ gate.seq \in Nat /\ clock.observed \in Offsets
  BY Handlers, MemoryType DEF IInv, HandlerType, GateType, ClockType
<1>1. line \in ObservedLine /\ observedLog \in Seq(ObservedLine)
  BY <1>0 DEF IInv, TypeInv, TypeOK, EventType, ObservedLine
<1>2. observedLog' = Append(observedLog, line)
  BY DEF LogsEvent
<1>3. line.seq = gate.seq /\ line.offset = clock.observed /\ line.from = req[r].event.from
  OBVIOUS
<1> HIDE DEF line
<1> QED
  BY <1>1, <1>2, <1>3

LEMMA KeepsFramesInOrder ==
  ASSUME IInv, InPlace, FramesInOrder, FramesReceived, NEW r \in Req, Move(r)
  PROVE  FramesInOrder'
<1>0. Others(r) /\ (Over => Over')
  BY KeepsInPlace, PhaseSteps DEF Over
<1>1. \A q \in Req \ {r} : AtImage(q)' = AtImage(q)
  BY <1>0 DEF Others, AtImage
<1>2. ASSUME UNCHANGED <<images, frameLog>>, SameNumbers,
             AtImage(r)' => AtImage(r), (AtImage(r) /\ ~AtImage(r)') => phase' = "failed"
      PROVE  FramesInOrder'
  BY <1>0, <1>1, <1>2 DEF FramesInOrder, SameNumbers, Over
<1>3. CASE Plain(r)
  BY <1>2, <1>3 DEF Plain, SameLogs
<1>4. CASE BeginsEvent(r)
  <2>1. UNCHANGED <<images, frameLog>> /\ clock'.first = clock.first
        /\ clock'.frame = clock.frame /\ load' = load /\ Over' = Over
    BY <1>4 DEF BeginsEvent, disk, Over
  <2>2. ~AtImage(r) /\ ~AtImage(r)'
    BY <1>4 DEF BeginsEvent, Works, AtImage
  <2> QED
    BY <1>1, <2>1, <2>2 DEF FramesInOrder
<1>5. CASE LogsEvent(r)
  BY <1>2, <1>5 DEF LogsEvent, Works, AtImage
<1>6. CASE Images(r)
  <2>1. /\ images \subseteq images' /\ frameLog' = frameLog /\ UNCHANGED <<clock, load>>
        /\ Over' = Over
    BY <1>6 DEF Images, memory, Over
  <2>2. AtImage(r) /\ AtImage(r)'
    BY <1>6 DEF Images, Works, AtImage
  <2> QED
    BY <1>1, <2>1, <2>2 DEF FramesInOrder
<1>7. CASE BeginsFrame(r)
  <2>1. \A q \in Req : ~AtImage(q)
    BY <1>7, OnTurn DEF BeginsFrame, Works, AtImage
  <2>2. /\ load.frames = Len(frameLog) /\ UNCHANGED <<images, frameLog>>
        /\ ~Over'
    BY <1>7, <2>1 DEF BeginsFrame, FramesInOrder, Live, Over, disk
  <2>3. load'.frames = load.frames + 1
    BY <1>7, MemoryType DEF BeginsFrame, IInv, LoadType
  <2>4. req[r].receipt # Unset /\ req[r].receipt \in Int
    <3>1. req[r].kind = "frame" /\ req[r] \in HandlerType /\ req[r].pc = "persisting"
      BY <1>7, Handlers DEF BeginsFrame, FrameJob, IInv, TypeInv, WellPlaced
    <3> QED
      BY <3>1 DEF FramesReceived, Bound, HandlerType
  <2>5. /\ clock'.first # Unset
        /\ \A i \in DOMAIN frameLog : frameLog[i].offset < clock'.frame
    <3>1. CASE clock.first = Unset
      BY <1>7, <2>4, <3>1 DEF BeginsFrame, FramesInOrder
    <3>2. CASE clock.first # Unset
      <4>1. /\ clock'.first = clock.first
            /\ clock'.frame = Larger(req[r].receipt - clock.first, clock.frame + 1)
        BY <1>7, <3>2 DEF BeginsFrame
      <4>2. clock'.frame >= clock.frame + 1 /\ clock'.frame \in Int
        BY <2>4, <4>1, Numbers DEF Larger
      <4> QED
        BY <3>2, <4>1, <4>2, Numbers DEF FramesInOrder
    <3> QED
      BY <3>1, <3>2
  <2>6. AtImage(r)' /\ clock'.frame \in Int
    <3>1. AtImage(r)'
      BY <1>7 DEF BeginsFrame, Works, AtImage
    <3>2. CASE clock.first = Unset
      BY <1>7, <3>1, <3>2 DEF BeginsFrame
    <3>3. CASE clock.first # Unset
      BY <1>7, <2>4, <3>1, <3>3, Numbers DEF BeginsFrame, Larger
    <3> QED
      BY <3>2, <3>3
  <2>7. /\ \A i \in DOMAIN frameLog :
             frameLog[i].id = i /\ i \in images /\ frameLog[i].offset <= clock'.frame
        /\ \A i, j \in DOMAIN frameLog : i < j => frameLog[i].offset < frameLog[j].offset
    BY <2>5, <2>6, Numbers DEF FramesInOrder
  <2> QED
    BY <2>2, <2>3, <2>5, <2>6, <2>7 DEF FramesInOrder
<1>8. CASE LogsFirst(r) \/ LogsNext(r)
  <2>1. LogsLine(r) /\ req[r].job = "imaged" /\ ~AtImage(r)'
    BY <1>8 DEF LogsFirst, LogsNext, Works, SettlesFrame, AtImage
  <2>2. \A q \in Req : ~AtImage(q)'
    BY <1>1, <2>1, OnTurn, Begun DEF AtImage
  <2>3. /\ load.frames = Len(frameLog) + 1 /\ clock.first # Unset /\ load.frames \in images
        /\ \A i \in DOMAIN frameLog : frameLog[i].offset < clock.frame
    BY <2>1 DEF FramesInOrder, AtImage, IInv, AcksLogged
  <2>4. /\ clock'.first = clock.first /\ clock'.frame = clock.frame /\ load'.frames = load.frames
        /\ images' = images
    BY <2>1 DEF LogsLine, SameNumbers
  <2>5. \A i \in DOMAIN frameLog' :
          frameLog'[i].id = i /\ i \in images' /\ frameLog'[i].offset <= clock'.frame
    <3> SUFFICES ASSUME NEW i \in 1..(Len(frameLog) + 1)
                 PROVE  /\ frameLog'[i].id = i /\ i \in images
                        /\ frameLog'[i].offset <= clock.frame
      BY <2>1, <2>4, LineLogged
    <3>1. CASE i \in DOMAIN frameLog
      BY <2>1, <3>1, LineLogged DEF FramesInOrder
    <3>2. CASE i = Len(frameLog) + 1
      BY <2>1, <2>3, <3>2, LineLogged, Numbers
    <3> QED
      BY <3>1, <3>2, Numbers
  <2>6. \A i, j \in DOMAIN frameLog' : i < j => frameLog'[i].offset < frameLog'[j].offset
    <3> SUFFICES ASSUME NEW i \in 1..(Len(frameLog) + 1), NEW j \in 1..(Len(frameLog) + 1),
                        i < j
                 PROVE  frameLog'[i].offset < frameLog'[j].offset
      BY <2>1, LineLogged
    <3>1. i \in DOMAIN frameLog /\ frameLog'[i] = frameLog[i]
      BY <2>1, LineLogged, Numbers
    <3>2. CASE j \in DOMAIN frameLog
      BY <2>1, <3>1, <3>2, LineLogged DEF FramesInOrder
    <3>3. CASE j = Len(frameLog) + 1
      BY <2>1, <2>3, <3>1, <3>3, LineLogged
    <3>4. DOMAIN frameLog = 1..Len(frameLog) /\ Len(frameLog) \in Nat
      BY Numbers
    <3> QED
      BY <3>2, <3>3, <3>4
  <2> QED
    BY <2>1, <2>2, <2>3, <2>4, <2>5, <2>6, LineLogged DEF FramesInOrder
<1> QED
  BY <1>3, <1>4, <1>5, <1>6, <1>7, <1>8, LogSteps

LEMMA KeepsEventsInOrder ==
  ASSUME IInv, InPlace, EventsInOrder, NEW r \in Req, Move(r)
  PROVE  EventsInOrder'
<1>0. Others(r) /\ (Over => Over')
  BY KeepsInPlace, PhaseSteps DEF Over
<1>1. \A q \in Req \ {r} : Appending(q)' = Appending(q)
  BY <1>0 DEF Others, Appending
<1>2. ASSUME observedLog' = observedLog, gate'.seq = gate.seq, clock'.observed = clock.observed,
             Appending(r)' => Appending(r), (Appending(r) /\ ~Appending(r)') => phase' = "failed"
      PROVE  EventsInOrder'
  BY <1>0, <1>1, <1>2 DEF EventsInOrder, Over
<1>3. CASE Plain(r)
  BY <1>2, <1>3 DEF Plain, SameLogs, SameNumbers
<1>4. CASE BeginsFrame(r) \/ Images(r)
  <2>1. observedLog' = observedLog /\ UNCHANGED gate /\ clock'.observed = clock.observed
    BY <1>4 DEF BeginsFrame, Images, disk, memory
  <2>2. ~Appending(r) /\ ~Appending(r)'
    BY <1>4 DEF BeginsFrame, Images, Works, Appending
  <2> QED
    BY <1>2, <2>1, <2>2
<1>5. CASE LogsFirst(r) \/ LogsNext(r)
  <2>1. ~Appending(r) /\ ~Appending(r)'
    BY <1>5 DEF LogsFirst, LogsNext, Works, SettlesFrame, Appending
  <2> QED
    BY <1>2, <1>5, <2>1 DEF LogsFirst, LogsNext, LogsLine, SameNumbers
<1>6. CASE BeginsEvent(r)
  <2>1. \A q \in Req : ~Appending(q)
    BY <1>6, OnTurn DEF BeginsEvent, Works, Appending
  <2>2. gate.seq = Len(observedLog) /\ UNCHANGED observedLog
    BY <1>6, <2>1 DEF BeginsEvent, EventsInOrder, Live, Over, disk
  <2>3. req[r].event.receipt \in Int
    BY Handlers DEF IInv, HandlerType, EventType
  <2>4. clock'.observed >= clock.observed + 1 /\ clock'.observed \in Int
    BY <1>6, <2>3, Numbers DEF BeginsEvent, Larger
  <2>5. gate'.seq = gate.seq + 1 /\ Appending(r)'
    BY <1>6 DEF BeginsEvent, Works, Appending
  <2>6. \A i \in DOMAIN observedLog : observedLog[i].offset < clock'.observed
    BY <2>4, Numbers DEF EventsInOrder
  <2>7. gate'.seq = Len(observedLog) + 1
    BY <2>2, <2>5
  <2>8. \A i \in DOMAIN observedLog :
          observedLog[i].seq = i /\ observedLog[i].offset <= clock'.observed
    BY <2>4, <2>6, Numbers DEF EventsInOrder
  <2> QED
    BY <2>2, <2>5, <2>6, <2>7, <2>8 DEF EventsInOrder
<1>7. CASE LogsEvent(r)
  <2>1. req[r].job = "appending" /\ ~Appending(r)'
    BY <1>7 DEF LogsEvent, Works, Appending
  <2>2. \A q \in Req : ~Appending(q)'
    BY <1>1, <2>1, OnTurn, Begun DEF Appending
  <2>3. /\ gate.seq = Len(observedLog) + 1
        /\ \A i \in DOMAIN observedLog : observedLog[i].offset < clock.observed
    BY <2>1 DEF EventsInOrder, Appending
  <2>4. gate'.seq = gate.seq /\ clock'.observed = clock.observed
    BY <1>7 DEF LogsEvent, SameNumbers
  <2>5. \A i \in DOMAIN observedLog' :
          observedLog'[i].seq = i /\ observedLog'[i].offset <= clock'.observed
    <3> SUFFICES ASSUME NEW i \in 1..(Len(observedLog) + 1)
                 PROVE  observedLog'[i].seq = i /\ observedLog'[i].offset <= clock.observed
      BY <1>7, <2>4, EventLogged
    <3>1. CASE i \in DOMAIN observedLog
      BY <1>7, <3>1, EventLogged DEF EventsInOrder
    <3>2. CASE i = Len(observedLog) + 1
      BY <1>7, <2>3, <3>2, EventLogged, Numbers
    <3> QED
      BY <3>1, <3>2, Numbers
  <2>6. \A i, j \in DOMAIN observedLog' : i < j => observedLog'[i].offset < observedLog'[j].offset
    <3> SUFFICES ASSUME NEW i \in 1..(Len(observedLog) + 1),
                        NEW j \in 1..(Len(observedLog) + 1), i < j
                 PROVE  observedLog'[i].offset < observedLog'[j].offset
      BY <1>7, EventLogged
    <3>1. i \in DOMAIN observedLog /\ observedLog'[i] = observedLog[i]
      BY <1>7, EventLogged, Numbers
    <3>2. CASE j \in DOMAIN observedLog
      BY <1>7, <3>1, <3>2, EventLogged DEF EventsInOrder
    <3>3. CASE j = Len(observedLog) + 1
      BY <1>7, <2>3, <3>1, <3>3, EventLogged
    <3>4. DOMAIN observedLog = 1..Len(observedLog) /\ Len(observedLog) \in Nat
      BY Numbers
    <3> QED
      BY <3>2, <3>3, <3>4
  <2> QED
    BY <1>7, <2>2, <2>3, <2>4, <2>5, <2>6, EventLogged DEF EventsInOrder
<1> QED
  BY <1>3, <1>4, <1>5, <1>6, <1>7, LogSteps

LEMMA KeepsFramesReceived ==
  ASSUME IInv, InPlace, FramesReceived, NEW r \in Req, Move(r)
  PROVE  FramesReceived'
<1>0. Others(r) /\ now # Unset
  <2>1. now \in Nat /\ Unset = -1
    BY DEF IInv, TypeInv, TypeOK, Unset
  <2> QED
    BY <2>1, KeepsInPlace
<1>1. SUFFICES ASSUME Bound(req'[r]) PROVE req'[r].receipt # Unset
  BY <1>0 DEF FramesReceived, Others
<1>2. ASSUME Bound(req[r]), req'[r].receipt = req[r].receipt PROVE req'[r].receipt # Unset
  BY <1>2 DEF FramesReceived
<1>3. CASE Arrives(r) \/ Stumbles(r) \/ Closes(r)
  BY <1>0, <1>1, <1>3 DEF Arrives, Stumbles, Closes, Bound
<1>4. CASE \/ Claims(r) \/ Fails(r) \/ Stops(r) \/ Summarizes(r) \/ Publishes(r) \/ Unlocks(r)
           \/ LogsNext(r) \/ SavesRunning(r) \/ Hears(r) \/ Saves(r)
  BY <1>1, <1>4 DEF Claims, Fails, Stops, Switches, Summarizes, Publishes, Unlocks, LogsNext,
                    SavesRunning, SettlesFrame, Hears, Moves, Saves, Done, Bound,
                    IInv, TypeInv, WellPlaced
<1>5. CASE Goes(r) \/ Queues(r)
  BY <1>1, <1>2, <1>5 DEF Goes, Queues, Onward, Moves, Carries, Bound
<1>6. CASE Joins(r) \/ Checks(r) \/ Admits(r)
  BY <1>1, <1>2, <1>6 DEF Joins, Checks, Admits, Moves, Carries, Bound
<1>7. CASE \/ BeginsFrame(r) \/ BeginsEvent(r) \/ Images(r) \/ LogsEvent(r) \/ LogsFirst(r)
           \/ Breaks(r)
  BY <1>1, <1>2, <1>7 DEF BeginsFrame, BeginsEvent, Images, LogsEvent, LogsFirst, Breaks, Works,
                          Moves, Carries, Bound
<1> QED
  BY <1>3, <1>4, <1>5, <1>6, <1>7 DEF Move

LEMMA KeepsClicksLogged ==
  ASSUME IInv, InPlace, ClicksLogged, NEW r \in Req, Move(r)
  PROVE  ClicksLogged'
<1>0. Others(r) /\ (req[r].pc = "idle" => req[r].reply = NoReply) /\ NoReply # 200
  BY KeepsInPlace, IdleFields DEF InPlace, NoReply
<1>1. \A q \in Req : ClickLine(q) => ClickLine(q)'
  <2>1. CASE LogsEvent(r)
    BY <2>1, EventLogged, Numbers DEF ClickLine
  <2>2. CASE ~LogsEvent(r)
    <3>1. observedLog' = observedLog
      BY <2>2, LogSteps DEF Plain, SameLogs, BeginsFrame, BeginsEvent, Images, LogsFirst,
                            LogsNext, LogsLine, disk
    <3> QED
      BY <3>1 DEF ClickLine
  <2> QED
    BY <2>1, <2>2
<1>2. SUFFICES ASSUME req'[r].kind = "click"
               PROVE  /\ (req'[r].pc = "accepted" /\ req'[r].job # "none")
                           => req'[r].event.from = {r}
                      /\ (\/ req'[r].pc = "accepted" /\ req'[r].job = "none"
                          \/ req'[r].reply = 200) => ClickLine(r)'
  BY <1>0, <1>1 DEF ClicksLogged, Others, At
<1>3. req[r].kind = "click" =>
        /\ (req[r].pc = "accepted" /\ req[r].job # "none") => req[r].event.from = {r}
        /\ (\/ req[r].pc = "accepted" /\ req[r].job = "none"
            \/ req[r].reply = 200) => ClickLine(r)'
  BY <1>1 DEF ClicksLogged, At
<1>4. CASE Arrives(r) \/ Stumbles(r) \/ Closes(r)
  BY <1>0, <1>2, <1>4 DEF Arrives, Stumbles, Closes
<1>5. CASE \/ Claims(r) \/ Fails(r) \/ Stops(r) \/ Saves(r)
  BY <1>2, <1>3, <1>5 DEF Claims, Fails, AfterFailure, Stops, Switches, Saves, Moves, IInv,
                          TypeInv, WellPlaced
<1>6. CASE Goes(r) \/ Queues(r)
  BY <1>2, <1>3, <1>6 DEF Goes, Queues, LinksJob, Onward, Moves
<1>7. CASE Joins(r) \/ Checks(r) \/ Admits(r) \/ Summarizes(r) \/ Publishes(r) \/ Unlocks(r)
  BY <1>2, <1>3, <1>7 DEF Joins, Checks, Admits, Summarizes, Publishes, Done, Unlocks, Moves
<1>8. CASE \/ BeginsFrame(r) \/ BeginsEvent(r) \/ Images(r) \/ LogsFirst(r) \/ Breaks(r)
  BY <1>2, <1>3, <1>8 DEF BeginsFrame, BeginsEvent, Images, LogsFirst, Breaks, Works, Moves
<1>9. CASE LogsEvent(r)
  <2>1. req[r].event.from = {r} => ClickLine(r)'
    BY <1>9, EventLogged, Numbers DEF ClickLine
  <2> QED
    BY <1>2, <1>3, <1>9, <2>1 DEF LogsEvent, Works, Moves
<1>10. CASE LogsNext(r) \/ SavesRunning(r) \/ Hears(r)
  BY <1>2, <1>3, <1>10 DEF LogsNext, SavesRunning, SettlesFrame, Hears, Moves, Done, NoReply,
                           IInv, TypeInv, WellPlaced
<1> QED
  BY <1>4, <1>5, <1>6, <1>7, <1>8, <1>9, <1>10 DEF Move

LEMMA KeepsLogsInv ==
  ASSUME IInv, InPlace, LogsInv, NEW r \in Req, Move(r) PROVE LogsInv'
<1>1. FramesInOrder /\ EventsInOrder /\ FramesReceived /\ ClicksLogged
  BY DEF LogsInv
<1> QED
  BY <1>1, KeepsFramesInOrder, KeepsEventsInOrder, KeepsFramesReceived, KeepsClicksLogged
     DEF LogsInv

-----------------------------------------------------------------------------
(* 6. The last word of close().                                              *)

AtRest == \A q \in Req : ~Writing(q)

\* A handler that reports, or is about to, and a /stop that knows its answer.
Reporting(h) ==
  \/ h.pc \in {"summarize", "publish"}
  \/ h.pc \in {"drain", "draining"} /\ h.kind # "stop"
  \/ h.kind = "stop" /\ h.reply # NoReply /\ h.pc # "done"

\* Nobody reports on a capture that goes on.
ReportsOver ==
  /\ \A r \in Req : (Reporting(req[r]) \/ req[r].draft.status # "none") => Over
  /\ summary.status # "none" => Over

\* A /stop beyond its verdict knows that nothing is being written.
Decided(h) ==
  h.kind = "stop" /\ \/ h.pc \in {"verdict", "summarize", "publish"}
                     \/ h.pc = "saving" /\ h.next \in {"verdict", "summarize"}
DecidedQuiet == \A r \in Req : Decided(req[r]) => Over /\ AtRest

Closing(r) == req[r].kind = "close" /\ req[r].save = "failed"

\* A frame that ends the capture reports on it too.
Settling(h) == \/ h.pc \in {"drain", "draining", "summarize", "publish"}
               \/ h.pc = "saving" /\ h.next \in {"drain", "summarize"}

\* A summary that counts every line there will ever be.
LastWord(s) ==
  s.status # "none" => s.status = "failed" /\ s.accepted = Len(frameLog) /\ AtRest

\* What close() of a live capture finds and leaves.
Concluding ==
  /\ phase = "failed" /\ LastWord(summary)
  /\ \A r \in Req : /\ req[r].kind = "frame" => ~Settling(req[r])
                    /\ LastWord(req[r].draft)
                    /\ req[r].pc = "publish" => req[r].draft.status # "none"

CloseInv ==
  /\ ReportsOver /\ DecidedQuiet
  /\ \A r \in Req : req[r].kind = "close" =>
       /\ req[r].job = "none" /\ req[r].pc # "summarize"
       /\ req[r].pc = "saving" => req[r].next = "drain"
  /\ (\E c \in Req : Closing(c)) => Concluding
  /\ \A c \in Req : Closing(c) =>
       /\ req[c].pc \in {"saving", "drain", "draining", "publish", "closing", "leaving", "done"}
       /\ req[c].pc \in {"closing", "leaving", "done"} => summary.status # "none"

\* Where the capability was needed, the capture has been claimed.
LEMMA TrustedClaimed ==
  ASSUME IInv, StateInv, NEW r \in Req, Trusted(req[r]), ~Live
  PROVE  Over
<1>1. phase # "ready" /\ phase \in Phases
  BY DEF StateInv, TokenFirst, OneClaim, TokenIssued, Claimed, At, IInv, TypeInv, TypeOK
<1> QED
  BY <1>1 DEF Over, Live, Phases

\* Once the capture is over and nothing is written, nothing will be.
LEMMA QuietStays ==
  ASSUME IInv, InPlace, NEW r \in Req, Move(r), Over, AtRest
  PROVE  Over' /\ AtRest' /\ frameLog' = frameLog
<1>0. Others(r) /\ Over' /\ ~Live /\ ~Writing(r)
  BY KeepsInPlace, PhaseSteps DEF Over, Live, AtRest
<1>1. Plain(r)
  BY <1>0, LogSteps DEF BeginsFrame, BeginsEvent, Images, LogsEvent, LogsFirst, LogsNext, Works,
                        Writing
<1>2. ~Writing(r)'
  <2>1. ~AtImage(r) /\ ~Appending(r) /\ req[r].job # "starting" /\ ~LogsFirst(r)
    BY <1>0 DEF Writing, AtImage, Appending, LogsFirst, Works
  <2> QED
    BY <1>1, <2>1, StartingStays DEF Plain, Writing, AtImage, Appending
<1> QED
  BY <1>0, <1>1, <1>2 DEF AtRest, Others, Writing, Plain, SameLogs

LEMMA VerdictQuiet ==
  ASSUME IInv, CloseInv, NEW r \in Req, AtVerdict(r) PROVE AtRest
<1>1. CASE Settled(r)
  BY <1>1 DEF IInv, SettledMeansQuiet, AtRest
<1>2. CASE req[r].pc = "verdict"
  BY <1>2 DEF AtVerdict, CloseInv, DecidedQuiet, Decided
<1> QED
  BY <1>1, <1>2 DEF AtVerdict

LEMMA KeepsReportsOver ==
  ASSUME IInv, InPlace, StateInv, CloseInv, NEW r \in Req, Move(r)
  PROVE  ReportsOver'
<1>0. Others(r) /\ (Over => Over') /\ WellPlaced(req[r])
  BY KeepsInPlace, PhaseSteps DEF Over, IInv, TypeInv
<1>1. /\ (Reporting(req[r]) \/ req[r].draft.status # "none") => Over'
      /\ summary.status # "none" => Over'
  BY <1>0 DEF CloseInv, ReportsOver
<1>2. SUFFICES /\ (Reporting(req'[r]) \/ req'[r].draft.status # "none") => Over'
               /\ summary'.status # "none" => Over'
  BY <1>0 DEF CloseInv, ReportsOver, Others
<1>3. req[r].pc = "idle" => req[r].reply = NoReply /\ req[r].draft.status = "none"
  BY IdleFields DEF InPlace
<1>4. CASE Arrives(r) \/ Stumbles(r) \/ Closes(r)
  BY <1>1, <1>3, <1>4 DEF Arrives, Stumbles, Closes, Reporting, Over
<1>5. CASE Claims(r) \/ Fails(r) \/ Stops(r)
  BY <1>1, <1>5 DEF Claims, Fails, Stops, Switches, Reporting, Over
<1>6. CASE Saves(r)
  <2>1. req[r].next \in {"drain", "summarize"} => Over
    BY <1>6 DEF Saves, StateInv, Savers, Over
  <2>2. req[r].next \notin {"publish", "draining"} /\ NoSummary.status = "none"
    BY <1>0, <1>6 DEF Saves, WellPlaced, NoSummary
  <2>3. Moves(r, req[r].next, req[r].reply) /\ req[r].pc = "saving" /\ summary' = summary
    BY <1>6 DEF Saves
  <2> QED
    BY <1>0, <1>1, <2>1, <2>2, <2>3 DEF Moves, Carries, Reporting
<1>7. CASE Goes(r)
  <2>1. ~Live => Over \/ ~Trusted(req[r])
    BY TrustedClaimed
  <2>2. req[r].kind = "stop" => Trusted(req[r])
    BY <1>7 DEF Goes, Onward, Trusted
  <2>3. NoSummary.status = "none"
    BY DEF NoSummary
  <2>4. req'[r].pc = "summarize" => req[r].kind = "stop" /\ ~Live
    BY <1>7 DEF Goes, AtVerdict
  <2> QED
    BY <1>0, <1>1, <1>7, <2>1, <2>2, <2>3, <2>4 DEF Goes, Moves, Carries, Onward, Reporting
<1>8. CASE Queues(r)
  BY <1>0, <1>1, <1>8 DEF Queues, Moves, Carries, Onward, Reporting, NoSummary
<1>9. CASE Summarizes(r)
  <2>1. Reporting(req[r])
    BY <1>9 DEF Summarizes, AtSummary, Settled, Reporting
  <2> QED
    BY <1>1, <1>9, <2>1 DEF Summarizes
<1>10. CASE Publishes(r)
  BY <1>0, <1>1, <1>10 DEF Publishes, Moves, Carries, Reporting, NoSummary
<1>11. CASE Joins(r) \/ Checks(r) \/ Unlocks(r) \/ Admits(r)
  BY <1>1, <1>11 DEF Joins, Checks, Unlocks, Admits, Moves, Carries, Reporting, NoSummary
<1>12. CASE \/ BeginsFrame(r) \/ BeginsEvent(r) \/ Images(r) \/ LogsEvent(r) \/ LogsFirst(r)
            \/ Breaks(r)
  BY <1>1, <1>12 DEF BeginsFrame, BeginsEvent, Images, LogsEvent, LogsFirst, LogsLine, Breaks,
                     Works, Moves, Carries, Reporting, disk
<1>13. CASE LogsNext(r) \/ SavesRunning(r) \/ Hears(r)
  BY <1>0, <1>1, <1>13 DEF LogsNext, LogsLine, SavesRunning, SettlesFrame, Hears, Moves, Carries,
                     Done, Reporting, NoSummary, WellPlaced
<1> QED
  BY <1>4, <1>5, <1>6, <1>7, <1>8, <1>9, <1>10, <1>11, <1>12, <1>13 DEF Move

LEMMA KeepsDecidedQuiet ==
  ASSUME IInv, InPlace, StateInv, CloseInv, NEW r \in Req, Move(r)
  PROVE  DecidedQuiet'
<1>0. Others(r) /\ (Over => Over') /\ WellPlaced(req[r])
  BY KeepsInPlace, PhaseSteps DEF Over, IInv, TypeInv
<1>1. \A q \in Req : Decided(req[q]) => Over' /\ AtRest'
  BY QuietStays DEF CloseInv, DecidedQuiet
<1>2. SUFFICES ASSUME Decided(req'[r]), ~Decided(req[r]) PROVE Over' /\ AtRest'
  BY <1>0, <1>1 DEF DecidedQuiet, Others
<1>3. (Over /\ AtRest) => (Over' /\ AtRest')
  BY QuietStays
<1>4. ASSUME AtRest, Others(r), req'[r].job = "none" PROVE AtRest'
  BY <1>4 DEF AtRest, Others, Writing
<1>5. CASE Fails(r) \/ Stops(r)
  <2>1. AtVerdict(r)
    BY <1>2, <1>5 DEF Fails, Stops, Switches, AfterFailure, Decided
  <2>2. Over' /\ req'[r].job = "none"
    BY <1>5 DEF Fails, Stops, Switches, Over
  <2> QED
    BY <1>0, <1>4, <2>1, <2>2, VerdictQuiet
<1>6. CASE Goes(r)
  <2>1. AtVerdict(r) /\ ~Live /\ req[r].kind = "stop"
    BY <1>2, <1>6 DEF Goes, Moves, Onward, Decided
  <2>2. Trusted(req[r])
    BY <2>1 DEF AtVerdict, Settled, Trusted
  <2> QED
    BY <1>3, <2>1, <2>2, TrustedClaimed, VerdictQuiet
<1>7. CASE Summarizes(r)
  <2>1. Settled(r) /\ Reporting(req[r])
    BY <1>2, <1>7 DEF Summarizes, AtSummary, Decided, Reporting, Settled
  <2>2. Over /\ AtRest
    BY <2>1 DEF CloseInv, ReportsOver, IInv, SettledMeansQuiet, AtRest
  <2> QED
    BY <1>3, <2>2
<1>8. CASE Hears(r)
  <2>1. phase = "failed" /\ req[r].tailSeat = tail.served /\ req[r].job # "none"
        /\ req'[r].job = "none" /\ phase' = phase
    BY <1>8 DEF Hears
  <2>2. \A q \in Req \ {r} : ~Writing(q)
    BY <2>1, OnTurn DEF Writing
  <2> QED
    BY <1>0, <2>1, <2>2 DEF AtRest, Others, Writing, Over
<1>9. CASE Saves(r)
  BY <1>0, <1>2, <1>9 DEF Saves, Moves, Decided, WellPlaced
<1>10. CASE \/ Arrives(r) \/ Stumbles(r) \/ Closes(r) \/ Claims(r) \/ Joins(r) \/ Checks(r)
            \/ Admits(r) \/ Unlocks(r) \/ Publishes(r)
  BY <1>2, <1>10 DEF Arrives, Stumbles, Closes, Claims, Switches, Joins, Checks, Admits, Unlocks,
                     Publishes, Moves, Done, Decided
<1>11. CASE Queues(r)
  BY <1>2, <1>11 DEF Queues, Onward, Moves, Decided
<1>12. CASE \/ BeginsFrame(r) \/ BeginsEvent(r) \/ Images(r) \/ LogsEvent(r) \/ LogsFirst(r)
            \/ Breaks(r)
  BY <1>2, <1>12 DEF BeginsFrame, BeginsEvent, Images, LogsEvent, LogsFirst, Breaks, Works, Moves,
                     Carries, Decided
<1>13. CASE LogsNext(r) \/ SavesRunning(r)
  BY <1>2, <1>13 DEF LogsNext, SavesRunning, SettlesFrame, Moves, Decided
<1> QED
  BY <1>5, <1>6, <1>7, <1>8, <1>9, <1>10, <1>11, <1>12, <1>13 DEF Move

\* close() waits for no job and has its own way.
LEMMA KeepsCloseWay ==
  ASSUME IInv, TypeInv', InPlace, CloseInv, NEW r \in Req, Move(r), req'[r].kind = "close"
  PROVE  /\ req'[r].job = "none" /\ req'[r].pc # "summarize"
         /\ req'[r].pc = "saving" => req'[r].next = "drain"
         /\ \/ Closes(r)
            \/ /\ req[r].kind = "close" /\ req[r].job = "none"
               /\ req'[r].save = req[r].save
               /\ \/ req[r].pc = "saving" /\ req'[r].pc = "drain"
                  \/ req[r].pc = "drain" /\ req'[r].pc = "draining"
                  \/ req[r].pc = "draining" /\ req'[r].pc = "publish" /\ Summarizes(r)
                  \/ req[r].pc = "publish" /\ req'[r].pc = "closing" /\ Publishes(r)
                  \/ req[r].pc \in {"closing", "leaving", "body"}
                     /\ req'[r].pc \in {"closing", "leaving", "done"}
<1>0. /\ WellPlaced(req[r]) /\ WellPlaced(req'[r])
      /\ req[r].pc = "idle" => req[r].job = "none" /\ req[r].kind = "none"
  BY IdleFields DEF IInv, TypeInv, InPlace
<1>1. req[r].kind = "close" =>
        /\ req[r].job = "none" /\ req[r].pc # "summarize"
        /\ req[r].pc = "saving" => req[r].next = "drain"
  BY DEF CloseInv
<1>2. CASE Closes(r)
  BY <1>0, <1>2 DEF Closes
<1>3. CASE Arrives(r) \/ Stumbles(r)
  BY <1>3 DEF Arrives, Stumbles, Stamped, Observed
<1>4. CASE Claims(r) \/ Fails(r) \/ Stops(r)
  BY <1>4 DEF Claims, Fails, AfterFailure, Stops, Switches
<1>5. CASE Saves(r)
  BY <1>1, <1>5 DEF Saves, Moves
<1>6. CASE Goes(r)
  BY <1>1, <1>6 DEF Goes, Onward, Moves
<1>7. CASE Joins(r) \/ Checks(r) \/ Unlocks(r) \/ Admits(r)
  BY <1>7 DEF Joins, Checks, Unlocks, Admits, Moves
<1>8. CASE Queues(r)
  BY <1>0, <1>8 DEF Queues, LinksJob, Onward, Moves, WellPlaced
<1>9. CASE Summarizes(r)
  BY <1>1, <1>9 DEF Summarizes, AtSummary, Settled
<1>10. CASE Publishes(r)
  BY <1>10 DEF Publishes, Moves
<1>11. CASE \/ BeginsFrame(r) \/ BeginsEvent(r) \/ Images(r) \/ LogsEvent(r) \/ LogsFirst(r)
            \/ Breaks(r)
  BY <1>1, <1>11 DEF BeginsFrame, BeginsEvent, Images, LogsEvent, LogsFirst, Breaks, Works, Moves
<1>12. CASE LogsNext(r) \/ SavesRunning(r) \/ Hears(r)
  BY <1>0, <1>1, <1>12 DEF LogsNext, SavesRunning, SettlesFrame, Hears, Moves, WellPlaced
<1> QED
  BY <1>2, <1>3, <1>4, <1>5, <1>6, <1>7, <1>8, <1>9, <1>10, <1>11, <1>12 DEF Move

\* A live capture has nothing to conclude: no report is under way.
LEMMA ConcludingStarts ==
  ASSUME IInv, InPlace, StateInv, CloseInv, NEW r \in Req, Closes(r), Live
  PROVE  Concluding'
<1>0. Others(r) /\ ~Over
  BY DEF Closes, Live, Over
<1>1. summary.status = "none" /\ \A q \in Req : ~Reporting(req[q]) /\ req[q].draft.status = "none"
  BY <1>0 DEF CloseInv, ReportsOver
<1>2. \A q \in Req : req[q].kind = "frame" => ~Settling(req[q])
  BY <1>0, <1>1 DEF Settling, Reporting, StateInv, Savers, Over
<1>3. \A q \in Req : req[q].pc # "publish"
  BY <1>1 DEF Reporting
<1>4. /\ req'[r].kind = "close" /\ req'[r].pc = "saving" /\ req'[r].draft = req[r].draft
      /\ phase' = "failed" /\ summary' = summary
  BY <1>0 DEF Closes
<1> QED
  BY <1>0, <1>1, <1>2, <1>3, <1>4 DEF Concluding, Others, LastWord

\* What handlers do that neither fix a summary nor move a frame on to one.
LEMMA FramesDoNotReport ==
  ASSUME IInv, InPlace, Concluding, NEW r \in Req, Move(r), req'[r].kind = "frame"
  PROVE  ~Settling(req'[r])
<1>0. ~Live /\ WellPlaced(req[r]) /\ (req[r].kind = "frame" => ~Settling(req[r]))
  BY DEF Concluding, Live, IInv, TypeInv
<1>1. CASE Arrives(r) \/ Stumbles(r) \/ Closes(r)
  BY <1>0, <1>1 DEF Arrives, Stumbles, Closes, Settling
<1>2. CASE Claims(r) \/ Fails(r) \/ Stops(r)
  BY <1>0, <1>2 DEF Claims, Fails, AfterFailure, Stops, Switches, Concluding
<1>3. CASE Saves(r)
  BY <1>0, <1>3 DEF Saves, Moves, Carries, Settling, WellPlaced
<1>4. CASE Goes(r)
  BY <1>0, <1>4 DEF Goes, Onward, AtVerdict, Moves, Settling
<1>5. CASE Joins(r) \/ Checks(r) \/ Unlocks(r) \/ Admits(r) \/ Publishes(r)
  BY <1>5 DEF Joins, Checks, Unlocks, Admits, Publishes, Done, Moves, Settling
<1>6. CASE Queues(r)
  BY <1>6 DEF Queues, Onward, Moves, Settling
<1>7. CASE Summarizes(r)
  BY <1>0, <1>7 DEF Summarizes, AtSummary, Settled, Settling
<1>8. CASE \/ BeginsFrame(r) \/ BeginsEvent(r) \/ Images(r) \/ LogsEvent(r) \/ LogsFirst(r)
            \/ Breaks(r)
  BY <1>0, <1>8 DEF BeginsFrame, BeginsEvent, Images, LogsEvent, LogsFirst, Breaks, Works, Moves,
                    Carries, Settling
<1>9. CASE LogsNext(r) \/ SavesRunning(r) \/ Hears(r)
  BY <1>9 DEF LogsNext, SavesRunning, SettlesFrame, Hears, Moves, Done, Settling
<1> QED
  BY <1>1, <1>2, <1>3, <1>4, <1>5, <1>6, <1>7, <1>8, <1>9 DEF Move

\* The draft of a handler is only fixed where it summarizes.
LEMMA DraftSteps ==
  ASSUME IInv, InPlace, NEW r \in Req, Move(r), ~Summarizes(r)
  PROVE  /\ req'[r].draft \in {req[r].draft, NoSummary}
         /\ req'[r].pc = "publish" => req[r].pc = "publish" /\ req'[r].draft = req[r].draft
<1>0. WellPlaced(req[r])
  BY DEF IInv, TypeInv
<1>1. CASE \/ Arrives(r) \/ Stumbles(r) \/ Closes(r) \/ Claims(r) \/ Fails(r) \/ Stops(r)
  BY <1>1 DEF Arrives, Stumbles, Closes, Claims, Fails, Stops, Switches
<1>2. CASE Saves(r) \/ Goes(r) \/ Queues(r)
  BY <1>0, <1>2 DEF Saves, Goes, Queues, Onward, Moves, Carries, WellPlaced
<1>3. CASE Joins(r) \/ Checks(r) \/ Unlocks(r) \/ Admits(r) \/ Publishes(r)
  BY <1>3 DEF Joins, Checks, Unlocks, Admits, Publishes, Done, Moves, Carries
<1>4. CASE \/ BeginsFrame(r) \/ BeginsEvent(r) \/ Images(r) \/ LogsEvent(r) \/ LogsFirst(r)
            \/ Breaks(r)
  BY <1>4 DEF BeginsFrame, BeginsEvent, Images, LogsEvent, LogsFirst, Breaks, Works, Moves, Carries
<1>5. CASE LogsNext(r) \/ SavesRunning(r) \/ Hears(r)
  BY <1>0, <1>5 DEF LogsNext, SavesRunning, SettlesFrame, Hears, Moves, Carries, Done, WellPlaced
<1> QED
  BY <1>1, <1>2, <1>3, <1>4, <1>5 DEF Move

LEMMA SummarySteps ==
  ASSUME NEW r \in Req, Move(r)
  PROVE  summary' = summary \/ (Publishes(r) /\ summary' = req[r].draft /\ req[r].pc = "publish")
BY DEF Move, Arrives, Stumbles, Closes, Claims, Fails, Stops, Saves, Goes, Joins, Checks, Admits,
       Queues, Unlocks, Summarizes, Publishes, BeginsFrame, BeginsEvent, Images, LogsEvent,
       LogsFirst, LogsLine, LogsNext, SavesRunning, Breaks, Hears, disk

\* Only a frame's line makes the log of frames longer.
LEMMA LastWordStays ==
  ASSUME IInv, InPlace, NEW r \in Req, Move(r), phase = "failed", NEW s, LastWord(s)
  PROVE  s.status # "none" =>
           s.status = "failed" /\ s.accepted = Len(frameLog') /\ AtRest'
BY QuietStays DEF LastWord, Over

LEMMA KeepsConcluding ==
  ASSUME IInv, InPlace, StateInv, CloseInv, NEW r \in Req, Move(r), Concluding
  PROVE  Concluding'
<1>0. Others(r) /\ phase = "failed" /\ phase' = "failed"
  BY KeepsInPlace, PhaseSteps DEF Concluding
<1>1. \A q \in Req : req'[q].kind = "frame" => ~Settling(req'[q])
  BY <1>0, FramesDoNotReport DEF Concluding, Others
<1> DEFINE Word(s) == s.status # "none" =>
                        s.status = "failed" /\ s.accepted = Len(frameLog') /\ AtRest'
<1>2. Word(summary) /\ \A q \in Req : Word(req[q].draft)
  BY <1>0, LastWordStays DEF Concluding
<1>3. Word(NoSummary)
  BY DEF NoSummary
<1>4. CASE Summarizes(r)
  <2>1. AtRest
    <3>1. CASE Settled(r)
      BY <3>1 DEF IInv, SettledMeansQuiet, AtRest
    <3>2. CASE req[r].pc = "summarize"
      <4>1. req[r].kind \in {"frame", "stop", "close"}
        BY <3>2 DEF InPlace, Placed
      <4>2. req[r].kind # "frame" /\ req[r].kind # "close"
        BY <3>2 DEF Concluding, Settling, CloseInv
      <4>3. Decided(req[r])
        BY <3>2, <4>1, <4>2 DEF Decided
      <4> QED
        BY <4>3 DEF CloseInv, DecidedQuiet
    <3> QED
      BY <1>4, <3>1, <3>2 DEF Summarizes, AtSummary
  <2>2. AtRest' /\ frameLog' = frameLog
    BY <1>0, <2>1, QuietStays DEF Over
  <2>3. req'[r].draft.status = "failed" /\ req'[r].draft.accepted = Len(frameLog')
    BY <1>0, <1>4, <2>2 DEF Summarizes, IInv, StoppedCounts
  <2>4. Word(req'[r].draft) /\ req'[r].draft.status # "none" /\ summary' = summary
    BY <1>4, <2>2, <2>3 DEF Summarizes
  <2> HIDE DEF Word
  <2>5. Word(summary') /\ \A q \in Req : Word(req'[q].draft)
    BY <1>0, <1>2, <2>4 DEF Others
  <2>6. \A q \in Req : req'[q].pc = "publish" => req'[q].draft.status # "none"
    BY <1>0, <2>4 DEF Others, Concluding
  <2> QED
    BY <1>0, <1>1, <2>5, <2>6 DEF Concluding, LastWord, Word
<1>5. CASE ~Summarizes(r)
  <2>1. /\ req'[r].draft \in {req[r].draft, NoSummary}
        /\ req'[r].pc = "publish" => req[r].pc = "publish" /\ req'[r].draft = req[r].draft
        /\ summary' \in {summary, req[r].draft}
    BY <1>5, DraftSteps, SummarySteps
  <2> HIDE DEF Word
  <2>2. Word(summary') /\ \A q \in Req : Word(req'[q].draft)
    BY <1>0, <1>2, <1>3, <2>1 DEF Others
  <2>3. \A q \in Req : req'[q].pc = "publish" => req'[q].draft.status # "none"
    BY <1>0, <2>1 DEF Others, Concluding
  <2> QED
    BY <1>0, <1>1, <2>2, <2>3 DEF Concluding, LastWord, Word
<1> QED
  BY <1>4, <1>5

LEMMA KeepsCloseInv ==
  ASSUME IInv, TypeInv', InPlace, StateInv, CloseInv, NEW r \in Req, Move(r)
  PROVE  CloseInv'
<1>0. Others(r)
  BY KeepsInPlace
<1>1. ReportsOver' /\ DecidedQuiet'
  BY KeepsReportsOver, KeepsDecidedQuiet
<1>2. \A q \in Req : req'[q].kind = "close" =>
        /\ req'[q].job = "none" /\ req'[q].pc # "summarize"
        /\ req'[q].pc = "saving" => req'[q].next = "drain"
  BY <1>0, KeepsCloseWay DEF CloseInv, Others
<1>3. Closing(r)' => Closing(r) \/ (Closes(r) /\ Live)
  <2>1. (req[r].pc = "idle" => req[r].save = "ready") /\ (Closes(r) => req[r].pc = "idle")
    BY IdleFields DEF InPlace, Closes
  <2>2. Closing(r)' => Closes(r) \/ (req[r].kind = "close" /\ req'[r].save = req[r].save)
    BY KeepsCloseWay DEF Closing
  <2>3. Closes(r) /\ ~Live => req'[r].save = req[r].save
    BY DEF Closes
  <2> QED
    BY <2>1, <2>2, <2>3 DEF Closing
<1>4. ASSUME NEW c \in Req, Closing(c)' PROVE Concluding'
  <2>1. CASE Closes(r) /\ Live
    BY <2>1, ConcludingStarts
  <2>2. CASE ~(Closes(r) /\ Live)
    <3>1. Closing(c)
      BY <1>0, <1>3, <1>4, <2>2 DEF Others, Closing
    <3> QED
      BY <3>1, KeepsConcluding DEF CloseInv
  <2> QED
    BY <2>1, <2>2
<1>5. ASSUME NEW c \in Req, Closing(c)'
      PROVE  /\ req'[c].pc \in {"saving", "drain", "draining", "publish", "closing", "leaving",
                                "done"}
             /\ req'[c].pc \in {"closing", "leaving", "done"} => summary'.status # "none"
  <2>1. CASE Closes(r) /\ Live /\ c = r
    BY <2>1 DEF Closes
  <2>2. CASE Closing(c)
    <3>0. Concluding
      BY <2>2 DEF CloseInv
    <3>1. /\ Publishes(r) => summary'.status # "none"
          /\ summary.status # "none" => summary'.status # "none"
      BY <3>0, SummarySteps DEF Publishes, Concluding
    <3>2. CASE c # r
      BY <1>0, <2>2, <3>1, <3>2 DEF CloseInv, Others
    <3>3. CASE c = r
      BY <1>5, <2>2, <3>1, <3>3, KeepsCloseWay DEF CloseInv, Closing, Closes
    <3> QED
      BY <3>2, <3>3
  <2> QED
    BY <1>0, <1>3, <1>5, <2>1, <2>2 DEF Others, Closing
<1> QED
  BY <1>1, <1>2, <1>4, <1>5 DEF CloseInv

-----------------------------------------------------------------------------
(* 7. The lock of the frames.                                                *)

\* A frame holds the lock, or waits for it.
InLock(h) ==
  h.kind = "frame" /\ \/ h.pc \in {"enter", "flushScroll", "flushPointer", "admit", "unlock",
                                   "drain", "draining", "summarize", "publish"}
                      \/ h.pc = "saving" /\ h.next # "done"

\* One frame at a time has it, in the order they entered.
LockInv ==
  /\ lock.served <= lock.next
  /\ \A r \in Req : InLock(req[r]) =>
       /\ lock.served <= req[r].lockSeat /\ req[r].lockSeat < lock.next
       /\ req[r].pc # "enter" => req[r].lockSeat = lock.served
  /\ \A q, r \in Req : q # r /\ InLock(req[q]) /\ InLock(req[r])
       => req[q].lockSeat # req[r].lockSeat

LEMMA LockSteps ==
  ASSUME IInv, InPlace, NEW r \in Req, Move(r)
  PROVE  \/ /\ lock' = lock
            /\ InLock(req'[r]) =>
                 /\ InLock(req[r]) /\ req'[r].lockSeat = req[r].lockSeat
                 /\ req'[r].pc # "enter" => req[r].pc # "enter" \/ HasLock(r)
         \/ /\ lock' = [lock EXCEPT !.next = @ + 1]
            /\ req'[r].pc = "enter" /\ req'[r].lockSeat = lock.next
         \/ /\ lock' = [lock EXCEPT !.served = @ + 1]
            /\ InLock(req[r]) /\ req[r].pc # "enter" /\ ~InLock(req'[r])
<1>0. WellPlaced(req[r])
  BY DEF IInv, TypeInv
<1>1. CASE Arrives(r) \/ Stumbles(r) \/ Closes(r)
  BY <1>1 DEF Arrives, Stumbles, Closes, InLock
<1>2. CASE Claims(r) \/ Fails(r) \/ Stops(r)
  BY <1>2 DEF Claims, Fails, AfterFailure, Stops, Switches, InLock
<1>3. CASE Saves(r)
  BY <1>0, <1>3 DEF Saves, Moves, Carries, InLock
<1>4. CASE Goes(r) \/ Queues(r)
  BY <1>4 DEF Goes, Queues, Onward, AtVerdict, Moves, Carries, InLock
<1>5. CASE Joins(r) \/ Checks(r)
  BY <1>5 DEF Joins, Checks, InLock
<1>6. CASE Unlocks(r) \/ Admits(r)
  BY <1>6 DEF Unlocks, Admits, Moves, InLock
<1>7. CASE Summarizes(r)
  BY <1>7 DEF Summarizes, AtSummary, Settled, InLock
<1>8. CASE Publishes(r)
  BY <1>8 DEF Publishes, Moves, Carries, Done, InLock
<1>9. CASE \/ BeginsFrame(r) \/ BeginsEvent(r) \/ Images(r) \/ LogsEvent(r) \/ LogsFirst(r)
           \/ Breaks(r)
  BY <1>9 DEF BeginsFrame, BeginsEvent, Images, LogsEvent, LogsFirst, LogsLine, Breaks, Works,
              Moves, Carries, InLock, memory
<1>10. CASE LogsNext(r) \/ SavesRunning(r) \/ Hears(r)
  BY <1>0, <1>10 DEF LogsNext, LogsLine, SavesRunning, SettlesFrame, Hears, Moves, Carries, Done,
                     InLock, FrameJob, WellPlaced
<1> QED
  BY <1>1, <1>2, <1>3, <1>4, <1>5, <1>6, <1>7, <1>8, <1>9, <1>10 DEF Move

LEMMA KeepsLockInv ==
  ASSUME IInv, InPlace, LockInv, NEW r \in Req, Move(r)
  PROVE  LockInv'
<1>0. /\ Others(r) /\ lock.next \in Nat /\ lock.served \in Nat
      /\ \A q \in Req : req[q].lockSeat \in Nat
  BY KeepsInPlace, MemoryType, Handlers DEF IInv, TicketType, HandlerType
<1>1. CASE /\ lock' = lock
           /\ InLock(req'[r]) =>
                 /\ InLock(req[r]) /\ req'[r].lockSeat = req[r].lockSeat
                 /\ req'[r].pc # "enter" => req[r].pc # "enter" \/ HasLock(r)
  <2>1. InLock(req'[r]) /\ req'[r].pc # "enter" => req[r].lockSeat = lock.served
    BY <1>0, <1>1 DEF LockInv, HasLock
  <2> QED
    BY <1>0, <1>1, <2>1 DEF LockInv, Others
<1>2. CASE /\ lock' = [lock EXCEPT !.next = @ + 1]
           /\ req'[r].pc = "enter" /\ req'[r].lockSeat = lock.next
  <2>1. lock'.next = lock.next + 1 /\ lock'.served = lock.served
    BY <1>2, MemoryType DEF IInv, TicketType
  <2> QED
    BY <1>0, <1>2, <2>1 DEF LockInv, Others
<1>3. CASE /\ lock' = [lock EXCEPT !.served = @ + 1]
           /\ InLock(req[r]) /\ req[r].pc # "enter" /\ ~InLock(req'[r])
  <2>1. lock'.next = lock.next /\ lock'.served = lock.served + 1
    BY <1>3, MemoryType DEF IInv, TicketType
  <2>2. req[r].lockSeat = lock.served /\ lock.served < lock.next
    BY <1>3 DEF LockInv
  <2>3. \A q \in Req \ {r} : InLock(req[q]) => req[q].lockSeat > lock.served /\ req[q].pc = "enter"
    BY <1>0, <1>3, <2>2 DEF LockInv
  <2> QED
    BY <1>0, <1>3, <2>1, <2>2, <2>3 DEF LockInv, Others
<1> QED
  BY <1>1, <1>2, <1>3, LockSteps

\* A frame that has passed the checks and waits for its write to be chained.
Checked(h) == h.kind = "frame" /\ h.pc \in {"flushScroll", "flushPointer", "admit"}

LEMMA OneChecked ==
  ASSUME LockInv, NEW q \in Req, NEW r \in Req, Checked(req[q]), Checked(req[r])
  PROVE  q = r
BY DEF LockInv, Checked, InLock

-----------------------------------------------------------------------------
(* 8. The budgets.                                                           *)

Persisting == {r \in Req : req[r].pc = "persisting"}
Starting(r) == req[r].job = "starting"

PendingCounted ==
  /\ load.pending = Cardinality(Persisting) /\ load.pending <= QueueCapacity
  /\ \A r \in Persisting : req[r].job # "none"
  /\ \A r \in Req : Checked(req[r]) => load.pending < QueueCapacity

\* n more frames of b bytes together would be within the budgets.  The first
\* frame is accepted while its write is not over: it is counted twice.
Fits(n, b) ==
  \/ /\ \A r \in Req : ~Starting(r)
     /\ tally.accepted + load.pending + n <= MaxFrames
     /\ load.bytes + load.inflight + b <= MaxBytes
  \/ \E r \in Req : /\ Starting(r)
                    /\ tally.accepted + load.pending + n <= MaxFrames + 1
                    /\ load.bytes + load.inflight + b <= MaxBytes + req[r].size
FramesFit ==
  /\ Fits(0, 0)
  /\ \A r \in Req, b \in Nat : Checked(req[r]) /\ req[r].size = b => Fits(1, b)

\* What was in flight when each link was chained: inflightBytes is the part of
\* it that is still to come.
Chained(base) ==
  /\ base \in [Nat -> Nat] /\ \A i, j \in Nat : i <= j => base[i] <= base[j]
  /\ load.inflight = base[tail.next] - base[tail.served]
  /\ \A r \in Req : req[r].job # "none" =>
       base[req[r].tailSeat + 1] = base[req[r].tailSeat]
                                     + (IF r \in Persisting THEN req[r].size ELSE 0)
BytesInFlight == \E base : Chained(base)

BudgetInv == PendingCounted /\ FramesFit /\ BytesInFlight

LEMMA FinitelyMany == ASSUME BrokerAssumption PROVE IsFiniteSet(Req)
<1>1. MaxRequests \in Nat
  BY DEF BrokerAssumption
<1> QED
  BY <1>1, FS_Interval DEF Req

\* Subsets of Req that differ in one request.
LEMMA OneMore ==
  ASSUME BrokerAssumption, NEW S \in SUBSET Req, NEW T \in SUBSET Req, NEW r \in Req,
         \A q \in Req \ {r} : q \in S <=> q \in T
  PROVE  /\ Cardinality(S) \in Nat /\ Cardinality(T) \in Nat
         /\ r \in S /\ r \notin T => Cardinality(T) = Cardinality(S) - 1
         /\ r \notin S /\ r \in T => Cardinality(T) = Cardinality(S) + 1
         /\ (r \in S <=> r \in T) => Cardinality(T) = Cardinality(S)
         /\ r \in S => Cardinality(S) >= 1
<1>1. IsFiniteSet(Req)
  BY FinitelyMany
<1>2. IsFiniteSet(S) /\ IsFiniteSet(T)
  BY <1>1, FS_Subset
<1>3. Cardinality(S) \in Nat /\ Cardinality(T) \in Nat
  BY <1>2, FS_CardinalityType
<1>4. ASSUME r \in S, r \notin T PROVE Cardinality(T) = Cardinality(S) - 1
  <2>1. T = S \ {r}
    BY <1>4
  <2> QED
    BY <1>2, <1>4, <2>1, FS_RemoveElement
<1>5. ASSUME r \notin S, r \in T PROVE Cardinality(T) = Cardinality(S) + 1
  <2>1. T = S \cup {r}
    BY <1>5
  <2> QED
    BY <1>2, <1>5, <2>1, FS_AddElement
<1>6. ASSUME r \in S <=> r \in T PROVE Cardinality(T) = Cardinality(S)
  <2>1. S = T
    BY <1>6
  <2> QED
    BY <2>1
<1>7. ASSUME r \in S PROVE Cardinality(S) >= 1
  <2>1. Cardinality(S) # 0
    BY <1>2, <1>7, FS_EmptySet
  <2> QED
    BY <1>3, <2>1
<1> QED
  BY <1>3, <1>4, <1>5, <1>6, <1>7

\* What the budgets see of most moves.
Uncounted(r) ==
  /\ load'.pending = load.pending /\ load'.inflight = load.inflight /\ load'.bytes = load.bytes
  /\ tally'.accepted = tally.accepted
  /\ r \in Persisting' <=> r \in Persisting
  /\ Starting(r)' <=> Starting(r)
  /\ r \in Persisting => req'[r].job # "none" /\ req'[r].size = req[r].size
  /\ Checked(req'[r]) => Checked(req[r]) /\ req'[r].size = req[r].size
  /\ \/ /\ tail' = tail
        /\ req'[r].job # "none" => req[r].job # "none" /\ req'[r].tailSeat = req[r].tailSeat
     \/ LinksJob(r) /\ r \notin Persisting
     \/ /\ tail' = [tail EXCEPT !.served = @ + 1]
        /\ req[r].job # "none" /\ req[r].tailSeat = tail.served /\ r \notin Persisting
        /\ req'[r].job = "none"

LEMMA BudgetSteps ==
  ASSUME IInv, InPlace, PendingCounted, NEW r \in Req, Move(r)
  PROVE  Uncounted(r) \/ Checks(r) \/ Admits(r) \/ LogsFirst(r) \/ LogsNext(r)
           \/ SavesRunning(r) \/ (Hears(r) /\ FrameJob(r))
<1>0. /\ WellPlaced(req[r]) /\ (req[r].pc = "idle" => req[r].job = "none")
      /\ (req[r].pc = "persisting" => req[r].job # "none")
      /\ req'[r].pc = "persisting" <=> r \in Persisting'
      /\ req[r].pc = "persisting" <=> r \in Persisting
  BY IdleFields DEF IInv, TypeInv, InPlace, PendingCounted, Persisting
<1>1. CASE Arrives(r) \/ Stumbles(r) \/ Closes(r)
  BY <1>0, <1>1 DEF Arrives, Stumbles, Closes, Uncounted, Starting, Checked
<1>2. CASE Claims(r) \/ Fails(r) \/ Stops(r)
  BY <1>0, <1>2 DEF Claims, Fails, Stops, Switches, Uncounted, Starting, Checked
<1>3. CASE Saves(r)
  BY <1>0, <1>3 DEF Saves, Moves, Carries, WellPlaced, Uncounted, Starting, Checked
<1>4. CASE Goes(r)
  BY <1>0, <1>4 DEF Goes, Onward, Moves, Carries, Uncounted, Starting, Checked
<1>5. CASE Queues(r)
  BY <1>0, <1>5 DEF Queues, LinksJob, Onward, Moves, Carries, Uncounted, Starting, Checked
<1>6. CASE Joins(r) \/ Unlocks(r)
  BY <1>0, <1>6 DEF Joins, Unlocks, Moves, Uncounted, Starting, Checked
<1>7. CASE Summarizes(r) \/ Publishes(r)
  BY <1>0, <1>7 DEF Summarizes, AtSummary, Settled, Publishes, Moves, Done, Uncounted, Starting,
                    Checked
<1>8. CASE BeginsFrame(r) \/ BeginsEvent(r) \/ Images(r) \/ Breaks(r)
  <2>1. /\ load'.pending = load.pending /\ load'.inflight = load.inflight
        /\ load'.bytes = load.bytes /\ tail' = tail /\ tally' = tally
    BY <1>8, MemoryType DEF BeginsFrame, BeginsEvent, Images, Breaks, memory, IInv, LoadType
  <2>2. /\ Moves(r, req[r].pc, req[r].reply) /\ req[r].pc # "done"
        /\ req[r].job # "none" /\ req'[r].job # "none" /\ req'[r].tailSeat = req[r].tailSeat
        /\ ~Starting(r) /\ ~Starting(r)'
    BY <1>8 DEF BeginsFrame, BeginsEvent, Images, Breaks, Works, Starting
  <2> QED
    BY <1>0, <2>1, <2>2 DEF Moves, Carries, Uncounted, Checked
<1>9. CASE LogsEvent(r)
  <2>1. req[r].tailSeat = tail.served /\ req[r].pc # "persisting"
    BY <1>0, <1>9, Begun DEF LogsEvent, Works, WellPlaced
  <2> QED
    BY <1>0, <1>9, <2>1 DEF LogsEvent, Works, Moves, Carries, Uncounted, Starting, Checked
<1>10. CASE Hears(r) /\ ~FrameJob(r)
  BY <1>0, <1>10 DEF Hears, FrameJob, Moves, Done, Uncounted, Starting, Checked
<1> QED
  BY <1>1, <1>2, <1>3, <1>4, <1>5, <1>6, <1>7, <1>8, <1>9, <1>10 DEF Move

\* The write of a frame that is over.
LEMMA WriteOver ==
  ASSUME IInv, InPlace, NEW r \in Req,
         LogsNext(r) \/ SavesRunning(r) \/ (Hears(r) /\ FrameJob(r))
  PROVE  /\ r \in Persisting /\ r \notin Persisting' /\ req'[r].job = "none"
         /\ ~Checked(req'[r]) /\ ~Starting(r)'
         /\ \A q \in Req \ {r} : req[q].job \in {"none", "queued"}
         /\ req[r].job # "none" /\ req[r].tailSeat = tail.served
         /\ load'.pending = load.pending - 1 /\ load'.inflight = load.inflight - req[r].size
         /\ tail' = [tail EXCEPT !.served = @ + 1]
         /\ \/ /\ ~Starting(r) /\ load'.bytes = load.bytes + req[r].size
               /\ tally'.accepted = tally.accepted + 1
            \/ load'.bytes = load.bytes /\ tally'.accepted = tally.accepted
<1>0. load \in LoadType /\ tally \in TallyType /\ req[r].size \in Nat
  BY MemoryType, Handlers DEF IInv, HandlerType
<1>1. ASSUME NEW bytes \in Nat, NEW code, SettlesFrame(r, bytes, code)
      PROVE  /\ req[r].pc = "persisting" /\ req'[r].pc = "done" /\ req'[r].job = "none"
             /\ tail' = [tail EXCEPT !.served = @ + 1]
             /\ load'.pending = load.pending - 1 /\ load'.inflight = load.inflight - req[r].size
             /\ load'.bytes = load.bytes + bytes
  BY <1>0, <1>1 DEF SettlesFrame, Moves, LoadType
<1>2. req[r].job # "none" /\ req[r].tailSeat = tail.served
  BY Begun DEF LogsNext, SavesRunning, Hears
<1>3. \A q \in Req \ {r} : req[q].job \in {"none", "queued"}
  BY <1>2, OnTurn
<1>4. CASE LogsNext(r)
  <2>1. tally'.accepted = tally.accepted + 1
    BY <1>0, <1>4 DEF LogsNext, LogsLine, TallyType
  <2>2. SettlesFrame(r, req[r].size, 200) /\ ~Starting(r)
    BY <1>4 DEF LogsNext, Starting
  <2> QED
    BY <1>0, <1>1, <1>2, <1>3, <2>1, <2>2 DEF Persisting, Checked, Starting
<1>5. CASE SavesRunning(r) \/ (Hears(r) /\ FrameJob(r))
  <2>1. tally'.accepted = tally.accepted
    BY <1>5 DEF SavesRunning, Hears
  <2>2. SettlesFrame(r, 0, 200) \/ SettlesFrame(r, 0, 500)
    BY <1>5 DEF SavesRunning, Hears
  <2>3. /\ req[r].pc = "persisting" /\ req'[r].pc = "done" /\ req'[r].job = "none"
        /\ tail' = [tail EXCEPT !.served = @ + 1]
        /\ load'.pending = load.pending - 1 /\ load'.inflight = load.inflight - req[r].size
        /\ load'.bytes = load.bytes + 0
    BY <1>1, <2>2
  <2>4. load'.bytes = load.bytes
    BY <1>0, <2>3 DEF LoadType
  <2> QED
    BY <1>2, <1>3, <2>1, <2>3, <2>4 DEF Persisting, Checked, Starting
<1> QED
  BY <1>4, <1>5

LEMMA KeepsPendingCounted ==
  ASSUME BrokerAssumption, IInv, InPlace, LockInv, PendingCounted, NEW r \in Req, Move(r)
  PROVE  PendingCounted'
<1>0. /\ Others(r) /\ \A q \in Req \ {r} : q \in Persisting <=> q \in Persisting'
      /\ Persisting \in SUBSET Req /\ Persisting' \in SUBSET Req
      /\ load.pending \in Int /\ QueueCapacity \in Nat
  BY KeepsInPlace, MemoryType DEF Others, Persisting, IInv, LoadType, BrokerAssumption
<1>1. CASE Uncounted(r)
  <2>1. Cardinality(Persisting') = Cardinality(Persisting)
    BY <1>0, <1>1, OneMore DEF Uncounted
  <2> QED
    BY <1>0, <1>1, <2>1 DEF Uncounted, PendingCounted, Others, Persisting
<1>2. CASE Checks(r)
  <2>1. /\ r \notin Persisting /\ r \notin Persisting' /\ load' = load
        /\ load.pending < QueueCapacity
    BY <1>2 DEF Checks, Persisting
  <2>2. Cardinality(Persisting') = Cardinality(Persisting)
    BY <1>0, <2>1, OneMore
  <2> QED
    BY <1>0, <2>1, <2>2 DEF PendingCounted, Others, Persisting
<1>3. CASE Admits(r)
  <2>1. /\ r \notin Persisting /\ r \in Persisting' /\ load'.pending = load.pending + 1
        /\ req'[r].job # "none" /\ Checked(req[r]) /\ ~Checked(req'[r])
    BY <1>3, MemoryType DEF Admits, LinksJob, Moves, Persisting, Checked, IInv, LoadType
  <2>2. Cardinality(Persisting') = Cardinality(Persisting) + 1
    BY <1>0, <2>1, OneMore
  <2>3. \A q \in Req : ~Checked(req'[q])
    BY <1>0, <2>1, OneChecked DEF Others
  <2>4. load'.pending <= QueueCapacity
    BY <1>0, <2>1 DEF PendingCounted
  <2> QED
    BY <1>0, <2>1, <2>2, <2>3, <2>4 DEF PendingCounted, Others, Persisting
<1>4. CASE LogsFirst(r)
  <2>1. /\ r \in Persisting /\ r \in Persisting' /\ load'.pending = load.pending
        /\ req'[r].job # "none" /\ ~Checked(req'[r])
    BY <1>4, MemoryType DEF LogsFirst, Works, Moves, Persisting, Checked, IInv, TypeInv, WellPlaced,
                            LoadType
  <2>2. Cardinality(Persisting') = Cardinality(Persisting)
    BY <1>0, <2>1, OneMore
  <2>3. \A q \in Persisting' : req'[q].job # "none"
    BY <1>0, <2>1 DEF PendingCounted, Others, Persisting
  <2>4. \A q \in Req : Checked(req'[q]) => load'.pending < QueueCapacity
    BY <1>0, <2>1 DEF PendingCounted, Others
  <2> QED
    BY <1>0, <2>1, <2>2, <2>3, <2>4 DEF PendingCounted
<1>5. CASE LogsNext(r) \/ SavesRunning(r) \/ (Hears(r) /\ FrameJob(r))
  <2>1. /\ r \in Persisting /\ r \notin Persisting' /\ load'.pending = load.pending - 1
        /\ ~Checked(req'[r])
    BY <1>5, WriteOver
  <2>2. Cardinality(Persisting') = Cardinality(Persisting) - 1
    BY <1>0, <2>1, OneMore
  <2>3. \A q \in Persisting' : req'[q].job # "none"
    BY <1>0, <2>1 DEF PendingCounted, Others, Persisting
  <2>4. \A q \in Req : Checked(req'[q]) => load'.pending < QueueCapacity
    BY <1>0, <2>1 DEF PendingCounted, Others
  <2>5. load'.pending = Cardinality(Persisting') /\ load'.pending <= QueueCapacity
    BY <1>0, <2>1, <2>2 DEF PendingCounted
  <2> QED
    BY <2>3, <2>4, <2>5 DEF PendingCounted
<1> QED
  BY <1>1, <1>2, <1>3, <1>4, <1>5, BudgetSteps

LEMMA Amounts ==
  ASSUME BrokerAssumption, IInv
  PROVE  /\ load.pending \in Int /\ load.inflight \in Int /\ load.bytes \in Nat
         /\ tally.accepted \in Nat /\ MaxFrames \in Nat /\ MaxBytes \in Nat
         /\ \A q \in Req : req[q].size \in Nat
BY MemoryType, Handlers DEF IInv, LoadType, TallyType, HandlerType, BrokerAssumption

\* Whatever fits goes on fitting, except where a frame is admitted.
LEMMA FitStays ==
  ASSUME BrokerAssumption, IInv, InPlace, PendingCounted, NEW r \in Req, Move(r), ~Admits(r),
         NEW n \in Nat, NEW b \in Nat, Fits(n, b)
  PROVE  Fits(n, b)'
<1>0. Others(r)
  BY KeepsInPlace
<1>1. \A q \in Req \ {r} : (Starting(q)' <=> Starting(q)) /\ req'[q] = req[q]
  BY <1>0 DEF Others, Starting
<1>2. ASSUME /\ load'.pending = load.pending /\ load'.inflight = load.inflight
             /\ load'.bytes = load.bytes /\ tally'.accepted = tally.accepted,
             Starting(r)' <=> Starting(r), Starting(r) => req'[r].size = req[r].size
      PROVE  Fits(n, b)'
  BY <1>1, <1>2 DEF Fits
<1>3. CASE Uncounted(r)
  <2>1. Starting(r) => req'[r].size = req[r].size
    BY <1>3 DEF Uncounted, Starting, Persisting, IInv, TypeInv, WellPlaced
  <2> QED
    BY <1>2, <1>3, <2>1 DEF Uncounted
<1>4. CASE Checks(r)
  BY <1>2, <1>4 DEF Checks, Starting
<1>5. CASE LogsFirst(r)
  <2>1. /\ load'.pending = load.pending /\ load'.inflight = load.inflight
        /\ load'.bytes = load.bytes + req[r].size /\ tally'.accepted = tally.accepted + 1
    BY <1>5, MemoryType DEF LogsFirst, LogsLine, IInv, LoadType, TallyType
  <2>2. \A q \in Req : ~Starting(q)
    BY <1>5, Begun, OnTurn DEF LogsFirst, Works, Starting
  <2>3. Starting(r)' /\ req'[r].size = req[r].size
    BY <1>5 DEF LogsFirst, Works, Moves, Carries, Starting
  <2>4. /\ tally'.accepted + load'.pending + n <= MaxFrames + 1
        /\ load'.bytes + load'.inflight + b <= MaxBytes + req'[r].size
    BY <2>1, <2>2, <2>3, Amounts DEF Fits
  <2> QED
    BY <2>3, <2>4 DEF Fits
<1>6. CASE LogsNext(r) \/ SavesRunning(r) \/ (Hears(r) /\ FrameJob(r))
  <2>1. /\ \A q \in Req : ~Starting(q)'
        /\ \A q \in Req \ {r} : ~Starting(q)
    BY <1>1, <1>6, WriteOver DEF Starting
  <2>2. CASE Starting(r)
    <3>1. /\ tally.accepted + load.pending + n <= MaxFrames + 1
          /\ load.bytes + load.inflight + b <= MaxBytes + req[r].size
      BY <2>1, <2>2 DEF Fits
    <3>2. /\ load'.pending = load.pending - 1 /\ load'.inflight = load.inflight - req[r].size
          /\ load'.bytes = load.bytes /\ tally'.accepted = tally.accepted
      BY <1>6, <2>2, WriteOver
    <3>3. /\ tally'.accepted + load'.pending + n <= MaxFrames
          /\ load'.bytes + load'.inflight + b <= MaxBytes
      BY <3>1, <3>2, Amounts
    <3> QED
      BY <2>1, <3>3 DEF Fits
  <2>3. CASE ~Starting(r)
    <3>1. /\ tally.accepted + load.pending + n <= MaxFrames
          /\ load.bytes + load.inflight + b <= MaxBytes
      BY <2>1, <2>3 DEF Fits
    <3>2. /\ load'.pending = load.pending - 1 /\ load'.inflight = load.inflight - req[r].size
          /\ \/ load'.bytes = load.bytes + req[r].size /\ tally'.accepted = tally.accepted + 1
             \/ load'.bytes = load.bytes /\ tally'.accepted = tally.accepted
      BY <1>6, WriteOver
    <3>3. /\ tally'.accepted + load'.pending + n <= MaxFrames
          /\ load'.bytes + load'.inflight + b <= MaxBytes
      BY <3>1, <3>2, Amounts
    <3> QED
      BY <2>1, <3>3 DEF Fits
  <2> QED
    BY <2>2, <2>3
<1> QED
  BY <1>3, <1>4, <1>5, <1>6, BudgetSteps

LEMMA KeepsFramesFit ==
  ASSUME BrokerAssumption, IInv, IInv', InPlace, LockInv, PendingCounted, FramesFit,
         NEW r \in Req, Move(r)
  PROVE  FramesFit'
<1>0. Others(r) /\ \A q \in Req : req'[q].size \in Nat /\ req[q].size \in Nat
  BY KeepsInPlace, Handlers DEF IInv, TypeInv, TypeOK, HandlerType
<1>1. CASE Admits(r)
  <2>1. /\ load'.pending = load.pending + 1 /\ load'.inflight = load.inflight + req[r].size
        /\ load'.bytes = load.bytes /\ tally'.accepted = tally.accepted
        /\ Checked(req[r]) /\ ~Checked(req'[r]) /\ ~Starting(r) /\ ~Starting(r)'
    BY <1>1, MemoryType DEF Admits, LinksJob, Moves, Checked, Starting, IInv, LoadType
  <2>2. \A q \in Req : ~Checked(req'[q])
    BY <1>0, <2>1, OneChecked DEF Others
  <2>3. Fits(1, req[r].size)
    BY <1>0, <2>1 DEF FramesFit
  <2>4. \A q \in Req : (Starting(q)' <=> Starting(q)) /\ (Starting(q) => req'[q] = req[q])
    BY <1>0, <2>1 DEF Others, Starting
  <2>5. CASE \A q \in Req : ~Starting(q)
    <3>1. /\ tally'.accepted + load'.pending + 0 <= MaxFrames
          /\ load'.bytes + load'.inflight + 0 <= MaxBytes
      BY <2>1, <2>3, <2>5, Amounts DEF Fits
    <3> QED
      BY <2>2, <2>4, <2>5, <3>1 DEF Fits, FramesFit
  <2>6. ASSUME NEW q \in Req, Starting(q),
               tally.accepted + load.pending + 1 <= MaxFrames + 1,
               load.bytes + load.inflight + req[r].size <= MaxBytes + req[q].size
        PROVE  FramesFit'
    <3>1. /\ tally'.accepted + load'.pending + 0 <= MaxFrames + 1
          /\ load'.bytes + load'.inflight + 0 <= MaxBytes + req'[q].size
      BY <2>1, <2>4, <2>6, Amounts
    <3> QED
      BY <2>2, <2>4, <2>6, <3>1 DEF Fits, FramesFit
  <2> QED
    BY <2>3, <2>5, <2>6 DEF Fits
<1>2. CASE ~Admits(r)
  <2>1. \A n, b \in Nat : Fits(n, b) => Fits(n, b)'
    BY <1>2, FitStays
  <2>2. Fits(0, 0)'
    BY <2>1 DEF FramesFit
  <2>3. ASSUME NEW q \in Req \ {r}, NEW b \in Nat, Checked(req'[q]), req'[q].size = b
        PROVE  Fits(1, b)'
    BY <1>0, <2>1, <2>3 DEF FramesFit, Others
  <2>4. ASSUME NEW b \in Nat, Checked(req'[r]), req'[r].size = b
        PROVE  Fits(1, b)'
    <3>1. CASE Uncounted(r)
      BY <1>0, <2>1, <2>4, <3>1 DEF Uncounted, FramesFit
    <3>2. CASE Checks(r)
      <4>1. /\ load' = load /\ tally'.accepted = tally.accepted
            /\ \A q \in Req : (Starting(q)' <=> Starting(q)) /\ (Starting(q) => req'[q] = req[q])
        BY <1>0, <3>2, MemoryType DEF Checks, Others, Starting, IInv, TallyType
      <4>2. /\ tally'.accepted + load'.pending + 1 <= MaxFrames
            /\ load'.bytes + load'.inflight + b <= MaxBytes
        BY <2>4, <3>2, <4>1, Amounts DEF Checks, OverBudget
      <4>3. \A q \in Req :
              /\ tally'.accepted + load'.pending + 1 <= MaxFrames + 1
              /\ load'.bytes + load'.inflight + b <= MaxBytes + req'[q].size
        <5>1. load'.bytes + load'.inflight + b \in Int /\ tally'.accepted + load'.pending + 1 \in Int
          BY <4>1, Amounts
        <5> QED
          BY <1>0, <4>2, <5>1, Amounts
      <4> QED
        BY <4>2, <4>3 DEF Fits
    <3>3. CASE LogsFirst(r)
      BY <2>4, <3>3 DEF LogsFirst, Works, Moves, Checked, IInv, TypeInv, WellPlaced
    <3>4. CASE LogsNext(r) \/ SavesRunning(r) \/ (Hears(r) /\ FrameJob(r))
      BY <2>4, <3>4, WriteOver
    <3> QED
      BY <1>2, <3>1, <3>2, <3>3, <3>4, BudgetSteps
  <2>5. \A q \in Req, b \in Nat : Checked(req[q])' /\ req'[q].size = b => Fits(1, b)'
    BY <2>3, <2>4 DEF Checked
  <2> QED
    BY <2>2, <2>5 DEF FramesFit
<1> QED
  BY <1>1, <1>2
\* What a link of the chain adds to the bytes in flight.
Amount(r) == IF r \in Persisting THEN req[r].size ELSE 0

\* A link is added.
LEMMA LinkChained ==
  ASSUME IInv, NEW r \in Req, Others(r), LinksJob(r), NEW d \in Nat, Amount(r)' = d,
         load'.inflight = load.inflight + d, BytesInFlight
  PROVE  BytesInFlight'
<1>1. PICK base : Chained(base)
  BY DEF BytesInFlight
<1>2. /\ tail.next \in Nat /\ tail.served \in Nat /\ tail.served <= tail.next
      /\ \A q \in Req : req[q].job # "none" => req[q].tailSeat \in Nat /\ req[q].tailSeat < tail.next
      /\ \A q \in Req : req[q].size \in Nat
  BY Seats, MemoryType, Handlers DEF IInv, HandlerType
<1>3. /\ base \in [Nat -> Nat] /\ \A i, j \in Nat : i <= j => base[i] <= base[j]
      /\ load.inflight = base[tail.next] - base[tail.served]
      /\ \A q \in Req : req[q].job # "none" =>
           base[req[q].tailSeat + 1] = base[req[q].tailSeat] + Amount(q)
  BY <1>1 DEF Chained, Amount
<1>4. PICK longer \in [Nat -> Nat] :
        \A i \in Nat : longer[i] = IF i <= tail.next THEN base[i] ELSE base[tail.next] + d
  <2>1. [i \in Nat |-> IF i <= tail.next THEN base[i] ELSE base[tail.next] + d] \in [Nat -> Nat]
    BY <1>2, <1>3
  <2> QED
    BY <2>1
<1>5. \A i, j \in Nat : i <= j => longer[i] <= longer[j]
  <2> SUFFICES ASSUME NEW i \in Nat, NEW j \in Nat, i <= j PROVE longer[i] <= longer[j]
    OBVIOUS
  <2>1. base[i] \in Nat /\ base[j] \in Nat /\ base[tail.next] \in Nat
    BY <1>2, <1>3
  <2>2. CASE j <= tail.next
    BY <1>2, <1>3, <1>4, <2>2
  <2>3. CASE i <= tail.next /\ j > tail.next
    <3>1. base[i] <= base[tail.next]
      BY <1>2, <1>3, <2>3
    <3> QED
      BY <1>2, <1>4, <2>1, <2>3, <3>1
  <2>4. CASE i > tail.next
    BY <1>2, <1>4, <2>1, <2>4
  <2> QED
    BY <1>2, <2>2, <2>3, <2>4
<1>6. tail'.next = tail.next + 1 /\ tail'.served = tail.served
  BY MemoryType DEF LinksJob, IInv
<1>7. load'.inflight = longer[tail'.next] - longer[tail'.served]
  <2>1. longer[tail.next + 1] = base[tail.next] + d /\ longer[tail.served] = base[tail.served]
    BY <1>2, <1>4
  <2>2. base[tail.next] \in Nat /\ base[tail.served] \in Nat
    BY <1>2, <1>3
  <2> QED
    BY <1>3, <1>6, <2>1, <2>2
<1>8. ASSUME NEW q \in Req, req'[q].job # "none"
      PROVE  longer[req'[q].tailSeat + 1] = longer[req'[q].tailSeat] + Amount(q)'
  <2>1. CASE q = r
    <3>1. req'[q].tailSeat = tail.next
      BY <2>1 DEF LinksJob
    <3>2. longer[tail.next + 1] = base[tail.next] + d /\ longer[tail.next] = base[tail.next]
      BY <1>2, <1>4
    <3> QED
      BY <2>1, <3>1, <3>2
  <2>2. CASE q # r
    <3>1. req'[q] = req[q] /\ Amount(q)' = Amount(q)
      BY <2>2 DEF Others, Amount, Persisting
    <3>2. req[q].tailSeat \in Nat /\ req[q].tailSeat + 1 <= tail.next
      BY <1>2, <1>8, <3>1
    <3>3. /\ longer[req[q].tailSeat + 1] = base[req[q].tailSeat + 1]
          /\ longer[req[q].tailSeat] = base[req[q].tailSeat]
      BY <1>2, <1>4, <3>2
    <3> QED
      BY <1>3, <1>8, <3>1, <3>3
  <2> QED
    BY <2>1, <2>2
<1>9. Chained(longer)'
  BY <1>4, <1>5, <1>7, <1>8 DEF Chained, Amount
<1> QED
  BY <1>9 DEF BytesInFlight

\* A link is over.
LEMMA LinkOver ==
  ASSUME IInv, NEW r \in Req, Others(r), req[r].job # "none", req[r].tailSeat = tail.served,
         req'[r].job = "none", tail' = [tail EXCEPT !.served = @ + 1],
         load'.inflight = load.inflight - Amount(r), BytesInFlight
  PROVE  BytesInFlight'
<1>1. PICK base : Chained(base)
  BY DEF BytesInFlight
<1>2. /\ tail.next \in Nat /\ tail.served \in Nat
      /\ tail'.next = tail.next /\ tail'.served = tail.served + 1
      /\ Amount(r) \in Nat
  BY MemoryType, Handlers DEF IInv, HandlerType, TicketType, Amount
<1>3. /\ base \in [Nat -> Nat] /\ \A i, j \in Nat : i <= j => base[i] <= base[j]
      /\ load.inflight = base[tail.next] - base[tail.served]
      /\ \A q \in Req : req[q].job # "none" =>
           base[req[q].tailSeat + 1] = base[req[q].tailSeat] + Amount(q)
  BY <1>1 DEF Chained, Amount
<1>4. load'.inflight = base[tail'.next] - base[tail'.served]
  <2>1. base[tail.served + 1] = base[tail.served] + Amount(r)
    BY <1>3
  <2>2. base[tail.next] \in Nat /\ base[tail.served] \in Nat
    BY <1>2, <1>3
  <2> QED
    BY <1>2, <1>3, <2>1, <2>2
<1>5. ASSUME NEW q \in Req, req'[q].job # "none"
      PROVE  base[req'[q].tailSeat + 1] = base[req'[q].tailSeat] + Amount(q)'
  <2>1. q # r /\ req'[q] = req[q] /\ Amount(q)' = Amount(q)
    BY <1>5 DEF Others, Amount, Persisting
  <2> QED
    BY <1>3, <1>5, <2>1
<1>6. Chained(base)'
  BY <1>3, <1>4, <1>5 DEF Chained, Amount
<1> QED
  BY <1>6 DEF BytesInFlight

LEMMA KeepsBytesInFlight ==
  ASSUME IInv, InPlace, PendingCounted, BytesInFlight, NEW r \in Req, Move(r)
  PROVE  BytesInFlight'
<1>0. /\ Others(r) /\ load.inflight \in Int
      /\ \A q \in Req : req[q].size \in Nat
  BY KeepsInPlace, MemoryType, Handlers DEF IInv, LoadType, HandlerType
<1>1. ASSUME tail' = tail, load'.inflight = load.inflight,
             req'[r].job # "none" => /\ req[r].job # "none" /\ req'[r].tailSeat = req[r].tailSeat
                                     /\ Amount(r)' = Amount(r)
      PROVE  BytesInFlight'
  <2>1. PICK base : Chained(base)
    BY DEF BytesInFlight
  <2>2. \A q \in Req \ {r} : req'[q] = req[q] /\ Amount(q)' = Amount(q)
    BY <1>0 DEF Others, Amount, Persisting
  <2>3. Chained(base)'
    BY <1>1, <2>1, <2>2 DEF Chained, Amount
  <2> QED
    BY <2>3 DEF BytesInFlight
<1>2. CASE Uncounted(r)
  <2>1. CASE tail' = tail
    <3>1. Amount(r)' = Amount(r)
      BY <1>2 DEF Uncounted, Amount
    <3>2. load'.inflight = load.inflight
      BY <1>2 DEF Uncounted
    <3>3. req'[r].job # "none" => req[r].job # "none" /\ req'[r].tailSeat = req[r].tailSeat
      <4>1. tail.served \in Nat /\ tail'.served = tail.served
        BY <2>1, MemoryType DEF IInv, TicketType
      <4>2. tail.next \in Nat /\ tail'.next = tail.next
        BY <2>1, MemoryType DEF IInv, TicketType
      <4>3. ~LinksJob(r)
        BY <4>2, MemoryType DEF LinksJob, IInv, TicketType
      <4>4. tail' # [tail EXCEPT !.served = @ + 1]
        BY <4>1, MemoryType DEF IInv, TicketType
      <4> QED
        BY <1>2, <4>3, <4>4 DEF Uncounted
    <3> QED
      BY <1>1, <2>1, <3>1, <3>2, <3>3
  <2>2. CASE LinksJob(r) /\ r \notin Persisting
    <3>1. Amount(r)' = 0 /\ load'.inflight = load.inflight + 0
      BY <1>0, <1>2, <2>2 DEF Uncounted, Amount
    <3> QED
      BY <1>0, <2>2, <3>1, LinkChained
  <2>3. CASE /\ tail' = [tail EXCEPT !.served = @ + 1] /\ req'[r].job = "none"
             /\ req[r].job # "none" /\ req[r].tailSeat = tail.served /\ r \notin Persisting
    <3>1. load'.inflight = load.inflight - Amount(r)
      BY <1>0, <1>2, <2>3 DEF Uncounted, Amount
    <3> QED
      BY <1>0, <2>3, <3>1, LinkOver
  <2> QED
    BY <1>2, <2>1, <2>2, <2>3 DEF Uncounted
<1>3. CASE Checks(r)
  BY <1>1, <1>3 DEF Checks
<1>4. CASE Admits(r)
  <2>1. /\ LinksJob(r) /\ load'.inflight = load.inflight + req[r].size /\ Amount(r)' = req[r].size
    BY <1>4, MemoryType DEF Admits, Moves, Carries, Amount, Persisting, IInv, LoadType
  <2> QED
    BY <1>0, <2>1, LinkChained
<1>5. CASE LogsFirst(r)
  <2>1. /\ tail' = tail /\ load'.inflight = load.inflight /\ req[r].job # "none"
        /\ req'[r].tailSeat = req[r].tailSeat /\ Amount(r)' = Amount(r)
    BY <1>5, MemoryType DEF LogsFirst, Works, Moves, Carries, Amount, Persisting, IInv, LoadType
  <2> QED
    BY <1>1, <2>1
<1>6. CASE LogsNext(r) \/ SavesRunning(r) \/ (Hears(r) /\ FrameJob(r))
  <2>1. /\ req'[r].job = "none" /\ req[r].job # "none" /\ req[r].tailSeat = tail.served
        /\ tail' = [tail EXCEPT !.served = @ + 1]
        /\ load'.inflight = load.inflight - Amount(r)
    BY <1>6, WriteOver DEF Amount
  <2> QED
    BY <1>0, <2>1, LinkOver
<1> QED
  BY <1>2, <1>3, <1>4, <1>5, <1>6, BudgetSteps

LEMMA KeepsBudgetInv ==
  ASSUME BrokerAssumption, IInv, IInv', InPlace, LockInv, BudgetInv, NEW r \in Req, Move(r)
  PROVE  BudgetInv'
BY KeepsPendingCounted, KeepsFramesFit, KeepsBytesInFlight DEF BudgetInv

LEMMA BudgetsKept ==
  ASSUME BrokerAssumption, IInv, BudgetInv PROVE BudgetsRespected
<1>0. /\ \A q \in Req : req[q].size \in Nat
      /\ tail.next \in Nat /\ tail.served \in Nat /\ tail.served <= tail.next
  BY Seats, MemoryType, Handlers DEF IInv, HandlerType
<1>1. PICK base : Chained(base)
  BY DEF BudgetInv, BytesInFlight
<1>2. /\ base \in [Nat -> Nat] /\ \A i, j \in Nat : i <= j => base[i] <= base[j]
      /\ load.inflight = base[tail.next] - base[tail.served]
  BY <1>1 DEF Chained
<1>3. base[tail.next] \in Nat /\ base[tail.served] \in Nat /\ load.inflight >= 0
  <2>1. base[tail.served] <= base[tail.next] /\ base[tail.next] \in Nat /\ base[tail.served] \in Nat
    BY <1>0, <1>2
  <2> QED
    BY <1>2, <2>1
<1>4. Persisting \in SUBSET Req /\ load.pending = Cardinality(Persisting)
  BY DEF Persisting, BudgetInv, PendingCounted
<1>5. ASSUME NEW r \in Req, Starting(r)
      PROVE  load.pending >= 1 /\ load.inflight >= req[r].size
  <2>1. r \in Persisting /\ req[r].tailSeat = tail.served /\ tail.served + 1 <= tail.next
    BY <1>0, <1>5, Begun, Seats DEF Starting, Persisting, IInv, TypeInv, WellPlaced
  <2>2. load.pending >= 1
    BY <1>4, <2>1, OneMore
  <2>3. base[tail.served + 1] = base[tail.served] + req[r].size
    BY <1>1, <1>5, <2>1 DEF Chained, Starting
  <2>4. base[tail.served + 1] <= base[tail.next]
    BY <1>0, <1>2, <2>1
  <2>5. req[r].size \in Nat
    BY <1>0
  <2> QED
    BY <1>2, <1>3, <2>2, <2>3, <2>4, <2>5
<1>6. load.pending \in 0..QueueCapacity
  <2>1. IsFiniteSet(Persisting)
    BY <1>4, FinitelyMany, FS_Subset
  <2>2. load.pending \in Nat
    BY <1>4, <2>1, FS_CardinalityType
  <2> QED
    BY <2>2 DEF BudgetInv, PendingCounted, BrokerAssumption
<1>7. tally.accepted <= MaxFrames /\ load.bytes <= MaxBytes
  <2>1. CASE /\ tally.accepted + load.pending + 0 <= MaxFrames
             /\ load.bytes + load.inflight + 0 <= MaxBytes
    BY <1>3, <1>6, <2>1, Amounts DEF BrokerAssumption
  <2>2. ASSUME NEW r \in Req, Starting(r),
               tally.accepted + load.pending + 0 <= MaxFrames + 1,
               load.bytes + load.inflight + 0 <= MaxBytes + req[r].size
        PROVE  tally.accepted <= MaxFrames /\ load.bytes <= MaxBytes
    BY <1>5, <2>2, Amounts
  <2> QED
    BY <2>1, <2>2 DEF BudgetInv, FramesFit, Fits
<1> QED
  BY <1>3, <1>6, <1>7 DEF BudgetsRespected
-----------------------------------------------------------------------------
(* 9. The frames in hand.                                                    *)

\* A frame that was counted as received and not yet as accepted.
Held(h) == /\ h.kind = "frame" /\ h.job # "starting"
           /\ h.pc \in {"flushScroll", "flushPointer", "admit", "persisting"}

HandCounted ==
  ~Over => tally.rejected = 0 /\ tally.received = tally.accepted + Cardinality(InHand)

\* A step that counts no frame.
Countless(r) == tally' = tally /\ (Held(req'[r]) <=> Held(req[r]))

LEMMA HandSteps ==
  ASSUME IInv, InPlace, StateInv, NEW r \in Req, Move(r), ~Over, ~Over'
  PROVE  \/ Countless(r)
         \/ Checks(r) /\ ~Held(req[r]) /\ Held(req'[r])
         \/ /\ tally' = [tally EXCEPT !.accepted = @ + 1]
            /\ Held(req[r]) /\ ~Held(req'[r])
<1>0. /\ WellPlaced(req[r]) /\ Placed(req[r])
      /\ phase \notin {"stopped", "failed"} /\ phase' \notin {"stopped", "failed"}
  BY DEF IInv, TypeInv, InPlace, Over
<1>1. CASE Arrives(r) \/ Stumbles(r) \/ Closes(r)
  BY <1>1 DEF Arrives, Stumbles, Closes, Countless, Held
<1>2. CASE Claims(r) \/ Fails(r) \/ Stops(r)
  BY <1>0, <1>2 DEF Claims, Fails, Stops, Switches, Countless, Held
<1>3. CASE Saves(r)
  BY <1>0, <1>3 DEF Saves, Moves, Countless, Held, WellPlaced
<1>4. CASE Goes(r)
  <2>1. Held(req'[r]) <=> Held(req[r])
    BY <1>0, <1>4 DEF Goes, Moves, Onward, Held, WellPlaced
  <2>2. req[r].kind \in {"frame", "stop"} => Trusted(req[r])
    BY <1>4 DEF Goes, Onward, Trusted
  <2>3. tally' = tally
    BY <1>4, <2>2, TrustedClaimed DEF Goes
  <2> QED
    BY <2>1, <2>3 DEF Countless
<1>5. CASE Queues(r)
  BY <1>0, <1>5 DEF Queues, LinksJob, Moves, Onward, Countless, Held, WellPlaced
<1>6. CASE Joins(r) \/ Unlocks(r) \/ Summarizes(r) \/ Publishes(r)
  BY <1>0, <1>6 DEF Joins, Unlocks, Summarizes, AtSummary, Settled, Publishes, Moves, Done,
                    Countless, Held
<1>7. CASE Checks(r)
  BY <1>7 DEF Checks, Held
<1>8. CASE Admits(r)
  BY <1>8 DEF Admits, LinksJob, Moves, Countless, Held
<1>9. CASE BeginsFrame(r) \/ BeginsEvent(r) \/ Images(r) \/ LogsEvent(r)
  <2>1. tally' = tally
    BY <1>9 DEF BeginsFrame, BeginsEvent, Images, LogsEvent, memory
  <2>2. Held(req'[r]) <=> Held(req[r])
    BY <1>9 DEF BeginsFrame, BeginsEvent, Images, LogsEvent, Works, Moves, Held
  <2> QED
    BY <2>1, <2>2 DEF Countless
<1>10. CASE LogsFirst(r)
  BY <1>0, <1>10 DEF LogsFirst, LogsLine, Works, Moves, Held, FrameJob, WellPlaced
<1>11. CASE LogsNext(r)
  BY <1>0, <1>11 DEF LogsNext, LogsLine, SettlesFrame, Moves, Held
<1>12. CASE SavesRunning(r)
  BY <1>0, <1>12 DEF SavesRunning, SettlesFrame, Moves, Countless, Held
<1>13. CASE Breaks(r) \/ Hears(r)
  BY <1>0, <1>13 DEF Breaks, Hears
<1> QED
  BY <1>1, <1>2, <1>3, <1>4, <1>5, <1>6, <1>7, <1>8, <1>9, <1>10, <1>11, <1>12, <1>13 DEF Move

LEMMA KeepsHandCounted ==
  ASSUME BrokerAssumption, IInv, InPlace, StateInv, HandCounted, NEW r \in Req, Move(r)
  PROVE  HandCounted'
<1> SUFFICES ASSUME ~Over'
             PROVE  /\ tally'.rejected = 0
                    /\ tally'.received = tally'.accepted + Cardinality(InHand')
  BY DEF HandCounted
<1>1. ~Over
  BY PhaseSteps DEF Over
<1>2. /\ Others(r) /\ tally \in TallyType
      /\ tally.rejected = 0 /\ tally.received = tally.accepted + Cardinality(InHand)
  BY <1>1, KeepsInPlace, MemoryType DEF IInv, HandCounted
<1>3. /\ InHand \in SUBSET Req /\ InHand' \in SUBSET Req
      /\ \A q \in Req : (q \in InHand <=> Held(req[q])) /\ (q \in InHand' <=> Held(req'[q]))
  BY DEF InHand, Frames, Held
<1>4. \A q \in Req \ {r} : q \in InHand <=> q \in InHand'
  BY <1>2, <1>3 DEF Others
<1>5. CASE Countless(r)
  <2>1. Cardinality(InHand') = Cardinality(InHand)
    BY <1>3, <1>4, <1>5, OneMore DEF Countless
  <2> QED
    BY <1>2, <1>5, <2>1 DEF Countless
<1>6. CASE Checks(r) /\ ~Held(req[r]) /\ Held(req'[r])
  <2>1. Cardinality(InHand') = Cardinality(InHand) + 1 /\ Cardinality(InHand) \in Nat
    BY <1>3, <1>4, <1>6, OneMore
  <2>2. /\ tally'.rejected = tally.rejected /\ tally'.accepted = tally.accepted
        /\ tally'.received = tally.received + 1
    BY <1>2, <1>6 DEF Checks, TallyType
  <2> QED
    BY <1>2, <2>1, <2>2 DEF TallyType
<1>7. CASE /\ tally' = [tally EXCEPT !.accepted = @ + 1]
           /\ Held(req[r]) /\ ~Held(req'[r])
  <2>1. Cardinality(InHand') = Cardinality(InHand) - 1 /\ Cardinality(InHand) \in Nat
    BY <1>3, <1>4, <1>7, OneMore
  <2>2. /\ tally'.rejected = tally.rejected /\ tally'.received = tally.received
        /\ tally'.accepted = tally.accepted + 1
    BY <1>2, <1>7 DEF TallyType
  <2> QED
    BY <1>2, <2>1, <2>2 DEF TallyType
<1> QED
  BY <1>1, <1>5, <1>6, <1>7, HandSteps

-----------------------------------------------------------------------------
(* 10. The theorems.                                                         *)

LedgerInv == /\ IInv /\ InPlace
             /\ StateInv /\ LogsInv /\ CloseInv /\ LockInv /\ BudgetInv /\ HandCounted

LEMMA InitLedger == ASSUME BrokerAssumption, Init PROVE LedgerInv
<1>0. \A r \in Req : req[r] = Idle
  BY DEF Init
<1>1. /\ Idle.pc = "idle" /\ Idle.job = "none" /\ Idle.reply = NoReply /\ NoReply # 200
      /\ Idle.draft.status = "none" /\ Idle.kind = "none"
  BY IdleFields DEF NoReply
<1>2. /\ phase = "ready" /\ stateFile = "ready" /\ summary.status = "none"
      /\ frameLog = <<>> /\ observedLog = <<>>
      /\ load = [pending |-> 0, inflight |-> 0, bytes |-> 0, frames |-> 0]
      /\ gate.seq = 0
      /\ tally = [received |-> 0, accepted |-> 0, acked |-> 0, rejected |-> 0]
      /\ lock = [next |-> 0, served |-> 0] /\ tail = [next |-> 0, served |-> 0]
  BY DEF Init, NoSummary
<1>3. IInv
  BY InitSafe
<1> HIDE DEF Init
<1>4. InPlace
  BY <1>0, <1>1 DEF InPlace, Placed
<1>5. StateInv
  BY <1>0, <1>1, <1>2 DEF StateInv, OneClaim, Claimed, TokenFirst, Trusted, Savers, FileSays
<1>6. LogsInv
  BY <1>0, <1>1, <1>2 DEF LogsInv, FramesInOrder, EventsInOrder, AtImage, Appending,
                          FramesReceived, Bound, ClicksLogged, Over
<1>7. CloseInv
  BY <1>0, <1>1, <1>2 DEF CloseInv, ReportsOver, Reporting, DecidedQuiet, Decided, Closing
<1>8. LockInv
  BY <1>0, <1>1, <1>2 DEF LockInv, InLock
<1>9. BudgetInv
  <2>0. Persisting = {}
    BY <1>0, <1>1 DEF Persisting
  <2>1. Cardinality(Persisting) = 0
    BY <2>0, FS_EmptySet
  <2>2. PendingCounted
    BY <1>0, <1>1, <1>2, <2>0, <2>1 DEF PendingCounted, Checked, BrokerAssumption
  <2>3. FramesFit
    BY <1>0, <1>1, <1>2 DEF FramesFit, Fits, Starting, Checked, BrokerAssumption
  <2>4. Chained([i \in Nat |-> 0])
    BY <1>0, <1>1, <1>2 DEF Chained
  <2> QED
    BY <2>2, <2>3, <2>4 DEF BudgetInv, BytesInFlight
<1>10. HandCounted
  <2>0. InHand = {}
    BY <1>0, <1>1 DEF InHand, Frames
  <2>1. Cardinality(InHand) = 0
    BY <2>0, FS_EmptySet
  <2> QED
    BY <1>2, <2>1 DEF HandCounted
<1> QED
  BY <1>3, <1>4, <1>5, <1>6, <1>7, <1>8, <1>9, <1>10 DEF LedgerInv

\* What time and idleness leave alone.
LEMMA RestLedger ==
  ASSUME LedgerInv, IInv',
         UNCHANGED <<req, phase, clock, tally, load, gate, lock, tail, stateFile, summary,
                     images, frameLog, observedLog>>
  PROVE  LedgerInv'
<1>1. InPlace'
  BY DEF LedgerInv, InPlace
<1>2. StateInv'
  BY DEF LedgerInv, StateInv, OneClaim, Claimed, TokenFirst, TokenIssued, At, Savers, FileSays, Over
<1>3. LogsInv'
  BY DEF LedgerInv, LogsInv, FramesInOrder, EventsInOrder, AtImage, Appending, FramesReceived,
         ClicksLogged, ClickLine, At, Over
<1>4. CloseInv'
  BY DEF LedgerInv, CloseInv, ReportsOver, DecidedQuiet, Closing, Concluding, LastWord, AtRest,
         Writing, Over
<1>5. LockInv' /\ HandCounted'
  BY DEF LedgerInv, LockInv, HandCounted, InHand, Frames, Over
<1>6. BudgetInv'
  BY DEF LedgerInv, BudgetInv, PendingCounted, FramesFit, Fits, Starting, BytesInFlight, Chained,
         Persisting
<1> QED
  BY <1>1, <1>2, <1>3, <1>4, <1>5, <1>6 DEF LedgerInv

LEMMA StepLedger == ASSUME BrokerAssumption, LedgerInv, [Next]_vars PROVE LedgerInv'
<1>1. IInv'
  BY StepSafe DEF LedgerInv
<1>2. CASE Tick \/ UNCHANGED vars
  <2>1. UNCHANGED <<req, phase, clock, tally, load, gate, lock, tail, stateFile, summary,
                    images, frameLog, observedLog>>
    BY <1>2 DEF Tick, vars, memory, disk, logs
  <2> QED
    BY <1>1, <2>1, RestLedger
<1>3. ASSUME NEW r \in Req, Environment(r) \/ Callback(r) \/ Continuation(r)
      PROVE  LedgerInv'
  <2>1. /\ IInv /\ InPlace /\ StateInv /\ LogsInv /\ CloseInv /\ LockInv /\ BudgetInv
        /\ HandCounted /\ PendingCounted
    BY DEF LedgerInv, BudgetInv
  <2>2. Move(r)
    BY <1>3, <2>1, StepMove DEF InPlace
  <2>3. TypeInv'
    BY <1>1 DEF IInv
  <2>4. InPlace' /\ StateInv' /\ LogsInv' /\ CloseInv'
    BY <2>1, <2>2, <2>3, KeepsInPlace, KeepsStateInv, KeepsLogsInv, KeepsCloseInv
  <2>5. LockInv' /\ BudgetInv' /\ HandCounted'
    BY <1>1, <2>1, <2>2, KeepsLockInv, KeepsBudgetInv, KeepsHandCounted
  <2> QED
    BY <1>1, <2>4, <2>5 DEF LedgerInv
<1> QED
  BY <1>2, <1>3 DEF Next

\* In every reachable state the handlers, the two queues, the logs, the
\* counters, the state file and the last summary fit together (capture-broker.ts).
THEOREM Ledger == Spec => []LedgerInv
<1>1. Init => LedgerInv
  BY InitLedger, BrokerAssumption
<1>2. LedgerInv /\ [Next]_vars => LedgerInv'
  BY StepLedger, BrokerAssumption
<1> QED
  BY <1>1, <1>2, PTL DEF Spec

\* Whenever the process dies, the two logs can be replayed: every line of a
\* frame names an image in place, numbers have no gap and offsets increase,
\* although requests overtake each other between their receipt and their turn
\* (capture-broker.ts /frame, persistObservedDirect).
THEOREM LogsCanBeReplayed == Spec => []LogsReplayable
<1>1. LedgerInv => LogsReplayable
  BY DEF LedgerInv, LogsInv, FramesInOrder, EventsInOrder, LogsReplayable
<1> QED
  BY <1>1, Ledger, PTL

\* A click answered 200 has its line in the log (capture-broker.ts /click).
THEOREM ClicksAreDurable == Spec => []AckedClicksDurable
<1>1. LedgerInv => AckedClicksDurable
  BY DEF LedgerInv, LogsInv, ClicksLogged, ClickLine, AckedClicksDurable
<1> QED
  BY <1>1, Ledger, PTL

\* Once nobody is about to write it, broker-state.json is stale at most about a
\* failure, although whoever changes the phase writes it when it gets to
\* (capture-broker.ts setPhase, onPhase).
THEOREM StateFileIsCurrent == Spec => []StateFileCurrent
<1>1. LedgerInv => StateFileCurrent
  BY DEF LedgerInv, StateInv, Savers, FileSays, StateFileCurrent
<1> QED
  BY <1>1, Ledger, PTL

\* close() of a live capture leaves a failed one and the summary that counts
\* every line of the log, whatever else reports meanwhile (capture-broker.ts close).
THEOREM CloseHasTheLastWord == Spec => []CloseFailsLiveCapture
<1>1. LedgerInv => CloseFailsLiveCapture
  BY DEF LedgerInv, CloseInv, Closing, Concluding, LastWord, CloseFailsLiveCapture
<1> QED
  BY <1>1, Ledger, PTL

\* The queue, the frames and the bytes stay within their budgets, although a
\* frame is checked before it is queued and counted after it is written
\* (capture-broker.ts /frame).
THEOREM BudgetsHold == Spec => []BudgetsRespected
<1>1. LedgerInv => BudgetsRespected
  BY BudgetsKept, BrokerAssumption DEF LedgerInv
<1> QED
  BY <1>1, Ledger, PTL

\* While the capture is live no frame has been refused, and every frame that
\* was let in is in the log or still being handled (capture-broker.ts /frame).
THEOREM NoFrameIsDropped == Spec => []NoSilentDrop
<1>1. LedgerInv => NoSilentDrop
  BY DEF LedgerInv, HandCounted, NoSilentDrop, Live, Over
<1> QED
  BY <1>1, Ledger, PTL

-----------------------------------------------------------------------------
(* 11. The scrolls of a mailbox that posts one request at a time.            *)

Busy(r) == req[r].pc \notin {"idle", "done"}
Alone == \A q, r \in Req : (q # r /\ Busy(q)) => ~Busy(r)

\* A scroll that passed the checks, and /stop between its flush and its verdict.
Posting(h) == h.kind = "scroll" /\ h.pc \in {"flushPointer", "place", "set"}
Emptied(h) == /\ h.kind = "stop" /\ h.reply = NoReply
              /\ \/ h.pc \in {"flushPointer", "drain", "draining"}
                 \/ h.pc = "saving" /\ h.next = "drain"

\* Where an accepted scroll can be: in the log, pending, or in a job.
Accepted(r) == req[r].kind = "scroll" /\ req[r].reply = 200
InLog(r) == \E i \in DOMAIN observedLog : r \in observedLog[i].from
Bears(h, r) == h.job \in {"queued", "appending"} /\ h.pc # "persisting" /\ r \in h.event.from
Accounted(r) == InLog(r) \/ r \in pending["scroll"].from \/ \E q \in Req : Bears(req[q], r)

ScrollInv ==
  /\ Alone
  /\ \A r \in Req : Posting(req[r]) => ~StopDecided
  /\ \A r \in Req : (Posting(req[r]) /\ req[r].pc = "set") => pending["scroll"] = NoEvent
  /\ \A r \in Req : Emptied(req[r]) => pending["scroll"] = NoEvent \/ phase = "failed"
  /\ StopDecided => \A r \in Req : Accepted(r) => InLog(r)
  /\ phase # "failed" => \A r \in Req : Accepted(r) => Accounted(r)

\* What becomes of the pending scroll: it stays, or goes into a job, or takes in r.
Stays(r) ==
  /\ pending'["scroll"] = pending["scroll"]
  /\ (req[r].job = "none" /\ req[r].pc = "flushScroll") => pending["scroll"] = NoEvent
  /\ (req[r].job = "none" /\ req[r].kind = "scroll" /\ req[r].pc \in {"place", "set"}) =>
       \/ req'[r].pc = "saving"
       \/ req'[r].pc = "set" /\ pending["scroll"] = NoEvent
Leaves(r) ==
  /\ req[r].job = "none" /\ req'[r].job = "queued" /\ req'[r].pc # "persisting"
  /\ req'[r].event = pending["scroll"] /\ pending'["scroll"] = NoEvent
TakesIn(r) ==
  /\ Posting(req[r]) /\ req'[r].job = "none" /\ req'[r].pc = "done"
  /\ req[r].pc = "set" \/ pending["scroll"].from \subseteq pending'["scroll"].from
  /\ r \in pending'["scroll"].from

LEMMA FlushShelf ==
  ASSUME TypeInv, NEW r \in Req, NEW k \in {"scroll", "pointer"}, NEW pc,
         req[r].job = "none", Flush(r, k, pc), pc \notin {"done", "persisting"}
  PROVE  /\ req'[r].pc = pc
         /\ k = "pointer" => pending'["scroll"] = pending["scroll"]
         /\ k = "scroll" => \/ pending["scroll"] = NoEvent /\ pending' = pending
                            \/ Leaves(r)
<1>0. pending \in PendingType
  BY MemoryType
<1>1. CASE pending[k] = NoEvent
  <2>1. req'[r].pc = pc
    BY <1>1, StepMoves DEF Flush, Moves
  <2> QED
    BY <1>1, <2>1 DEF Flush
<1>2. CASE pending[k] # NoEvent
  <2>1. req'[r].pc = pc /\ req'[r].job = "queued" /\ req'[r].event = pending[k]
    BY <1>2, EnqueueMoves DEF Flush, Moves, LinksJob
  <2>2. pending' = [pending EXCEPT ![k] = NoEvent]
    BY <1>2 DEF Flush
  <2> QED
    BY <1>0, <2>1, <2>2 DEF Leaves, PendingType
<1> QED
  BY <1>1, <1>2

LEMMA Shelf ==
  ASSUME IInv, NEW r \in Req, Environment(r) \/ Callback(r) \/ Continuation(r)
  PROVE  Stays(r) \/ Leaves(r) \/ TakesIn(r)
<1>0. TypeInv /\ pending \in PendingType /\ WellPlaced(req[r])
  BY MemoryType DEF IInv, TypeInv
<1>1. CASE FlushScroll(r)
  <2>1. /\ req[r].job = "none" /\ req[r].pc = "flushScroll"
        /\ Flush(r, "scroll", IF req[r].kind = "pointer" THEN "place" ELSE "flushPointer")
    BY <1>1 DEF FlushScroll, At
  <2>2. (pending["scroll"] = NoEvent /\ pending' = pending) \/ Leaves(r)
    BY <1>0, <2>1, FlushShelf
  <2> QED
    BY <2>1, <2>2 DEF Stays
<1>2. CASE FlushPointer(r)
  <2>1. /\ req[r].job = "none" /\ req[r].pc = "flushPointer"
        /\ req[r].kind \in {"scroll", "click", "frame", "stop"}
        /\ Flush(r, "pointer", AfterFlushPointer(req[r].kind))
    BY <1>0, <1>2 DEF FlushPointer, At, WellPlaced
  <2>2. AfterFlushPointer(req[r].kind) \notin {"done", "persisting"}
    BY <2>1 DEF AfterFlushPointer
  <2>3. pending'["scroll"] = pending["scroll"]
    BY <1>0, <2>1, <2>2, FlushShelf
  <2> QED
    BY <2>1, <2>3 DEF Stays
<1>3. CASE FlushOwn(r)
  <2>1. /\ req[r].job = "none" /\ req[r].pc = "place" /\ req[r].kind \in {"scroll", "pointer"}
        /\ Flush(r, req[r].kind, "set")
    BY <1>0, <1>3 DEF FlushOwn, At, WellPlaced
  <2>2. /\ req'[r].pc = "set"
        /\ req[r].kind = "pointer" => pending'["scroll"] = pending["scroll"]
        /\ req[r].kind = "scroll" => \/ pending["scroll"] = NoEvent /\ pending' = pending
                                     \/ Leaves(r)
    BY <1>0, <2>1, FlushShelf
  <2> QED
    BY <2>1, <2>2 DEF Stays
<1>4. CASE Coalesce(r)
  <2>1. req[r].job = "none" /\ req[r].pc = "place" /\ req[r].kind \in {"scroll", "pointer"}
    BY <1>0, <1>4 DEF Coalesce, At, WellPlaced
  <2>2. CASE SetPhase(r, "failed", 429, "done") /\ UNCHANGED pending
    <3>1. req'[r].pc = "saving"
      BY <1>0, <2>1, <2>2, SetPhaseSwitches DEF Switches
    <3> QED
      BY <2>1, <2>2, <3>1 DEF Stays
  <2>3. CASE Answer(r, 200) /\ req[r].kind = "pointer"
    BY <1>0, <1>4, <2>1, <2>3 DEF Coalesce, Stays, PendingType
  <2>4. CASE Answer(r, 200) /\ req[r].kind = "scroll"
             /\ pending' = [pending EXCEPT !["scroll"] =
                   [Sample(r) EXCEPT !.from = pending["scroll"].from \cup {r}]]
    <3>1. req'[r].pc = "done" /\ req'[r].job = "none"
      BY <1>0, <2>1, <2>4, AnswerMoves DEF Moves, Done
    <3>2. pending'["scroll"].from = pending["scroll"].from \cup {r}
      BY <1>0, <2>4 DEF PendingType, Sample
    <3> QED
      BY <2>1, <2>4, <3>1, <3>2 DEF TakesIn, Posting
  <2> QED
    BY <1>4, <2>1, <2>2, <2>3, <2>4 DEF Coalesce
<1>5. CASE SetPending(r)
  <2>1. req[r].job = "none" /\ req[r].pc = "set" /\ req[r].kind \in {"scroll", "pointer"}
        /\ pending' = [pending EXCEPT ![req[r].kind] = Sample(r)]
    BY <1>0, <1>5 DEF SetPending, At, WellPlaced
  <2>2. req'[r].pc = "done" /\ req'[r].job = "none"
    BY <1>0, <1>5, <2>1, AnswerMoves DEF SetPending, Moves, Done
  <2>3. CASE req[r].kind = "scroll"
    <3>1. pending'["scroll"].from = {r}
      BY <1>0, <2>1, <2>3 DEF PendingType, Sample
    <3> QED
      BY <2>1, <2>2, <2>3, <3>1 DEF TakesIn, Posting
  <2>4. CASE req[r].kind = "pointer"
    BY <1>0, <2>1, <2>4 DEF Stays, PendingType
  <2> QED
    BY <2>1, <2>3, <2>4
<1>6. ASSUME UNCHANGED pending, req[r].job # "none" \/ req[r].pc \notin {"flushScroll", "place", "set"}
      PROVE  Stays(r)
  BY <1>6 DEF Stays
<1>7. CASE Environment(r)
  BY <1>6, <1>7 DEF Environment, Arrive, ArriveOnBadClock, Close, NextUp, memory
<1>8. CASE \/ Refuse(r) \/ Claim(r) \/ Fail(r) \/ Challenge(r) \/ ObservedEvent(r)
           \/ EnterFrame(r) \/ EnterStop(r) \/ PhaseSaved(r) \/ Publish(r) \/ StopListening(r)
           \/ Closed(r)
  BY <1>6, <1>8 DEF Refuse, Claim, Fail, Challenge, ObservedEvent, EnterFrame, EnterStop,
                    PhaseSaved, Publish, StopListening, Closed, Dispatched, At, memory
<1>9. CASE \/ WriteImage(r) \/ AppendFrame(r) \/ RunningSaved(r) \/ AppendObserved(r)
           \/ DiskFault(r) \/ FailureSaved(r) \/ StartFrame(r) \/ StartObserved(r) \/ RefuseJob(r)
  BY <1>6, <1>9 DEF WriteImage, AppendFrame, RunningSaved, AppendObserved, DiskFault, ThrowJob,
                    FailureSaved, StartFrame, StartObserved, RefuseJob, JobTurn, memory
<1>10. CASE \/ QueueClick(r) \/ AnswerClick(r) \/ CheckFrame(r) \/ AdmitFrame(r) \/ Unlock(r)
            \/ CheckStop(r) \/ Drain(r)
  BY <1>6, <1>10 DEF QueueClick, AnswerClick, CheckFrame, AdmitFrame, Unlock, CheckStop, Drain,
                     At, memory
<1>11. CASE EventsLost(r) \/ Verdict(r) \/ Summarize(r)
  BY <1>6, <1>11 DEF EventsLost, Verdict, AtVerdict, Summarize, AtSummary, Settled, memory
<1> QED
  BY <1>1, <1>2, <1>3, <1>4, <1>5, <1>7, <1>8, <1>9, <1>10, <1>11 DEF Callback, Continuation

\* Whoever moves is the only one at work.
LEMMA MovesAlone ==
  ASSUME IInv, InPlace, Alone, NEW r \in Req, Move(r), req[r].pc = "idle" => Quiet(r)
  PROVE  /\ Others(r) /\ Alone' /\ req[r].pc # "done"
         /\ \A q \in Req \ {r} : ~Busy(q) /\ req[q].job = "none"
<1>0. Others(r) /\ req[r].pc # "done"
  BY KeepsInPlace, Acts
<1>1. \A q \in Req \ {r} : ~Busy(q)
  BY <1>0 DEF Alone, Quiet, Busy
<1>2. \A q \in Req : req[q].job # "none" => Busy(q)
  BY DEF IInv, TypeInv, WellPlaced, Busy
<1> QED
  BY <1>0, <1>1, <1>2 DEF Alone, Others, Busy

\* A capture is decided to have stopped by the verdict of a /stop.
LEMMA VerdictDecides ==
  ASSUME IInv, InPlace, NEW r \in Req, Move(r), StopDecided'
  PROVE  StopDecided \/ Stops(r)
<1>0. Others(r) /\ NoSummary.status = "none"
  BY KeepsInPlace DEF NoSummary
<1>1. SUFFICES ASSUME ~StopDecided, ~Stops(r) PROVE ~StopDecided'
  OBVIOUS
<1>2. phase' # "stopped"
  BY <1>1, PhaseSteps DEF StopDecided
<1>3. /\ summary.status # "stopped" /\ phase # "stopped"
      /\ \A q \in Req : req[q].draft.status # "stopped"
  BY <1>1 DEF StopDecided
<1>4. SUFFICES req'[r].draft.status # "stopped" /\ summary'.status # "stopped"
  BY <1>0, <1>2, <1>3 DEF StopDecided, Others
<1>5. CASE Arrives(r) \/ Stumbles(r) \/ Closes(r) \/ Claims(r) \/ Fails(r)
  BY <1>3, <1>5 DEF Arrives, Stumbles, Closes, Claims, Fails, Switches
<1>6. CASE Saves(r) \/ Goes(r) \/ Admits(r) \/ Queues(r) \/ Unlocks(r)
  BY <1>0, <1>3, <1>6 DEF Saves, Goes, Admits, Queues, Unlocks, Moves, Carries
<1>7. CASE Joins(r) \/ Checks(r) \/ Summarizes(r)
  BY <1>3, <1>7 DEF Joins, Checks, Summarizes
<1>8. CASE Publishes(r)
  BY <1>0, <1>3, <1>8 DEF Publishes, Moves, Carries
<1>9. CASE \/ BeginsFrame(r) \/ BeginsEvent(r) \/ Images(r) \/ LogsEvent(r) \/ LogsFirst(r)
           \/ Breaks(r)
  BY <1>0, <1>3, <1>9 DEF BeginsFrame, BeginsEvent, Images, LogsEvent, LogsFirst, LogsLine,
                          Breaks, Works, Moves, Carries, disk
<1>10. CASE LogsNext(r) \/ SavesRunning(r) \/ Hears(r)
  BY <1>0, <1>3, <1>10 DEF LogsNext, LogsLine, SavesRunning, Hears, SettlesFrame, Moves, Carries
<1> QED
  BY <1>1, <1>5, <1>6, <1>7, <1>8, <1>9, <1>10 DEF Move

LEMMA InLogStays ==
  ASSUME IInv, NEW r \in Req, Move(r), NEW s \in Req, InLog(s) PROVE InLog(s)'
<1>1. CASE LogsEvent(r)
  <2>1. observedLog \in Seq(ObservedLine)
    BY DEF IInv, TypeInv, TypeOK
  <2>2. PICK i \in DOMAIN observedLog : s \in observedLog[i].from
    BY DEF InLog
  <2>3. PICK l : observedLog' = Append(observedLog, l)
    BY <1>1 DEF LogsEvent
  <2>4. i \in DOMAIN observedLog' /\ observedLog'[i] = observedLog[i]
    BY <2>1, <2>2, <2>3
  <2> QED
    BY <2>2, <2>4 DEF InLog
<1>2. CASE ~LogsEvent(r)
  <2>1. UNCHANGED observedLog
    BY <1>2, LogSteps DEF Plain, SameLogs, BeginsFrame, BeginsEvent, Images, LogsFirst, LogsNext,
                          LogsLine, disk
  <2> QED
    BY <2>1 DEF InLog
<1> QED
  BY <1>1, <1>2

\* A scroll is accepted as it is taken in.
LEMMA ScrollAnswers ==
  ASSUME IInv, InPlace, NEW r \in Req, Move(r), Stays(r) \/ Leaves(r) \/ TakesIn(r), Accepted(r)'
  PROVE  Accepted(r) \/ TakesIn(r)
<1>0. WellPlaced(req[r]) /\ (req[r].pc = "idle" => req[r].reply = NoReply) /\ NoReply # 200
  BY IdleFields DEF IInv, TypeInv, InPlace, NoReply
<1>1. req'[r].kind = "scroll" /\ req'[r].reply = 200
  BY DEF Accepted
<1>2. CASE Arrives(r) \/ Stumbles(r) \/ Closes(r)
  BY <1>0, <1>1, <1>2 DEF Arrives, Stumbles, Closes
<1>3. CASE Claims(r) \/ Fails(r) \/ Stops(r)
  BY <1>1, <1>3 DEF Claims, Fails, Stops, Switches, AfterFailure
<1>4. CASE Saves(r) \/ Admits(r) \/ Queues(r) \/ Unlocks(r) \/ Publishes(r)
  BY <1>1, <1>4 DEF Saves, Admits, Queues, Unlocks, Publishes, Moves, Accepted
<1>5. CASE Goes(r)
  <2>1. \/ req[r].kind = "scroll" /\ req[r].reply = 200
        \/ /\ req[r].kind = "scroll" /\ req[r].pc \in {"place", "set"} /\ req'[r].pc = "done"
           /\ req[r].job = "none" /\ req'[r].job = "none"
    BY <1>1, <1>5 DEF Goes, Moves
  <2> QED
    BY <2>1 DEF Stays, Leaves, Accepted
<1>6. CASE Joins(r) \/ Checks(r) \/ Summarizes(r)
  BY <1>1, <1>6 DEF Joins, Checks, Summarizes, Accepted
<1>7. CASE \/ BeginsFrame(r) \/ BeginsEvent(r) \/ Images(r) \/ LogsEvent(r) \/ LogsFirst(r)
           \/ Breaks(r)
  BY <1>1, <1>7 DEF BeginsFrame, BeginsEvent, Images, LogsEvent, LogsFirst, Breaks, Works, Moves,
                    Accepted
<1>8. CASE LogsNext(r) \/ SavesRunning(r) \/ Hears(r)
  BY <1>0, <1>1, <1>8 DEF LogsNext, SavesRunning, Hears, SettlesFrame, Moves, WellPlaced, FrameJob
<1> QED
  BY <1>2, <1>3, <1>4, <1>5, <1>6, <1>7, <1>8 DEF Move

\* A job carries its event to the log, unless the capture fails.
LEMMA CarriedOn ==
  ASSUME IInv, NEW r \in Req, Move(r), NEW s \in Req, Bears(req[r], s), phase' # "failed"
  PROVE  InLog(s)' \/ Bears(req'[r], s)
<1>0. /\ WellPlaced(req[r]) /\ req[r].job \in {"queued", "appending"} /\ ~FrameJob(r)
      /\ s \in req[r].event.from /\ req[r].pc \notin {"idle", "persisting"}
  BY DEF IInv, TypeInv, Bears, FrameJob, WellPlaced
<1>1. \/ BeginsEvent(r) \/ LogsEvent(r)
  <2>1. ~(Arrives(r) \/ Stumbles(r) \/ Closes(r))
    BY <1>0 DEF Arrives, Stumbles, Closes
  <2>2. ~(Claims(r) \/ Fails(r) \/ Stops(r) \/ Saves(r) \/ Goes(r) \/ Joins(r) \/ Checks(r))
    BY <1>0 DEF Claims, Fails, Stops, Switches, Saves, Goes, Joins, Checks
  <2>3. ~(Admits(r) \/ Queues(r) \/ Unlocks(r) \/ Summarizes(r) \/ Publishes(r))
    BY <1>0 DEF Admits, Queues, LinksJob, Unlocks, Summarizes, AtSummary, Publishes
  <2>4. ~(BeginsFrame(r) \/ Images(r) \/ LogsFirst(r) \/ LogsNext(r) \/ SavesRunning(r))
    BY <1>0 DEF BeginsFrame, Images, LogsFirst, LogsNext, SavesRunning, Works
  <2>5. ~(Breaks(r) \/ Hears(r))
    BY DEF Breaks, Hears
  <2> QED
    BY <2>1, <2>2, <2>3, <2>4, <2>5 DEF Move
<1>2. CASE BeginsEvent(r)
  BY <1>0, <1>2 DEF BeginsEvent, Works, Moves, Bears
<1>3. CASE LogsEvent(r)
  <2> DEFINE l == [seq |-> gate.seq, type |-> req[r].event.type, offset |-> clock.observed,
                   from |-> req[r].event.from]
             n == Len(observedLog)
  <2>1. observedLog \in Seq(ObservedLine) /\ observedLog' = Append(observedLog, l)
    BY <1>3 DEF LogsEvent, IInv, TypeInv, TypeOK
  <2>2. s \in l.from
    BY <1>0
  <2> HIDE DEF l
  <2>3. n + 1 \in DOMAIN observedLog' /\ observedLog'[n + 1] = l
    BY <2>1
  <2> QED
    BY <2>2, <2>3 DEF InLog
<1> QED
  BY <1>1, <1>2, <1>3

\* What the verdict of a serial mailbox finds: nothing is pending.
LEMMA VerdictFindsAll ==
  ASSUME IInv, ScrollInv, NEW r \in Req, Stops(r),
         \A q \in Req \ {r} : req[q].job = "none",
         NEW s \in Req, Accepted(s)
  PROVE  InLog(s)
<1>1. /\ req[r].kind = "stop" /\ phase = "running" /\ req[r].job = "none"
      /\ req[r].reply = NoReply /\ req[r].pc = "draining"
  BY DEF Stops, AtVerdict, Settled, IInv, FailingMeansFailed
<1>2. pending["scroll"] = NoEvent /\ NoEvent.from = {}
  BY <1>1 DEF ScrollInv, Emptied, NoEvent
<1>3. Accounted(s)
  BY <1>1 DEF ScrollInv
<1> QED
  BY <1>1, <1>2, <1>3 DEF Accounted, Bears

LEMMA KeepsScrollInv ==
  ASSUME IInv, InPlace, StateInv, ScrollInv, NEW r \in Req, Move(r),
         Stays(r) \/ Leaves(r) \/ TakesIn(r), req[r].pc = "idle" => Quiet(r)
  PROVE  ScrollInv'
<1>0. /\ Others(r) /\ Alone' /\ req[r].pc # "done" /\ WellPlaced(req[r])
      /\ \A q \in Req \ {r} : /\ ~Busy(q) /\ req[q].job = "none" /\ req'[q] = req[q]
                              /\ ~Posting(req[q]) /\ ~Emptied(req[q])
      /\ req[r].pc = "idle" => req[r].reply = NoReply /\ req[r].kind = "none"
      /\ NoEvent.from = {}
  <2>1. /\ Others(r) /\ Alone' /\ req[r].pc # "done"
        /\ \A q \in Req \ {r} : ~Busy(q) /\ req[q].job = "none"
    BY MovesAlone DEF ScrollInv
  <2>2. WellPlaced(req[r]) /\ (req[r].pc = "idle" => req[r] = Idle) /\ NoEvent.from = {}
    BY DEF IInv, TypeInv, InPlace, NoEvent
  <2> QED
    BY <2>1, <2>2, IdleFields DEF Others, Busy, Posting, Emptied
<1>1. ASSUME Posting(req'[r]) PROVE ~StopDecided'
  <2>1. Posting(req[r]) \/ Live
    <3>1. CASE Goes(r)
      BY <1>0, <1>1, <3>1 DEF Goes, Moves, Onward, Posting, WellPlaced
    <3>2. CASE Queues(r)
      BY <1>0, <1>1, <3>2 DEF Queues, Moves, Onward, Posting, WellPlaced
    <3>3. CASE Arrives(r) \/ Stumbles(r) \/ Closes(r) \/ Claims(r) \/ Fails(r) \/ Stops(r)
      BY <1>1, <3>3 DEF Arrives, Stumbles, Closes, Claims, Fails, Stops, Switches, Posting
    <3>4. CASE Saves(r) \/ Joins(r) \/ Checks(r) \/ Admits(r) \/ Unlocks(r)
               \/ Summarizes(r) \/ Publishes(r)
      BY <1>0, <1>1, <3>4 DEF Saves, Joins, Checks, Admits, Unlocks, Summarizes, Publishes, Moves,
                              Done, Posting, WellPlaced
    <3>5. CASE \/ BeginsFrame(r) \/ BeginsEvent(r) \/ Images(r) \/ LogsEvent(r) \/ LogsFirst(r)
               \/ Breaks(r)
      BY <1>1, <3>5 DEF BeginsFrame, BeginsEvent, Images, LogsEvent, LogsFirst, Breaks, Works,
                        Moves, Posting
    <3>6. CASE LogsNext(r) \/ SavesRunning(r) \/ Hears(r)
      BY <1>1, <3>6 DEF LogsNext, SavesRunning, Hears, SettlesFrame, Moves, Done, Posting
    <3> QED
      BY <3>1, <3>2, <3>3, <3>4, <3>5, <3>6 DEF Move
  <2>2. ~StopDecided
    BY <2>1 DEF ScrollInv, IInv, Frozen, Live
  <2>3. ~Stops(r)
    BY <1>1 DEF Stops, Switches, Posting
  <2> QED
    BY <2>2, <2>3, VerdictDecides
<1>2. ASSUME Posting(req'[r]), req'[r].pc = "set" PROVE pending'["scroll"] = NoEvent
  <2>1. \/ Posting(req[r]) /\ req[r].pc = "set" /\ req[r].job # "none"
        \/ Posting(req[r]) /\ req[r].pc = "place" /\ req[r].job = "none"
    <3>1. CASE Goes(r)
      BY <1>2, <3>1 DEF Goes, Moves, Onward, Posting
    <3>2. CASE Queues(r)
      BY <1>0, <1>2, <3>2 DEF Queues, LinksJob, Moves, Onward, Posting, WellPlaced
    <3>3. CASE Arrives(r) \/ Stumbles(r) \/ Closes(r) \/ Claims(r) \/ Fails(r) \/ Stops(r)
      BY <1>2, <3>3 DEF Arrives, Stumbles, Closes, Claims, Fails, Stops, Switches
    <3>4. CASE Saves(r) \/ Joins(r) \/ Checks(r) \/ Admits(r) \/ Unlocks(r)
               \/ Summarizes(r) \/ Publishes(r)
      BY <1>0, <1>2, <3>4 DEF Saves, Joins, Checks, Admits, Unlocks, Summarizes, Publishes, Moves,
                              Done, WellPlaced
    <3>5. CASE \/ BeginsFrame(r) \/ BeginsEvent(r) \/ Images(r) \/ LogsEvent(r) \/ LogsFirst(r)
               \/ Breaks(r)
      BY <1>2, <3>5 DEF BeginsFrame, BeginsEvent, Images, LogsEvent, LogsFirst, Breaks, Works,
                        Moves, Posting
    <3>6. CASE LogsNext(r) \/ SavesRunning(r) \/ Hears(r)
      BY <1>2, <3>6 DEF LogsNext, SavesRunning, Hears, SettlesFrame, Moves, Done
    <3> QED
      BY <3>1, <3>2, <3>3, <3>4, <3>5, <3>6 DEF Move
  <2> QED
    BY <1>2, <2>1 DEF ScrollInv, Stays, Leaves, TakesIn, Posting
<1>3. ASSUME Emptied(req'[r]) PROVE pending'["scroll"] = NoEvent \/ phase' = "failed"
  <2>1. phase = "failed" => phase' = "failed"
    BY PhaseSteps
  <2>2. \/ Emptied(req[r]) \/ phase' = "failed"
        \/ req[r].kind = "stop" /\ req[r].pc = "flushScroll" /\ req[r].job = "none"
    <3>1. CASE Goes(r)
      BY <1>3, <3>1 DEF Goes, Moves, Onward, Emptied
    <3>2. CASE Queues(r)
      BY <1>3, <3>2 DEF Queues, LinksJob, Moves, Onward, Emptied
    <3>3. CASE Arrives(r) \/ Stumbles(r) \/ Closes(r) \/ Claims(r) \/ Fails(r) \/ Stops(r)
      BY <1>0, <1>3, <3>3 DEF Arrives, Stumbles, Closes, Claims, Fails, Stops, Switches, Emptied
    <3>4. CASE Saves(r) \/ Joins(r) \/ Checks(r) \/ Admits(r) \/ Unlocks(r)
               \/ Summarizes(r) \/ Publishes(r)
      BY <1>0, <1>3, <3>4 DEF Saves, Joins, Checks, Admits, Unlocks, Summarizes, Publishes, Moves,
                              Done, Emptied, WellPlaced
    <3>5. CASE \/ BeginsFrame(r) \/ BeginsEvent(r) \/ Images(r) \/ LogsEvent(r) \/ LogsFirst(r)
               \/ Breaks(r)
      BY <1>0, <1>3, <3>5 DEF BeginsFrame, BeginsEvent, Images, LogsEvent, LogsFirst, Breaks, Works,
                        Moves, Carries, Emptied, WellPlaced
    <3>6. CASE LogsNext(r) \/ SavesRunning(r) \/ Hears(r)
      BY <1>3, <3>6 DEF LogsNext, SavesRunning, Hears, SettlesFrame, Moves, Done, Emptied
    <3> QED
      BY <3>1, <3>2, <3>3, <3>4, <3>5, <3>6 DEF Move
  <2>3. ~TakesIn(r)
    BY <1>3 DEF TakesIn, Emptied
  <2> QED
    BY <2>1, <2>2, <2>3 DEF ScrollInv, Stays, Leaves
<1>4. \A s \in Req : Accepted(s)' => Accepted(s) \/ (s = r /\ TakesIn(r))
  BY <1>0, ScrollAnswers DEF Accepted
<1>5. ASSUME StopDecided', NEW s \in Req, Accepted(s)' PROVE InLog(s)'
  <2>1. ~TakesIn(r)
    <3>1. ASSUME TakesIn(r) PROVE ~StopDecided /\ ~Stops(r)
      BY <3>1 DEF TakesIn, ScrollInv, Stops, Switches
    <3> QED
      BY <1>5, <3>1, VerdictDecides
  <2>2. Accepted(s)
    BY <1>4, <1>5, <2>1
  <2>3. InLog(s)
    BY <1>0, <1>5, <2>2, VerdictDecides, VerdictFindsAll DEF ScrollInv
  <2> QED
    BY <2>3, InLogStays
<1>6. ASSUME phase' # "failed", NEW s \in Req, Accepted(s)' PROVE Accounted(s)'
  <2>1. phase # "failed"
    BY <1>6, PhaseSteps
  <2>2. CASE s = r /\ TakesIn(r)
    BY <2>2 DEF TakesIn, Accounted
  <2>3. CASE Accepted(s) /\ InLog(s)
    BY <2>3, InLogStays DEF Accounted
  <2>4. CASE s \in pending["scroll"].from
    <3>1. CASE Stays(r)
      BY <2>4, <3>1 DEF Stays, Accounted
    <3>2. CASE Leaves(r)
      BY <2>4, <3>2 DEF Leaves, Accounted, Bears
    <3>3. CASE TakesIn(r)
      BY <1>0, <2>4, <3>3 DEF TakesIn, ScrollInv, Accounted
    <3> QED
      BY <3>1, <3>2, <3>3
  <2>5. ASSUME NEW q \in Req, Bears(req[q], s) PROVE Accounted(s)'
    <3>1. q = r
      BY <1>0, <2>5 DEF Bears
    <3> QED
      BY <1>6, <2>5, <3>1, CarriedOn DEF Accounted
  <2> QED
    BY <1>4, <1>6, <2>1, <2>2, <2>3, <2>4, <2>5 DEF ScrollInv, Accounted
<1> QED
  <2>1. \A q \in Req : Posting(req'[q]) => ~StopDecided'
    BY <1>0, <1>1
  <2>2. \A q \in Req : Posting(req'[q]) /\ req'[q].pc = "set" => pending'["scroll"] = NoEvent
    BY <1>0, <1>2
  <2>3. \A q \in Req : Emptied(req'[q]) => pending'["scroll"] = NoEvent \/ phase' = "failed"
    BY <1>0, <1>3
  <2> QED
    BY <1>0, <1>5, <1>6, <2>1, <2>2, <2>3 DEF ScrollInv

LEMMA SerialStep ==
  ASSUME BrokerAssumption, LedgerInv, ScrollInv,
         [Next /\ \A r \in Req : Arriving(r) => Quiet(r)]_vars
  PROVE  LedgerInv' /\ ScrollInv'
<1>1. LedgerInv'
  BY StepLedger
<1>2. CASE Tick \/ UNCHANGED vars
  <2>1. UNCHANGED <<req, phase, pending, summary, observedLog>>
    BY <1>2 DEF Tick, vars, memory, disk, logs
  <2> QED
    BY <1>1, <2>1 DEF ScrollInv, Alone, Busy, StopDecided, Accepted, InLog, Accounted
<1>3. ASSUME NEW r \in Req, Environment(r) \/ Callback(r) \/ Continuation(r),
             Arriving(r) => Quiet(r)
      PROVE  ScrollInv'
  <2>1. IInv /\ InPlace /\ StateInv
    BY DEF LedgerInv
  <2>2. Move(r) /\ (Stays(r) \/ Leaves(r) \/ TakesIn(r))
    BY <1>3, <2>1, StepMove, Shelf DEF InPlace
  <2>3. req[r].pc = "idle" => Quiet(r)
    BY <1>3, <2>1, <2>2, Acts DEF Arriving, Arrives, Stumbles, Closes
  <2> QED
    BY <2>1, <2>2, <2>3, KeepsScrollInv
<1> QED
  BY <1>1, <1>2, <1>3 DEF Next

\* When the mailbox posts one request at a time, every scroll the broker
\* accepted is in the log of a capture that stopped: it is merged into the
\* pending one, queued before the next event, or flushed by /stop before its
\* verdict (capture-broker.ts /observed-event, flushPendingScroll, /stop).
THEOREM ScrollsAreKept == SerialSpec => []ScrollsKept
<1>1. Init => LedgerInv /\ ScrollInv
  <2>1. Init => LedgerInv
    BY InitLedger, BrokerAssumption
  <2>2. ASSUME Init PROVE ScrollInv
    <3>1. /\ \A r \in Req : req[r] = Idle
          /\ phase = "ready" /\ summary.status = "none"
      BY <2>2 DEF Init, NoSummary
    <3>2. /\ Idle.pc = "idle" /\ Idle.kind = "none" /\ Idle.draft.status = "none"
      BY IdleFields
    <3> QED
      BY <3>1, <3>2 DEF ScrollInv, Alone, Busy, Posting, Emptied, StopDecided, Accepted
  <2> QED
    BY <2>1, <2>2
<1>2. (LedgerInv /\ ScrollInv) /\ [Next /\ \A r \in Req : Arriving(r) => Quiet(r)]_vars
      => (LedgerInv /\ ScrollInv)'
  BY SerialStep, BrokerAssumption
<1>3. LedgerInv /\ ScrollInv => ScrollsKept
  BY DEF ScrollInv, ScrollsKept, StopDecided, Accepted, InLog
<1> QED
  BY <1>1, <1>2, <1>3, PTL DEF SerialSpec
=============================================================================
