---------------------------- MODULE BrowserCapture ----------------------------
(***************************************************************************)
(* The capture that runs inside the browser host: browser/                 *)
(* capture-runtime.js.  It registers a capture by its config path, queues  *)
(* screencast frames for one worker that writes, acknowledges and logs     *)
(* them, and at stop writes the summary the session is sealed from.        *)
(*                                                                         *)
(* One root is captured once: a start is retried only when the one before  *)
(* was rejected, for a second capture would number its images from 1 again *)
(* and append to the same log.  The client awaits start before it stops.   *)
(***************************************************************************)
EXTENDS Integers, Sequences

CONSTANTS
  SoftOccupancy,  \* DEGRADE_OCCUPANCY in queued frames
  HardOccupancy,  \* FAIL_OCCUPANCY in queued frames
  MaxDelivered,   \* bound: frames the page delivers
  MaxStarts       \* bound: calls of startBrowserCapture

VARIABLES
  capture,   \* state: its status, counters and degradation
  writer,    \* the worker and the frame it is at
  life,      \* registration, listener, and the start and stop calls
  files      \* frames/raw, capture-events.jsonl and capture-summary.json

browserVars == <<capture, writer, life, files>>

NewCapture == [status |-> "starting", queue |-> <<>>, received |-> 0, accepted |-> 0,
               acked |-> 0, rejected |-> 0, degraded |-> "no", verdict |-> "none"]
NoFiles == [images |-> {}, log |-> <<>>, summary |-> [status |-> "none", accepted |-> 0, acked |-> 0]]

BrowserInit ==
  /\ capture = NewCapture
  /\ writer = [pc |-> "none", frame |-> 0]
  /\ life = [starts |-> 0, start |-> "none", registered |-> FALSE, listening |-> FALSE, stop |-> "none"]
  /\ files = NoFiles

BrowserTypeOK ==
  /\ capture \in [status: {"starting", "running", "stopped", "failed"},
                  queue: Seq(1..MaxDelivered), received: 0..MaxDelivered,
                  accepted: 0..MaxDelivered, acked: 0..MaxDelivered,
                  rejected: 0..(2 * MaxDelivered), degraded: {"no", "sent", "answered"},
                  verdict: {"none", "stopped", "failed"}]
  /\ writer \in [pc: {"none", "writing", "acking", "logging", "health"}, frame: 0..MaxDelivered]
  /\ life \in [starts: 0..MaxStarts, start: {"none", "checked", "sent", "done", "rejected"},
               registered: BOOLEAN, listening: BOOLEAN,
               stop: {"none", "worker", "command", "summary", "done", "threw"}]
  /\ files.images \subseteq 1..MaxDelivered

-----------------------------------------------------------------------------
(* startBrowserCapture. *)

\* The duplicate check, before directories and the CDP session are awaited.
StartCapture ==
  /\ life.starts < MaxStarts /\ ~life.registered /\ life.start \in {"none", "rejected"}
  /\ life' = [life EXCEPT !.starts = @ + 1, !.start = "checked"]
  /\ UNCHANGED <<capture, writer, files>>

Register ==
  /\ life.start = "checked"
  /\ capture' = NewCapture
  /\ life' = [life EXCEPT !.start = "sent", !.registered = TRUE, !.listening = TRUE]
  /\ UNCHANGED <<writer, files>>

OpenFails ==
  /\ life.start = "checked"
  /\ life' = [life EXCEPT !.start = "rejected"]
  /\ UNCHANGED <<capture, writer, files>>

Started ==
  /\ life.start = "sent"
  /\ capture' = [capture EXCEPT !.status = "running"]
  /\ life' = [life EXCEPT !.start = "done"]
  /\ UNCHANGED <<writer, files>>

CaptureRejected ==
  /\ life.start = "sent"
  /\ life' = [life EXCEPT !.start = "rejected", !.registered = FALSE, !.listening = FALSE]
  /\ UNCHANGED <<capture, writer, files>>

-----------------------------------------------------------------------------
(* Frames. *)

\* fail: the listener goes, the worker takes nothing more.
Failed(c) == [c EXCEPT !.status = "failed"]
Deaf(l) == [l EXCEPT !.listening = FALSE]
FailNow(c) ==
  /\ capture' = Failed(c)
  /\ life' = IF c.status = "failed" THEN life ELSE Deaf(life)

\* startWorker, or the worker's next turn.
Turn(c) ==
  IF c.queue # <<>> /\ c.status # "failed"
  THEN /\ capture' = [c EXCEPT !.queue = Tail(@)]
       /\ writer' = [pc |-> "writing", frame |-> Head(c.queue)]
  ELSE /\ capture' = c
       /\ writer' = [pc |-> "none", frame |-> 0]

Received == [capture EXCEPT !.received = @ + 1]

\* Frames that come before start has its answer are dropped, unacknowledged.
DropFrame ==
  /\ capture.status # "running"
  /\ UNCHANGED <<capture, writer, life>>

RefuseFrame ==
  /\ capture.status = "running"
  /\ FailNow([Received EXCEPT !.rejected = @ + 1])
  /\ UNCHANGED writer

AcceptFrame ==
  /\ capture.status = "running" /\ Len(capture.queue) + 1 <= HardOccupancy
  /\ LET accepted == capture.accepted + 1
         soft == Len(capture.queue) + 1 > SoftOccupancy /\ capture.degraded = "no"
         c == [Received EXCEPT !.accepted = accepted, !.queue = Append(@, accepted),
                               !.degraded = IF soft THEN "sent" ELSE @]
     IN IF writer.pc = "none" THEN Turn(c) ELSE capture' = c /\ UNCHANGED writer
  /\ UNCHANGED life

Deliver ==
  /\ life.listening /\ capture.received < MaxDelivered
  /\ DropFrame \/ RefuseFrame \/ AcceptFrame
  /\ UNCHANGED files

Degraded ==
  /\ capture.degraded = "sent"
  /\ \/ capture' = [capture EXCEPT !.degraded = "answered"] /\ UNCHANGED life
     \/ FailNow([capture EXCEPT !.degraded = "answered"])
  /\ UNCHANGED <<writer, files>>

-----------------------------------------------------------------------------
(* The worker: image, acknowledgement, frame event, health event.           *)

WriteImage ==
  /\ writer.pc = "writing"
  /\ files' = [files EXCEPT !.images = @ \cup {writer.frame}]
  /\ writer' = [writer EXCEPT !.pc = "acking"]
  /\ UNCHANGED <<capture, life>>

Acknowledge ==
  /\ writer.pc = "acking"
  /\ capture' = [capture EXCEPT !.acked = @ + 1]
  /\ writer' = [writer EXCEPT !.pc = "logging"]
  /\ UNCHANGED <<life, files>>

LogFrame ==
  /\ writer.pc = "logging"
  /\ files' = [files EXCEPT !.log = Append(@, writer.frame)]
  /\ writer' = [writer EXCEPT !.pc = "health"]
  /\ UNCHANGED <<capture, life>>

\* The health event; an answer later than ACK_TIMEOUT_US fails the capture.
LogHealth ==
  /\ writer.pc = "health"
  /\ \/ Turn(capture) /\ UNCHANGED life
     \/ Turn(Failed(capture)) /\ life' = Deaf(life)
  /\ UNCHANGED files

\* A write, the acknowledgement or an append fails.
WorkerFault ==
  /\ writer.pc # "none"
  /\ Turn(Failed([capture EXCEPT !.rejected = @ + 1]))
  /\ life' = Deaf(life)
  /\ UNCHANGED files

-----------------------------------------------------------------------------
(* stopBrowserCapture: one promise for every caller. *)

EndCapture ==
  /\ life.start = "done" /\ life.registered /\ life.stop = "none"
  /\ life' = [life EXCEPT !.listening = FALSE, !.stop = "worker"]
  /\ UNCHANGED <<capture, writer, files>>

\* Mutant: stop does not wait for the worker.
AwaitWorker_NotAtAll ==
  /\ life.stop = "worker"
  /\ life' = [life EXCEPT !.stop = "command"]
  /\ UNCHANGED <<capture, writer, files>>

AwaitWorker ==
  /\ life.stop = "worker" /\ writer.pc = "none"
  /\ life' = [life EXCEPT !.stop = "command"]
  /\ UNCHANGED <<capture, writer, files>>

Incomplete == capture.accepted = 0 \/ capture.acked # capture.accepted \/ capture.rejected # 0

\* The verdict when Page.stopScreencast is answered. The text of the summary is made
\* with it: a degradation refused later changes what the caller gets and not the file.
CaptureStopped ==
  /\ life.stop = "command"
  /\ life' = [life EXCEPT !.stop = "summary"]
  /\ LET verdict == IF capture.status = "failed" \/ Incomplete THEN "failed" ELSE "stopped"
     IN capture' = [capture EXCEPT !.status = verdict, !.verdict = verdict]
  /\ UNCHANGED <<writer, files>>

\* The command or the write fails. The capture stays registered: every later stop has
\* the same rejection.
StopFails ==
  /\ life.stop \in {"command", "summary"}
  /\ life' = [life EXCEPT !.stop = "threw"]
  /\ UNCHANGED <<capture, writer, files>>

SaveSummary ==
  /\ life.stop = "summary"
  /\ files' = [files EXCEPT !.summary = [status |-> capture.verdict,
                  accepted |-> capture.accepted, acked |-> capture.acked]]
  /\ life' = [life EXCEPT !.stop = "done", !.registered = FALSE]
  /\ UNCHANGED <<capture, writer>>

BrowserNext ==
  \/ StartCapture \/ Register \/ OpenFails \/ Started \/ CaptureRejected
  \/ Deliver \/ Degraded
  \/ WriteImage \/ Acknowledge \/ LogFrame \/ LogHealth \/ WorkerFault
  \/ EndCapture \/ AwaitWorker \/ CaptureStopped \/ StopFails \/ SaveSummary

BrowserSpec == BrowserInit /\ [][BrowserNext]_browserVars

-----------------------------------------------------------------------------
(* Properties. *)

\* A summary that says "stopped" is true of the files: the log holds the frame events of
\* exactly the accepted frames, in order, at least one, and every one has its image.
SummaryIsTrue ==
  files.summary.status = "stopped" =>
    /\ files.summary.accepted > 0 /\ files.summary.acked = files.summary.accepted
    /\ files.log = [i \in 1..files.summary.accepted |-> i]
    /\ files.images = 1..files.summary.accepted
==============================================================================
