-------------------------- MODULE SessionLifecycle --------------------------
(***************************************************************************)
(* One recording session from creation to delivery or discard: the session *)
(* store (src/session/index.ts), the registry of capture brokers           *)
(* (session-store-broker.ts), the owner token and the session calls of     *)
(* session-store-service.ts, and the evidence checks and publication of    *)
(* render/sealed-session.ts.                                               *)
(*                                                                         *)
(* An action is the code between two awaits that touch shared state. Reads *)
(* that decide nothing together are one step. The broker is what           *)
(* CaptureBroker promises: a phase, a summary, one evidence line a frame.  *)
(* A client uses one server at a time and turns to another when it crashes.*)
(***************************************************************************)
EXTENDS Integers, Sequences, FiniteSets

CONSTANTS
  Servers,     \* server processes that boot in one artifact root
  Calls,       \* the calls the client makes on the session
  None,        \* no server, no call, no token
  MaxBrokers,  \* bound: brokers started for the session
  MaxFrames,   \* bound: frames a broker accepts
  MaxCrashes,  \* bound: server crashes
  Orderly      \* whether the client inspects only while it makes no other call

ASSUME LifecycleConstants ==
  /\ None \notin Servers \cup Calls
  /\ MaxBrokers \in Nat \ {0} /\ MaxFrames \in Nat \ {0} /\ MaxCrashes \in Nat
  /\ Orderly \in BOOLEAN

VARIABLES
  token,    \* the owner token file
  dir,      \* the session's directories and the files in them
  server,   \* each process: boot state, its token, its registry entry, its session lock
  broker,   \* the brokers started so far, in order
  call,     \* the calls of the client
  home,     \* the server the client talks to
  crashes

vars == <<token, dir, server, broker, call, home, crashes>>

CallKinds == {"create", "record", "inspect", "seal", "discard"}
Locked == {"record", "seal", "discard"}
BrokerIds == 1..MaxBrokers
BrokerPhases == {"ready", "claimed", "running", "stopped", "failed"}

\* broker-state.json says "interrupted" for failed without a reason: what ensureBroker
\* writes; a broker's own failure has a reason. A summary says whose capture it describes.
Summary == [status: {"none", "stopped", "failed", "interrupted"}, by: 0..MaxBrokers,
            frames: 0..MaxFrames]
NoSummary == [status |-> "none", by |-> 0, frames |-> 0]

Dir == [root: BOOLEAN, helpers: BOOLEAN, meta: {"none", "active", "sealed"},
        wrapper: 0..MaxBrokers, phase: BrokerPhases \cup {"none", "interrupted"},
        summary: Summary, telemetry: Seq(Calls), evidence: Seq(BrokerIds),
        artifacts: {"none", "made", "video", "manifest", "report"}]
NoDir == [root |-> FALSE, helpers |-> FALSE, meta |-> "none", wrapper |-> 0,
          phase |-> "none", summary |-> NoSummary, telemetry |-> <<>>, evidence |-> <<>>,
          artifacts |-> "none"]

Pcs == {"idle", "lock", "create", "state", "load", "start", "wrap", "undo", "mark", "look",
        "explain", "ensured", "append", "save", "evidence", "seal", "close", "discard",
        "remove", "render", "publish", "video", "manifest", "report", "done", "failed"}

\* A call: where it stands, its broker while it starts one, the telemetry it will write.
Call == [kind: CallKinds \cup {"none"}, pc: Pcs, broker: 0..MaxBrokers, lines: Seq(Calls)]
NoCall == [kind |-> "none", pc |-> "idle", broker |-> 0, lines |-> <<>>]

Process == [pc: {"boot", "link", "up"}, token: Servers \cup {None}, reg: 0..MaxBrokers,
            queue: Seq(Calls)]
Booting == [pc |-> "boot", token |-> None, reg |-> 0, queue |-> <<>>]

Broker == [up: BOOLEAN, phase: BrokerPhases, frames: 0..MaxFrames, owes: BOOLEAN]

TypeOK ==
  /\ token \in Servers \cup {None}
  /\ dir \in Dir
  /\ server \in [Servers -> Process]
  /\ broker \in Seq(Broker) /\ Len(broker) <= MaxBrokers
  /\ call \in [Calls -> Call]
  /\ home \in Servers /\ crashes \in 0..MaxCrashes

Init ==
  /\ token = None
  /\ dir = NoDir
  /\ server = [s \in Servers |-> Booting]
  /\ broker = <<>>
  /\ call = [c \in Calls |-> NoCall]
  /\ home \in Servers
  /\ crashes = 0

-----------------------------------------------------------------------------
(* The owner token: whoever links its file first gives the root its owner.  *)

BootRead(s) ==
  /\ server[s].pc = "boot"
  /\ server' = [server EXCEPT ![s] = IF token = None THEN [@ EXCEPT !.pc = "link"]
                                     ELSE [@ EXCEPT !.pc = "up", !.token = token]]
  /\ UNCHANGED <<token, dir, broker, call, home, crashes>>

BootLink_Renames(s) ==
  /\ server[s].pc = "link"
  /\ token' = s
  /\ server' = [server EXCEPT ![s].pc = "up", ![s].token = s]
  /\ UNCHANGED <<dir, broker, call, home, crashes>>

BootLink(s) ==
  /\ server[s].pc = "link"
  /\ IF token = None
     THEN /\ token' = s
          /\ server' = [server EXCEPT ![s].pc = "up", ![s].token = s]
     ELSE /\ server' = [server EXCEPT ![s].pc = "boot"]
          /\ UNCHANGED token
  /\ UNCHANGED <<dir, broker, call, home, crashes>>

-----------------------------------------------------------------------------
(* Calls. Each runs at home; record, seal and discard wait their turn in     *)
(* the session lock, a chain of promises.                                    *)

Me == server[home]
Reg == Me.reg
Owned == dir.root /\ dir.helpers /\ dir.meta # "none" /\ Me.token = token

At(c, pc) == Me.pc = "up" /\ call[c].pc = pc
Goto(c, pc) == call' = [call EXCEPT ![c].pc = pc]

\* serial: the finally of a locked call passes the lock on.
Leave(c) == IF call[c].kind \in Locked THEN [server EXCEPT ![home].queue = Tail(@)] ELSE server
End_KeepsLock(c, how) ==
  /\ call' = [call EXCEPT ![c] = [NoCall EXCEPT !.kind = call[c].kind, !.pc = how]]
  /\ server' = IF how = "done" THEN Leave(c) ELSE server

End(c, how) ==
  /\ call' = [call EXCEPT ![c] = [NoCall EXCEPT !.kind = call[c].kind, !.pc = how]]
  /\ server' = Leave(c)

\* The client knows the session from the answer of create.
Known == \E c \in Calls : call[c].kind = "create" /\ call[c].pc = "done"

Active(c) == call[c].pc \notin {"idle", "done", "failed"}

\* inspect takes no lock: nothing but an orderly client keeps it from meeting another call.
InTurn(kind) ==
  Orderly => \A d \in Calls : Active(d) => "inspect" \notin {kind, call[d].kind}

Begin(c, kind) ==
  /\ At(c, "idle") /\ InTurn(kind)
  /\ IF kind = "create" THEN \A d \in Calls : call[d].kind # "create" ELSE Known
  /\ call' = [call EXCEPT ![c].kind = kind,
                          ![c].pc = IF kind = "create" THEN "create"
                                    ELSE IF kind \in Locked THEN "lock" ELSE "load"]
  /\ server' = IF kind \in Locked THEN [server EXCEPT ![home].queue = Append(@, c)]
               ELSE server
  /\ UNCHANGED <<token, dir, broker, home, crashes>>

Enter_Overtakes(c) ==
  /\ At(c, "lock")
  /\ Goto(c, "load")
  /\ UNCHANGED <<token, dir, server, broker, home, crashes>>

Enter(c) ==
  /\ At(c, "lock") /\ Head(Me.queue) = c
  /\ Goto(c, "load")
  /\ UNCHANGED <<token, dir, server, broker, home, crashes>>

\* SessionStore.createSession: fresh directories and files, or nothing at all.
Create(c) ==
  /\ At(c, "create")
  /\ dir' = [NoDir EXCEPT !.root = TRUE, !.helpers = TRUE, !.meta = "active"]
  /\ Goto(c, "state")
  /\ UNCHANGED <<token, server, broker, home, crashes>>

WriteReady(c) ==
  /\ At(c, "state")
  /\ dir' = [dir EXCEPT !.phase = "ready"]
  /\ Goto(c, "start")
  /\ UNCHANGED <<token, server, broker, home, crashes>>

\* Everything a call reads before it acts: the session is owned and whole, the capture's
\* status (the live broker's, else the file's), then ensureBroker's decision.
Status == IF Reg # 0 THEN broker[Reg].phase ELSE dir.phase
Lost(phase) == phase \in {"failed", "interrupted"}
Replaceable_Claimed == {"ready", "claimed"}
Replaceable == {"ready"}

Load(c) ==
  /\ At(c, "load")
  /\ \/ /\ ~Owned
        /\ End(c, "failed")
     \/ /\ Owned /\ call[c].kind = "discard"
        /\ Goto(c, "close") /\ UNCHANGED server
     \/ /\ Owned /\ call[c].kind = "inspect" /\ Lost(Status)
        /\ End(c, "done")
     \/ /\ Owned /\ call[c].kind \in {"seal", "record"} /\ Lost(Status)
        /\ call[c].kind = "record" => Reg = 0
        /\ End(c, "failed")
     \/ /\ Owned /\ call[c].kind # "discard"
        /\ Lost(Status) => call[c].kind = "record" /\ Reg # 0
        /\ Goto(c, IF Reg # 0 \/ dir.phase \in {"none", "stopped"} THEN "ensured"
                   ELSE IF dir.phase \in Replaceable THEN "start" ELSE "mark")
        /\ UNCHANGED server
  /\ UNCHANGED <<token, dir, broker, home, crashes>>

\* createCaptureBroker makes the directory it writes in, even one that was removed.
StartBroker(c) ==
  /\ At(c, "start") /\ Len(broker) < MaxBrokers
  /\ broker' = Append(broker, [up |-> TRUE, phase |-> "ready", frames |-> 0, owes |-> FALSE])
  /\ dir' = [dir EXCEPT !.root = TRUE]
  /\ call' = [call EXCEPT ![c].pc = "wrap", ![c].broker = Len(broker) + 1]
  /\ UNCHANGED <<token, server, home, crashes>>

\* A broker that cannot listen, or whose helper files cannot be written, fails the call.
BrokerFault_LeavesBroker(c) ==
  /\ At(c, "start") \/ At(c, "wrap")
  /\ IF call[c].kind = "create" THEN Goto(c, "undo") /\ UNCHANGED server
     ELSE End(c, "failed")
  /\ UNCHANGED <<token, dir, broker, home, crashes>>

BrokerFault(c) ==
  /\ At(c, "start") \/ At(c, "wrap")
  /\ broker' = IF call[c].broker = 0 THEN broker
               ELSE [broker EXCEPT ![call[c].broker].up = FALSE]
  /\ IF call[c].kind = "create" THEN Goto(c, "undo") /\ UNCHANGED server
     ELSE End(c, "failed")
  /\ UNCHANGED <<token, dir, home, crashes>>

WriteWrappers(c) ==
  /\ At(c, "wrap") /\ dir.helpers
  /\ dir' = [dir EXCEPT !.wrapper = call[c].broker]
  /\ IF call[c].kind = "create"
     THEN /\ call' = [call EXCEPT ![c] = [NoCall EXCEPT !.kind = "create", !.pc = "done"]]
     ELSE Goto(c, "ensured")
  /\ server' = [server EXCEPT ![home].reg = call[c].broker]
  /\ UNCHANGED <<token, broker, home, crashes>>

\* create's catch: the session it made is discarded.
UndoCreate(c) ==
  /\ At(c, "undo")
  /\ dir' = NoDir
  /\ End(c, "failed")
  /\ UNCHANGED <<token, broker, home, crashes>>

-----------------------------------------------------------------------------
(* A capture nobody runs any more: marked failed, then explained.            *)

MarkInterrupted(c) ==
  /\ At(c, "mark")
  /\ IF dir.root
     THEN /\ dir' = [dir EXCEPT !.phase = "interrupted"]
          /\ Goto(c, "look") /\ UNCHANGED server
     ELSE /\ End(c, "failed") /\ UNCHANGED dir
  /\ UNCHANGED <<token, broker, home, crashes>>

LookForSummary(c) ==
  /\ At(c, "look")
  /\ IF dir.summary.status = "none" THEN Goto(c, "explain") /\ UNCHANGED server
     ELSE End(c, "failed")
  /\ UNCHANGED <<token, dir, broker, home, crashes>>

WriteInterruptedSummary(c) ==
  /\ At(c, "explain")
  /\ dir' = IF dir.root THEN [dir EXCEPT !.summary = [NoSummary EXCEPT !.status = "interrupted"]]
            ELSE dir
  /\ End(c, "failed")
  /\ UNCHANGED <<token, broker, home, crashes>>

-----------------------------------------------------------------------------
(* The calls themselves.                                                     *)

Inspect(c) ==
  /\ At(c, "ensured") /\ call[c].kind = "inspect"
  /\ End(c, IF dir.meta = "none" THEN "failed" ELSE "done")
  /\ UNCHANGED <<token, dir, broker, home, crashes>>

\* stampedEvent: the event follows the last line of the file.
StampEvent(c) ==
  /\ At(c, "ensured") /\ call[c].kind = "record"
  /\ IF dir.meta = "none" THEN End(c, "failed")
     ELSE /\ call' = [call EXCEPT ![c].pc = "append", ![c].lines = dir.telemetry]
          /\ UNCHANGED server
  /\ UNCHANGED <<token, dir, broker, home, crashes>>

\* appendEvent reads the file again; the stamp must come after its last line.
CheckEvent_AnyState(c) ==
  /\ At(c, "append")
  /\ IF Owned /\ Len(dir.telemetry) <= Len(call[c].lines)
     THEN /\ call' = [call EXCEPT ![c].pc = "save", ![c].lines = Append(dir.telemetry, c)]
          /\ UNCHANGED server
     ELSE End(c, "failed")
  /\ UNCHANGED <<token, dir, broker, home, crashes>>

CheckEvent(c) ==
  /\ At(c, "append")
  /\ IF Owned /\ dir.meta = "active" /\ Len(dir.telemetry) <= Len(call[c].lines)
     THEN /\ call' = [call EXCEPT ![c].pc = "save", ![c].lines = Append(dir.telemetry, c)]
          /\ UNCHANGED server
     ELSE End(c, "failed")
  /\ UNCHANGED <<token, dir, broker, home, crashes>>

SaveEvents(c) ==
  /\ At(c, "save")
  /\ IF dir.root
     THEN dir' = [dir EXCEPT !.telemetry = call[c].lines] /\ End(c, "done")
     ELSE End(c, "failed") /\ UNCHANGED dir
  /\ UNCHANGED <<token, broker, home, crashes>>

\* SessionStore.seal accepts only a successful, complete capture.
CheckEvidence_AnySummary(c) ==
  /\ At(c, "ensured") /\ call[c].kind = "seal"
  /\ IF Owned /\ dir.meta = "active" THEN Goto(c, "seal") /\ UNCHANGED server
     ELSE End(c, "failed")
  /\ UNCHANGED <<token, dir, broker, home, crashes>>

CheckEvidence(c) ==
  /\ At(c, "ensured") /\ call[c].kind = "seal"
  /\ IF Owned /\ dir.meta = "active" /\ dir.summary.status = "stopped" /\ dir.summary.frames > 0
     THEN Goto(c, "seal") /\ UNCHANGED server
     ELSE End(c, "failed")
  /\ UNCHANGED <<token, dir, broker, home, crashes>>

WriteSealed(c) ==
  /\ At(c, "seal")
  /\ IF dir.root
     THEN dir' = [dir EXCEPT !.meta = "sealed"] /\ Goto(c, "close") /\ UNCHANGED server
     ELSE End(c, "failed") /\ UNCHANGED dir
  /\ UNCHANGED <<token, broker, home, crashes>>

\* broker.close: a live capture fails, with its summary; then the registry forgets it.
CloseBroker_OnlyForgets(c) ==
  /\ At(c, "close")
  /\ server' = [server EXCEPT ![home].reg = 0]
  /\ Goto(c, IF call[c].kind = "discard" THEN "discard" ELSE "render")
  /\ UNCHANGED <<token, dir, broker, home, crashes>>

CloseBroker(c) ==
  /\ At(c, "close")
  /\ IF Reg = 0 THEN UNCHANGED <<broker, dir>>
     ELSE IF broker[Reg].phase \in {"claimed", "running"}
     THEN /\ broker' = [broker EXCEPT ![Reg].up = FALSE, ![Reg].phase = "failed",
                                      ![Reg].owes = FALSE]
          /\ dir' = [dir EXCEPT !.phase = "failed",
                       !.summary = [status |-> "failed", by |-> Reg, frames |-> broker[Reg].frames]]
     ELSE broker' = [broker EXCEPT ![Reg].up = FALSE] /\ UNCHANGED dir
  /\ server' = [server EXCEPT ![home].reg = 0]
  /\ Goto(c, IF call[c].kind = "discard" THEN "discard" ELSE "render")
  /\ UNCHANGED <<token, home, crashes>>

\* SessionStore.discard: the helper directory goes first, then the session's own.
RemoveHelpers(c) ==
  /\ At(c, "discard")
  /\ IF Owned THEN dir' = [dir EXCEPT !.helpers = FALSE] /\ Goto(c, "remove") /\ UNCHANGED server
     ELSE End(c, "failed") /\ UNCHANGED dir
  /\ UNCHANGED <<token, broker, home, crashes>>

RemoveSession(c) ==
  /\ At(c, "remove")
  /\ dir' = [NoDir EXCEPT !.helpers = dir.helpers]
  /\ End(c, "done")
  /\ UNCHANGED <<token, broker, home, crashes>>

\* renderSealedSession: the evidence is one whole capture, as its summary says.
Whole(lines, s) == Len(lines) = s.frames /\ \A i \in DOMAIN lines : lines[i] = s.by
RenderEvidence(c) ==
  /\ At(c, "render")
  /\ IF dir.meta = "sealed" /\ dir.summary.status = "stopped" /\ Whole(dir.evidence, dir.summary)
     THEN Goto(c, "publish") /\ UNCHANGED server
     ELSE End(c, "failed")
  /\ UNCHANGED <<token, dir, broker, home, crashes>>

\* The encoder, the probe and the quality checks may fail before anything is published.
RenderFault(c) ==
  /\ At(c, "publish")
  /\ End(c, "failed")
  /\ UNCHANGED <<token, dir, broker, home, crashes>>

\* The directory is made exclusively, the files are renamed into it one by one.
Publish(c) ==
  /\ At(c, "publish")
  /\ IF dir.artifacts = "none"
     THEN dir' = [dir EXCEPT !.artifacts = "made"] /\ Goto(c, "video") /\ UNCHANGED server
     ELSE End(c, "failed") /\ UNCHANGED dir
  /\ UNCHANGED <<token, broker, home, crashes>>

\* A render whose checks did not approve it is published too, and the call fails.
Rename(c, file) ==
  /\ At(c, file) /\ file \in {"video", "manifest", "report"}
  /\ dir' = [dir EXCEPT !.artifacts = file]
  /\ IF file = "report" THEN \E how \in {"done", "failed"} : End(c, how)
     ELSE Goto(c, IF file = "video" THEN "manifest" ELSE "report") /\ UNCHANGED server
  /\ UNCHANGED <<token, broker, home, crashes>>

-----------------------------------------------------------------------------
(* The capture, driven by the helpers in the browser. The broker's state     *)
(* file and summary are written in its session directory, if it is there.    *)

SavePhase(p) == dir' = IF dir.root THEN [dir EXCEPT !.phase = p] ELSE dir
Enters(b, from, to) ==
  /\ b \in DOMAIN broker /\ broker[b].up /\ broker[b].phase \in from
  /\ SavePhase(to)
  /\ UNCHANGED <<token, server, call, home, crashes>>

Claim(b) ==
  /\ Enters(b, {"ready"}, "claimed")
  /\ broker' = [broker EXCEPT ![b].phase = "claimed"]

Frame_PastBudget(b) ==
  /\ b \in DOMAIN broker /\ broker[b].up /\ broker[b].phase \in {"claimed", "running"}
  /\ broker[b].frames <= MaxFrames
  /\ broker' = [broker EXCEPT ![b].phase = "running", ![b].frames = @ + 1]
  /\ dir' = IF dir.root THEN [dir EXCEPT !.phase = "running", !.evidence = Append(@, b)] ELSE dir
  /\ UNCHANGED <<token, server, call, home, crashes>>

Frame(b) ==
  /\ b \in DOMAIN broker /\ broker[b].up /\ broker[b].phase \in {"claimed", "running"}
  /\ broker[b].frames < MaxFrames
  /\ broker' = [broker EXCEPT ![b].phase = "running", ![b].frames = @ + 1]
  /\ dir' = IF dir.root THEN [dir EXCEPT !.phase = "running", !.evidence = Append(@, b)] ELSE dir
  /\ UNCHANGED <<token, server, call, home, crashes>>

\* A complete stop, or a failure; /fail leaves no summary.
StopCapture(b) ==
  /\ Enters(b, {"running"}, "stopped")
  /\ broker' = [broker EXCEPT ![b].phase = "stopped", ![b].owes = TRUE]

FailCapture(b) ==
  /\ Enters(b, {"claimed", "running"}, "failed")
  /\ \E owes \in BOOLEAN : broker' = [broker EXCEPT ![b].phase = "failed", ![b].owes = owes]

WriteSummary(b) ==
  /\ b \in DOMAIN broker /\ broker[b].up /\ broker[b].owes
  /\ broker' = [broker EXCEPT ![b].owes = FALSE]
  /\ dir' = IF dir.root
            THEN [dir EXCEPT !.summary = [status |-> broker[b].phase, by |-> b,
                                          frames |-> broker[b].frames]]
            ELSE dir
  /\ UNCHANGED <<token, server, call, home, crashes>>

\* A process dies with its registry, its locks, its brokers and its calls.
Crash(s) ==
  /\ crashes < MaxCrashes /\ server[s].pc # "boot"
  /\ crashes' = crashes + 1
  /\ server' = [server EXCEPT ![s] = Booting]
  /\ IF s = home
     THEN /\ broker' = [b \in DOMAIN broker |-> [broker[b] EXCEPT !.up = FALSE]]
          /\ call' = [c \in Calls |-> IF call[c].pc \in {"idle", "done"} THEN call[c]
                                      ELSE [NoCall EXCEPT !.kind = call[c].kind, !.pc = "failed"]]
          /\ home' \in Servers
     ELSE UNCHANGED <<broker, call, home>>
  /\ UNCHANGED <<token, dir>>

-----------------------------------------------------------------------------
CallStep(c) ==
  \/ Enter(c) \/ Create(c) \/ WriteReady(c) \/ Load(c) \/ StartBroker(c) \/ BrokerFault(c)
  \/ WriteWrappers(c) \/ UndoCreate(c) \/ MarkInterrupted(c) \/ LookForSummary(c)
  \/ WriteInterruptedSummary(c) \/ Inspect(c) \/ StampEvent(c) \/ CheckEvent(c)
  \/ SaveEvents(c) \/ CheckEvidence(c) \/ WriteSealed(c) \/ CloseBroker(c)
  \/ RemoveHelpers(c) \/ RemoveSession(c) \/ RenderEvidence(c) \/ RenderFault(c)
  \/ Publish(c) \/ \E file \in {"video", "manifest", "report"} : Rename(c, file)
Capture(b) == Claim(b) \/ Frame(b) \/ StopCapture(b) \/ FailCapture(b) \/ WriteSummary(b)
Boot(s) == BootRead(s) \/ BootLink(s)

Next ==
  \/ \E s \in Servers : Boot(s) \/ Crash(s)
  \/ \E c \in Calls : CallStep(c) \/ \E kind \in CallKinds : Begin(c, kind)
  \/ \E b \in BrokerIds : Capture(b)

Spec == Init /\ [][Next]_vars

-----------------------------------------------------------------------------
(* Properties.                                                               *)

\* Processes that boot at the same time on an empty root agree on its owner: every one that
\* serves calls holds the token in the file, so it can load the sessions of the others.
OneOwner == \A s \in Servers : server[s].pc = "up" => server[s].token = token /\ token # None

\* What is sealed is one whole successful capture, and stays so: no later failure, no second
\* broker and no recovery replaces its summary or adds to its frames.
SealedIsWhole ==
  dir.meta = "sealed" =>
    dir.summary.status = "stopped" /\ dir.summary.frames > 0 /\ Whole(dir.evidence, dir.summary)

\* A capture that began is never begun again, whatever crashes and whoever asks: at most one
\* of the session's brokers was ever claimed.
CaptureNotRetried == Cardinality({b \in DOMAIN broker : broker[b].phase # "ready"}) <= 1

\* Events answered as recorded are in the telemetry, once each, as long as there is a session.
RecordedOnce ==
  \A c \in Calls : call[c].kind = "record" /\ call[c].pc = "done" /\ dir.meta # "none" =>
    Cardinality({i \in DOMAIN dir.telemetry : dir.telemetry[i] = c}) = 1

\* A broker that listens can be closed: the registry names it or a call is starting it.
NoStrayBroker ==
  \A b \in DOMAIN broker : broker[b].up =>
    Reg = b \/ \E c \in Calls : call[c].pc = "wrap" /\ call[c].broker = b

\* After an answered discard nothing is left, on disk or listening, and nothing comes back.
DiscardIsFinal ==
  (\E c \in Calls : call[c].kind = "discard" /\ call[c].pc = "done") =>
    dir = NoDir /\ \A b \in DOMAIN broker : ~broker[b].up

\* A successful discard removes both the session directory and its helper directory: once no
\* call is under way, neither is there.
DiscardRemoves ==
  (\E c \in Calls : call[c].kind = "discard" /\ call[c].pc = "done")
    /\ (\A c \in Calls : ~Active(c)) =>
  ~dir.root /\ ~dir.helpers

\* The session lock never waits for nobody: the queue holds exactly the locked calls that are
\* still running, so every way out of a call, an error too, passes the lock on.
QueueIsLive ==
  LET waiting == Me.queue
      locked == {c \in Calls : Active(c) /\ call[c].kind \in Locked}
  IN {waiting[i] : i \in DOMAIN waiting} = locked /\ Len(waiting) = Cardinality(locked)

-----------------------------------------------------------------------------
(* What a session promises its client (SessionContract): the lifecycle of    *)
(* its metadata, its telemetry, and the delivery.                            *)

Attempted == \E c \in Calls : call[c].kind = "create" /\ call[c].pc # "create"
Stage == CASE dir.meta = "active" -> "open"
           [] dir.meta = "sealed" -> "sealed"
           [] dir.meta = "none"   -> IF Attempted THEN "gone" ELSE "absent"

Contract == INSTANCE SessionContract WITH
  stage <- Stage, events <- dir.telemetry, delivered <- (dir.artifacts = "report")
KeepsContract == Contract!Spec
=============================================================================
