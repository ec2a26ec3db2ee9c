---------------------------- MODULE BrowserObserver ----------------------------
(***************************************************************************)
(* How the browser helper observes the page it records: src/mcp/           *)
(* browser-helper.ts with the observer of browser-helper-observer.ts.  A   *)
(* document is observed from an isolated world, by a script whose console  *)
(* messages carry the secret marker of the scope it was installed for.     *)
(* The page navigates, messages arrive and commands are answered meanwhile.*)
(*                                                                         *)
(* A scope, its marker, its world and its nonce are one number.  The       *)
(* browser puts events and answers on one wire.  A Playwright connection   *)
(* delivers them in order; the in-app browser (browser-iab-helper.ts)      *)
(* polls for events, and an answer may overtake them.                      *)
(***************************************************************************)
EXTENDS Integers, Sequences, SequencesExt

CONSTANTS
  InOrder,       \* whether answers stay behind the events sent before them
  MaxDocuments,  \* bound: documents the page shows, the first included
  MaxEvents,     \* bound: events the user causes where an observer sees them
  MaxFaults      \* bound: commands and requests that fail

VARIABLES
  page,     \* the document shown, the worlds made in it, those that observe it
  wire,     \* what the browser has sent and the helper not yet seen
  sent,     \* commands the browser has not run yet
  scope,    \* observedScope and the contexts of its predecessors
  tasks,    \* observationTail: the installations, in order
  helper,   \* state.active and observedFailed, and how far start and stop are
  tally     \* events caused, those a ready observer saw, those posted, both; faults

observerVars == <<page, wire, sent, scope, tasks, helper, tally>>

NoDocument == 0
NoScope == [epoch |-> 0, doc |-> NoDocument, evaluated |-> FALSE, handshake |-> FALSE,
            ready |-> FALSE, target |-> NoDocument, context |-> 0, retired |-> {}]

ObserverInit ==
  /\ page = [shown |-> 1, worlds |-> {}, observing |-> {}]
  /\ wire = <<>>
  /\ sent = {}
  /\ scope = NoScope
  /\ tasks = <<>>
  /\ helper = [active |-> TRUE, failed |-> FALSE, armed |-> FALSE, start |-> "waiting", stop |-> "no"]
  /\ tally = [caused |-> 0, owed |-> 0, posted |-> 0, kept |-> 0, faults |-> 0]

-----------------------------------------------------------------------------
(* The browser. *)

BeforeFlush == helper.stop = "no" \/ \E c \in sent : c.kind = "flush"
Owed(epoch) == scope.ready /\ scope.epoch = epoch /\ BeforeFlush
Event(epoch) == [kind |-> "event", n |-> epoch, how |-> IF Owed(epoch) THEN "owed" ELSE "ok"]
Caused(epoch) == [tally EXCEPT !.caused = @ + 1, !.owed = @ + (IF Owed(epoch) THEN 1 ELSE 0)]
Command(kind, n) == [kind |-> kind, n |-> n]

\* Worlds die with their document.
Navigate ==
  /\ page.shown < MaxDocuments
  /\ page' = [shown |-> page.shown + 1, worlds |-> {}, observing |-> {}]
  /\ wire' = Append(wire, [kind |-> "navigated", n |-> page.shown + 1, how |-> "ok"])
  /\ UNCHANGED <<sent, scope, tasks, helper, tally>>

\* A click, a scroll that has settled, a pointer sample: every observer sends it.
UserEvent ==
  /\ tally.caused < MaxEvents
  /\ \E epoch \in page.observing :
       wire' = Append(wire, Event(epoch)) /\ tally' = Caused(epoch)
  /\ UNCHANGED <<page, sent, scope, tasks, helper>>

Answered(command, how) == [kind |-> command.kind, n |-> command.n, how |-> how]

RunTree(c) == wire' = Append(wire, Answered([c EXCEPT !.n = page.shown], "ok")) /\ UNCHANGED <<page, tally>>

RunWorld(c) ==
  /\ page' = [page EXCEPT !.worlds = @ \cup {c.n}]
  /\ wire' = Append(wire, Answered(c, "ok"))
  /\ UNCHANGED tally

\* The script installs its listeners and says it is ready, unless its world is gone.
RunEvaluate(c) ==
  /\ IF c.n \in page.worlds
     THEN /\ page' = [page EXCEPT !.observing = @ \cup {c.n}]
          /\ wire' = wire \o <<[kind |-> "ready", n |-> c.n, how |-> "ok"], Answered(c, "ok")>>
     ELSE wire' = Append(wire, Answered(c, "stale")) /\ UNCHANGED page
  /\ UNCHANGED tally

\* The pointer sample the script still held is sent before the answer.
RunFlush(c) ==
  /\ \/ wire' = Append(wire, Answered(c, "ok")) /\ UNCHANGED tally
     \/ /\ c.n \in page.observing /\ tally.caused < MaxEvents
        /\ wire' = wire \o <<Event(c.n), Answered(c, "ok")>>
        /\ tally' = Caused(c.n)
  /\ UNCHANGED page

\* n is the set of worlds to clean; a world that is gone is no error.
RunCleanup(c) ==
  /\ page' = [page EXCEPT !.observing = @ \ c.n]
  /\ wire' = Append(wire, Answered([c EXCEPT !.n = 0], "ok"))
  /\ UNCHANGED tally

RunCommand ==
  \E c \in sent :
    /\ sent' = sent \ {c}
    /\ \/ c.kind = "tree" /\ RunTree(c)
       \/ c.kind = "world" /\ RunWorld(c)
       \/ c.kind = "evaluate" /\ RunEvaluate(c)
       \/ c.kind = "flush" /\ RunFlush(c)
       \/ c.kind \in {"clean", "discard", "settle"} /\ RunCleanup(c)
    /\ UNCHANGED <<scope, tasks, helper>>

CommandFails ==
  /\ tally.faults < MaxFaults
  /\ \E c \in sent :
       /\ sent' = sent \ {c}
       /\ wire' = Append(wire, Answered([c EXCEPT !.n = 0], "fault"))
  /\ tally' = [tally EXCEPT !.faults = @ + 1]
  /\ UNCHANGED <<page, scope, tasks, helper>>

-----------------------------------------------------------------------------
(* Delivery. *)

IsEvent(m) == m.kind \in {"navigated", "event", "ready"}

Arrives(kinds, i) ==
  /\ i \in DOMAIN wire /\ wire[i].kind \in kinds
  /\ \A j \in 1..(i - 1) : ~InOrder /\ IsEvent(wire[j]) # IsEvent(wire[i])
  /\ wire' = RemoveAt(wire, i)

-----------------------------------------------------------------------------
(* Scopes. *)

\* replaceObservedScope, with the context in use retired and a new generation begun:
\* for the document navigated to, or for none (invalidateObserved, failObserved).
Replaced(s, doc) ==
  [epoch |-> s.epoch + 1, doc |-> doc, evaluated |-> FALSE, handshake |-> FALSE,
   ready |-> FALSE, target |-> doc, context |-> 0,
   retired |-> s.retired \cup ({s.context} \ {0})]

FailObserved ==
  /\ scope' = Replaced(scope, NoDocument)
  /\ helper' = [helper EXCEPT !.failed = TRUE, !.active = FALSE,
                              !.start = IF @ = "waiting" THEN "failed" ELSE @]

\* commitObservedReady: evaluated and shaken hands, in whichever order.
Commit(s) ==
  LET ready == s.evaluated /\ s.handshake
  IN /\ scope' = [s EXCEPT !.ready = @ \/ ready]
     /\ helper' = [helper EXCEPT !.start = IF ready /\ @ = "waiting" THEN "running" ELSE @]

Installation(doc) == [doc |-> doc, epoch |-> scope.epoch + 1, pc |-> "queued"]

\* The first accepted frame asks which document to observe.
FirstFrame ==
  /\ ~helper.armed /\ helper.active /\ ~\E c \in sent : c.kind = "tree"
  /\ ~\E i \in DOMAIN wire : wire[i].kind = "tree"
  /\ sent' = sent \cup {Command("tree", 0)}
  /\ UNCHANGED <<page, wire, scope, tasks, helper, tally>>

Armed ==
  \E i \in DOMAIN wire :
    /\ Arrives({"tree"}, i)
    /\ IF wire[i].how = "ok"
       THEN /\ helper' = [helper EXCEPT !.armed = TRUE]
            /\ scope' = Replaced(scope, wire[i].n)
            /\ tasks' = Append(tasks, [Installation(wire[i].n) EXCEPT !.pc = "first"])
       ELSE FailObserved /\ UNCHANGED tasks
    /\ UNCHANGED <<page, sent, tally>>

\* navigationListener. A document of another origin fails the capture.
Navigated ==
  \E i \in DOMAIN wire :
    /\ Arrives({"navigated"}, i)
    /\ IF ~helper.active \/ helper.stop # "no" THEN UNCHANGED <<scope, tasks, helper>>
       ELSE IF ~helper.armed
       THEN scope' = [scope EXCEPT !.target = wire[i].n] /\ UNCHANGED <<tasks, helper>>
       ELSE IF scope.target = wire[i].n THEN UNCHANGED <<scope, tasks, helper>>
       ELSE \/ FailObserved /\ UNCHANGED tasks
            \/ /\ scope' = Replaced(scope, wire[i].n)
               /\ tasks' = Append(tasks, Installation(wire[i].n))
               /\ UNCHANGED helper
    /\ UNCHANGED <<page, sent, tally>>

-----------------------------------------------------------------------------
(* observedListener. *)

Handshake ==
  \E i \in DOMAIN wire :
    /\ Arrives({"ready"}, i)
    /\ IF helper.active /\ wire[i].n = scope.epoch
       THEN Commit([scope EXCEPT !.handshake = TRUE])
       ELSE UNCHANGED <<scope, helper>>
    /\ UNCHANGED <<page, sent, tasks, tally>>

\* An event of the current scope is posted once its observer is ready, and fails the
\* capture before; others are ignored.
Observed ==
  \E i \in DOMAIN wire :
    /\ Arrives({"event"}, i)
    /\ IF ~helper.active \/ wire[i].n # scope.epoch THEN UNCHANGED <<scope, helper, tally>>
       ELSE IF scope.ready
       THEN /\ tally' = [tally EXCEPT !.posted = @ + 1,
                                      !.kept = @ + (IF wire[i].how = "owed" THEN 1 ELSE 0)]
            /\ UNCHANGED <<scope, helper>>
       ELSE FailObserved /\ UNCHANGED tally
    /\ UNCHANGED <<page, sent, tasks>>

\* The broker refuses an event.
PostFails ==
  /\ helper.active /\ tally.posted > 0 /\ tally.faults < MaxFaults
  /\ FailObserved
  /\ tally' = [tally EXCEPT !.faults = @ + 1]
  /\ UNCHANGED <<page, wire, sent, tasks>>

-----------------------------------------------------------------------------
(* installObserved: a challenge, a world, an evaluation, each followed by a  *)
(* look whether the scope is still the current one.                          *)

TaskAt(pc) == tasks # <<>> /\ Head(tasks).pc = pc
Epoch == Head(tasks).epoch
ScopeCurrent == helper.active /\ scope.epoch = Epoch
Goes(pc) == tasks' = [tasks EXCEPT ![1].pc = pc]
Ends == tasks' = Tail(tasks)

\* cleanupRetiredObserved sends for what was retired so far.
SendCleanup(kind, s) ==
  /\ sent' = sent \cup {Command(kind, s.retired)}
  /\ scope' = [s EXCEPT !.retired = {}]

\* The installation of a navigation first cleans up after its predecessors.
BeginInstallation ==
  /\ \/ TaskAt("first") /\ Goes("challenge") /\ UNCHANGED <<sent, scope>>
     \/ TaskAt("queued") /\ ScopeCurrent /\ Goes("clean") /\ SendCleanup("clean", scope)
     \/ TaskAt("queued") /\ ~ScopeCurrent /\ Ends /\ UNCHANGED <<sent, scope>>
  /\ UNCHANGED <<page, wire, helper, tally>>

CleanedUp ==
  \E i \in DOMAIN wire :
    /\ TaskAt("clean") /\ Arrives({"clean"}, i)
    /\ IF wire[i].how = "fault" THEN FailObserved /\ Ends
       ELSE (IF ScopeCurrent THEN Goes("challenge") ELSE Ends) /\ UNCHANGED <<scope, helper>>
    /\ UNCHANGED <<page, sent, tally>>

Challenged ==
  /\ TaskAt("challenge")
  /\ \/ /\ ScopeCurrent
        /\ Goes("world") /\ sent' = sent \cup {Command("world", Epoch)}
        /\ UNCHANGED <<scope, helper, tally>>
     \/ /\ ~ScopeCurrent
        /\ Ends /\ UNCHANGED <<sent, scope, helper, tally>>
     \/ /\ ScopeCurrent /\ tally.faults < MaxFaults
        /\ Ends /\ FailObserved /\ tally' = [tally EXCEPT !.faults = @ + 1] /\ UNCHANGED sent
  /\ UNCHANGED <<page, wire>>

\* Mutant: a world that comes too late is left alone.
Discard_Forgets == Ends /\ UNCHANGED <<sent, scope, helper>>

\* A world that comes too late is retired and cleaned up at once.
Discard ==
  /\ Goes("discard")
  /\ SendCleanup("discard", [scope EXCEPT !.retired = @ \cup {Epoch}])
  /\ UNCHANGED helper

WorldMade ==
  \E i \in DOMAIN wire :
    /\ TaskAt("world") /\ Arrives({"world"}, i)
    /\ \/ /\ ScopeCurrent /\ wire[i].how = "ok"
          /\ Goes("evaluate") /\ sent' = sent \cup {Command("evaluate", Epoch)}
          /\ UNCHANGED <<scope, helper>>
       \/ ScopeCurrent /\ wire[i].how = "fault" /\ Ends /\ FailObserved /\ UNCHANGED sent
       \/ ~ScopeCurrent /\ wire[i].how = "ok" /\ Discard
       \/ ~ScopeCurrent /\ wire[i].how = "fault" /\ Ends /\ UNCHANGED <<sent, scope, helper>>
    /\ UNCHANGED <<page, tally>>

Evaluated ==
  \E i \in DOMAIN wire :
    /\ TaskAt("evaluate") /\ Arrives({"evaluate"}, i)
    /\ \/ /\ ScopeCurrent /\ wire[i].how = "ok"
          /\ Ends /\ Commit([scope EXCEPT !.evaluated = TRUE, !.context = Epoch])
          /\ UNCHANGED sent
       \/ ScopeCurrent /\ wire[i].how # "ok" /\ Ends /\ FailObserved /\ UNCHANGED sent
       \/ ~ScopeCurrent /\ Discard
    /\ UNCHANGED <<page, tally>>

Discarded ==
  \E i \in DOMAIN wire :
    /\ TaskAt("discard") /\ Arrives({"discard"}, i)
    /\ Ends
    /\ IF wire[i].how = "fault" THEN FailObserved ELSE UNCHANGED <<scope, helper>>
    /\ UNCHANGED <<page, sent, tally>>

-----------------------------------------------------------------------------
(* start gives up after ten seconds; stop flushes the observer, retires it,  *)
(* waits for the installations and cleans up.                                *)

StartTimeout ==
  /\ helper.start = "waiting"
  /\ helper' = [helper EXCEPT !.start = "failed", !.active = FALSE]
  /\ scope' = Replaced(scope, NoDocument)
  /\ UNCHANGED <<page, wire, sent, tasks, tally>>

Stopped == [helper EXCEPT !.stop = "done", !.active = FALSE]

\* Mutant: the scope is invalidated before the observer is flushed.
Stop_InvalidatesFirst ==
  /\ helper.start = "running" /\ helper.stop = "no"
  /\ helper' = [helper EXCEPT !.stop = IF scope.context = 0 THEN "tail" ELSE "flush"]
  /\ scope' = Replaced(scope, NoDocument)
  /\ sent' = sent \cup (IF scope.context = 0 THEN {} ELSE {Command("flush", scope.context)})
  /\ UNCHANGED <<page, wire, tasks, tally>>

StopObserving ==
  /\ helper.start = "running" /\ helper.stop = "no"
  /\ IF scope.context = 0
     THEN /\ helper' = [helper EXCEPT !.stop = "tail"]
          /\ scope' = Replaced(scope, NoDocument)
          /\ UNCHANGED sent
     ELSE /\ helper' = [helper EXCEPT !.stop = "flush"]
          /\ sent' = sent \cup {Command("flush", scope.context)}
          /\ UNCHANGED scope
  /\ UNCHANGED <<page, wire, tasks, tally>>

\* A flush that fails ends settleObserved: nothing is cleaned up.
Flushed ==
  \E i \in DOMAIN wire :
    /\ Arrives({"flush"}, i)
    /\ IF wire[i].how = "fault"
       THEN helper' = [Stopped EXCEPT !.failed = TRUE] /\ UNCHANGED scope
       ELSE /\ helper' = [helper EXCEPT !.stop = "tail"]
            /\ scope' = Replaced(scope, NoDocument)
    /\ UNCHANGED <<page, sent, tasks, tally>>

\* Mutant: retired worlds are cleaned up while an installation is under way.
TailDone_AtOnce == helper.stop = "tail"

TailDone == helper.stop = "tail" /\ tasks = <<>>

SettleObserved ==
  /\ TailDone
  /\ helper' = [helper EXCEPT !.stop = "clean"]
  /\ SendCleanup("settle", scope)
  /\ UNCHANGED <<page, wire, tasks, tally>>

Settled ==
  \E i \in DOMAIN wire :
    /\ Arrives({"settle"}, i)
    /\ helper' = [Stopped EXCEPT !.failed = @ \/ wire[i].how = "fault"]
    /\ UNCHANGED <<page, sent, scope, tasks, tally>>

ObserverNext ==
  \/ Navigate \/ UserEvent \/ RunCommand \/ CommandFails
  \/ FirstFrame \/ Armed \/ Navigated \/ Handshake \/ Observed \/ PostFails
  \/ BeginInstallation \/ CleanedUp \/ Challenged \/ WorldMade \/ Evaluated \/ Discarded
  \/ StartTimeout \/ StopObserving \/ Flushed \/ SettleObserved \/ Settled

ObserverSpec == ObserverInit /\ [][ObserverNext]_observerVars

-----------------------------------------------------------------------------
(* Properties. *)

\* A stop that ends well leaves no observer in the page, whatever installation it met.
ObserversGone ==
  helper.stop = "done" /\ ~helper.failed => page.observing = {} /\ tasks = <<>>

\* A stop that ends well has posted every event that the observer of the committed
\* document saw up to the flush, the pointer sample it still held included.
EventsKept == helper.stop = "done" /\ ~helper.failed => tally.kept = tally.owed
==============================================================================
