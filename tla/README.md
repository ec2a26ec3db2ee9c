# Recordly Codex: a TLA+ verification project

Recordly Codex records a browser session, keeps the evidence on the local disk, lets an
agent edit the recording through MCP tools, and renders it. This directory holds TLA+
modules that model the parts of it where order, failure and concurrency decide whether
the evidence is right, the TLC configurations that check them, and proofs for TLAPS.

Paths below are relative to the repository root (`mcp/`, `src/`, `browser/`).

## 1. Inventory

| Component | State it keeps | Operations | Interacts with |
| --- | --- | --- | --- |
| **Capture broker** `mcp/capture-broker.ts` | phase, two promise chains (`frameProcessingTail`, `persistenceTail`), counters, pending scroll and pointer; on disk `broker-state.json`, `capture-summary.json`, `frames/raw/*.jpg`, `capture-events.jsonl`, `observed-events.jsonl` | `/claim`, `/frame`, `/observed-event`, `/observer-challenge`, `/fail`, `/stop`, `close()` | helpers and mailbox (HTTP), session registry (`onPhase`, `close`) |
| **Capture mailbox** `mcp/capture-mailbox.ts`, `mcp/browser-iab-helper.ts` | request and response files, a queue of polls | write a request, post it, write the response, give up, close | in-app-browser helper (files), broker (HTTP) |
| **Browser helpers** `mcp/browser-helper*.ts` | observer scope, marker and nonce, a tail of installations | start, stop, observed binding, navigation | page (CDP), broker or mailbox |
| **Browser capture runtime** `browser/capture-runtime.js`, **library adapter** `src/capture/index.ts` | a bounded queue, one worker, counters | start, receive a frame, degrade, fail, stop | page, session files |
| **Session and broker registry** `mcp/session-store-broker.ts`, `mcp/session-store-service.ts`, `src/session/index.ts` | session directories, owner token, `activeCaptureBrokers`, per-session lock | create, record event, inspect (starts or replaces a broker), seal and render, discard | broker, project store |
| **Project store** `mcp/project-persistence.ts`, `mcp/session-store-project-ops.ts`, `mcp/project-preview-judgment-store.ts`, `src/project/*` | project document with a revision, directory lock, judgment record | create, revise, apply profile, apply editorial proposal, judge a preview, render | session registry, publication |
| **Render publication** `mcp/render-publication.ts` | staged and published artifacts | publish, compare-and-swap, withdraw | project store |
| **Profiles** `mcp/recording-profile-store.ts` | one file a profile, two kinds of lock files | create, update, read | project store |
| **Private media** `src/media/private-media-library.ts`, `mcp/project-asset-registry.ts`, `mcp/project-media-store.ts` | content-addressed pairs of files, asset journal, records | import | project store, encoder |
| **Private visuals** `src/media/private-visual-raster.ts` | a decoder child, a frame assembler | frameAt, restart, dispose | renderer |
| **Editorial proposals** `src/analysis/editorial-proposal.ts`, `src/analysis/dead-time.ts` | none of their own | analyse, propose, validate, apply | project store, evidence |
| **Compiler and timelines** `src/compiler`, `src/timeline`, `src/render/sealed-session.ts` | none | frame grid, zooms, slots, alignment of actions | evidence, encoder |
| **Presentation** `src/render/timeline-mapping.ts`, `src/render/raster-compositor.ts` | a generator of frames | schedule, next frame | encoder |
| **Media processes** `src/encoder/media-process.ts` | a semaphore, child processes | run a job, abort, time out | encoder, renderer |
| **Encoders, MCP surface, scripts** | files | | |

What is hard: handlers of the broker interleave at every `await`; two chains of promises
order them; memory and disk change at different moments; requests are stamped in one
order and processed in another; several processes share session, project, media and profile
directories; answers can be lost or late; writes can fail one at a time; the page navigates
while an observer is installed in it; times are rounded in several units.

What makes each part correct: the broker acknowledges only what is durable, keeps logs
that can be replayed after a crash, never drops a frame from a capture it still calls
live, and writes a "stopped" summary only of a complete capture; so do the two older capture
paths. The mailbox gives a request to the broker once, the observer leaves nothing behind
and loses no event. The registry runs at most one broker per session and never turns an
interrupted capture into a good one. The project store never loses an update and renders a
final only of what was judged. Publication leaves either the old artifact or the new one
together with the project that names it. Imports and profiles survive each other's failures.
What is edited stays valid, what is trimmed was not needed, and what is shown keeps step
with what is heard.

## 2. Plan

Done, in this order:

1. **`CaptureBroker`** with `CaptureBrokerProofs` and `CaptureBrokerLedger` (section 3).
2. **`ProjectWorkflow`**, `ProjectHistory` and `ProjectProofs` (section 4).
3. **`SessionLifecycle`**, the abstract `SessionContract` it implements, `SessionProofs`
   and `SessionCaptureProofs` (section 5).
4. The capture side: **`CaptureMailbox`**, **`BrowserObserver`**, **`BrowserCapture`**,
   **`CaptureAdapter`**, with `CaptureSideProofs` (section 6).
5. Shared files and editing: **`PrivateMedia`**, **`ProfileStore`**, **`ProjectDocument`**,
   **`EditorialProposal`** (section 7).
6. Rendering: **`MediaProcess`**, **`RasterReader`**, **`FrameTime`**, **`Presentation`**,
   **`Timeline`**, **`DeadTime`** (section 8).
7. `SharedResourcesProofs` about `MediaProcess`, `RasterReader`, `ProfileStore` and
   `PrivateMedia`; `EditingProofs` about `DeadTime`, `EditorialProposal`, `Timeline`,
   `Presentation` and `ProjectDocument` (section 10).

`MCComponents` puts the modules of 3 to 6 side by side.

Left: `SessionLifecycle` over `CaptureBroker` itself instead of what the broker promises; the
frame listener of the browser helper.

## 3. `CaptureBroker`

### State and code

| Variable | In the code |
| --- | --- |
| `now` | the injected or monotonic clock behind `receiptClockUs`, in coarse ticks |
| `req[r]` | the handler of request `r`: its kind, the await it stands at (`pc`), its receipt, the answer (`reply`), its seats in the two chains, the job it linked and that job's stage, the phase it is writing (`save`), where it goes next, the text of the summary it writes (`draft`) |
| `phase` | `phase` |
| `clock` | `captureStartedReceiptUs`, `firstAcceptedReceiptUs`, `lastReceiptOffsetUs`, `lastObservedOffsetUs` |
| `tally` | the counts in `observed` |
| `load` | `pendingWrites`, `inflightBytes`, `acceptedBytes`, `frameId` |
| `gate` | `observedSequence`, the rate window, `observerChallengesIssued` |
| `pending` | `pendingScroll`, `pendingPointer`; the field `from` is the set of requests whose data the event carries |
| `lock`, `tail` | `frameProcessingTail`, `persistenceTail`: `next` links appended, `served` settled |
| `server` | whether `close()` was called and whether the server still listens |
| `stateFile`, `summary`, `images`, `frameLog`, `observedLog` | the files |

An action is the code between two awaits, so every interleaving of handlers is explored.
I/O completions (`Callback`) start a turn of the event loop; what a settled promise lets
run (`Continuation`) finishes before the next turn starts (`TurnOver`). `JobTurn` keeps
the order in which Node runs reactions of one promise: whoever awaited a settled link runs
before the job chained after it.

| Actions | Code in `mcp/capture-broker.ts` |
| --- | --- |
| `Arrive`, `ArriveOnBadClock`, `Refuse` | 467-586: receipt stamp, body, session, origin and capability checks |
| `Claim`, `Fail`, `Challenge` | 574-604 |
| `ObservedEvent`, `FlushScroll`, `FlushPointer`, `Coalesce`, `FlushOwn`, `SetPending`, `QueueClick`, `AnswerClick` | 605-672, 372-440 |
| `EnterFrame`, `CheckFrame`, `AdmitFrame`, `Unlock` | 673-779, 363-371 |
| `StartFrame`, `WriteImage`, `AppendFrame`, `RunningSaved` | the persistence job, 733-771 |
| `StartObserved`, `AppendObserved` | 388-424 |
| `RefuseJob`, `DiskFault`, `FailureSaved` | a job that throws, 410-418 and 763-786 |
| `EnterStop`, `CheckStop`, `Drain`, `EventsLost`, `Verdict`, `Summarize`, `Publish` | `/stop` and `writeSummary`, 789-835, 441-466 |
| `Close`, `StopListening`, `Closed` | 858-868 |
| `PhaseSaved` | `onPhase`, `mcp/session-store-broker.ts` 194-202 |

Operators whose name ends in `_` and a word (`Drain_NoWait`, ...) are variants of the
operator before the `_` with a plausible mistake in them; they are not part of the
specification and show that the properties notice the mistake.

Crashes need no action: nothing in memory survives one, and every invariant about files
holds in every state, so it holds wherever a crash falls.

### Bounds

`MaxRequests` and `Limit` bound the workload, `MaxTime` the clock; budgets, capacity,
windows and caps are the code's constants scaled down so that each is reached (a queue of
one or two, a budget of two or three frames, windows of zero or one tick). Deadlock
checking is off because a bounded workload ends; that nothing waits for ever is
`AllAnswered`.

## 4. `ProjectWorkflow`

One project, and the server processes that use its artifact root. The MCP host may start
several: nothing in memory is shared between them, and `project-persistence.ts` has a lock
file for that reason. Within a server `serial()` (`mcp/session-store-service.ts` 322-341)
runs one operation on a project at a time, so the state of a server is one operation.

| Variable | In the code |
| --- | --- |
| `project` | `projects/<id>.json`: revision, schema version, automated count, `preview.status` and `preview.revision`; everything the editor may change is one value, `edit`. The SHA-256 of a document is its equality |
| `lock` | `projects/<id>.json.lock`: its creator (the token), or `Orphan` once nobody will remove it |
| `renders` | `projects/renders/<id>-r<rev>-<kind>`: who wrote the file (its inode) and what it shows |
| `judgments` | `projects/judgments`: verdict, the document's digests, the preview's digest |
| `op[p]` | the operation of server `p`: its step, the document it loaded (`base`), the one it will store (`new`), lock attempts, the inode noted by `publish()` (`mine`), the digest of the judged preview (`shows`), whether `replace()` returned (`stored`) |

| Actions | Code |
| --- | --- |
| `CreateProject`, `ReviseProject`, `ApplyProfile`, `ApplyEditorial` | `mcp/session-store-service.ts` 449-468, 523-583; `reviseRecordingProject`, `src/project/recording-project.ts` 888-926 |
| `TakeLock`, `TakeLockFails`, `WaitForLock`, `Release` | `mcp/project-persistence.ts` 177-216 |
| `Compare`, `Write`, `WriteFails` | `replace`, `write`, `writeNew`, 140-158 and 257-298 |
| `RenderPreview`, `RenderFinal`, `PassGate` | `mcp/session-store-service.ts` 706-738 |
| `LookForArtifact`, `Publish`, `NoteInode`, `Withdraw`, `Unlink` | `mcp/render-publication.ts` 60-71 and 117-149 |
| `JudgePreview`, `DigestPreview`, `RecordJudgment` | `mcp/session-store-service.ts` 668-704, `mcp/project-preview-judgment-store.ts` 57-113 |
| `Crash` | the process ends between two file operations |

An action is the code between two operations on shared files, so other servers may act in
between. The document and judgment files are put in place by one rename or link, hence by
one step. Two things are coarser than the code: the loads of the judgment and of the
preview's digest at the gate are one step (judgments never change, and a preview that
changes between the two reads either has the digest the judgment names or has not), and a
server's inodes are not told apart over time (a file system may reuse an inode number).
A failed read ends an operation like a refused check does. Validation of a document, media
import, proposals and the renderer are external: what they yield is an edit, or a failure.

**`ProjectHistory`** is what the tools promise whoever uses them: one history of documents,
each step taken from the version it replaces (`Create`, `Revise`, `MarkReady`,
`MarkRendered`), automated revisions within their budget, one judgment per revision that
is about what the revision says (`Judge`), and no schema 2 document marked rendered
unless this very document was accepted. It has no servers, files, locks or artifacts;
`ProjectWorkflow` implements it with the identity on `project` and `judgments`.

Two things a reader may not expect are in both: a caller's revision may say of itself that
it is rendered (`reviseRecordingProject` keeps such a status, 921-924), and a schema 1
document is rendered final without a judgment while none is recorded (724).

### Bounds

Two servers are enough for every conflict over one file; a third one repeats the part of
the second. `ProjectServers` has revisions 0 and 1, so both schemas and a replacement by
either server occur, and no automated budget, so that the refusal is reached at once;
`ProjectSolo` has three revisions and a budget of one, so that the last automated revision
and one more occur. `LockAttempts` stands for the code's 40: one (give up at once) and two
(retry once) are the cases. `ReadyIsThere` is asked of one server without disk errors, where
it is the order of publication and replacement that decides, and proved of one (section
10); section 9 shows what two servers do to it.

## 5. `SessionLifecycle`

One session from creation to delivery or discard, with the server processes of its artifact
root. A client uses one server at a time and turns to another when it crashes.

| Variable | In the code |
| --- | --- |
| `token` | the owner token file |
| `dir` | the session's directory and helper directory: metadata, `broker-state.json`, `capture-summary.json`, telemetry, frames, artifacts |
| `server[s]` | a process: how far its boot is, the token it took, its entry in `activeCaptureBrokers`, its chain of `serial` calls |
| `broker` | the brokers started for the session: phase, accepted frames, whether a summary is still to be written |
| `call[c]` | a call of the client: kind, where it stands, the broker it starts, the telemetry it will write |

| Actions | Code |
| --- | --- |
| `BootRead`, `BootLink` | `readOrCreateOwnerToken`, `mcp/session-store-service.ts` |
| `Create`, `WriteReady`, `StartBroker`, `WriteWrappers`, `BrokerFault`, `UndoCreate` | `createSession`, `createSessionBroker`, `startBroker` |
| `Begin`, `Enter`, `Load`, `Inspect` | `serial`, `inspect`, `ensureBroker` |
| `MarkInterrupted`, `LookForSummary`, `WriteInterruptedSummary` | `ensureBroker` of a capture nobody runs |
| `StampEvent`, `CheckEvent`, `SaveEvents` | `recordEvent`, `appendEvent` |
| `CheckEvidence`, `WriteSealed`, `CloseBroker`, `RenderEvidence`, `RenderFault`, `Publish`, `Rename` | `seal`, `renderSealedSession` |
| `RemoveHelpers`, `RemoveSession` | `discard` |
| `Claim`, `Frame`, `StopCapture`, `FailCapture`, `WriteSummary` | the broker, as `CaptureBroker` promises it |
| `Crash` | the process ends, with its registry, locks, brokers and calls |

**`SessionContract`** is what a session promises whatever happens below: it opens once, its
events only grow and only while it is open, it is delivered once and only sealed, and once
gone it does not come back. `SessionLifecycle` implements it with `Stage`, the telemetry and
the report (`KeepsContract`, checked on every step).

**`Orderly`** is an assumption about the client: it inspects only while it makes no other
call. `inspect` takes no lock, and nothing in the server keeps it from meeting another call.
With `Orderly = FALSE`, TLC finds `NoStrayBroker`, `CaptureNotRetried`, `SealedIsWhole` and
`DiscardIsFinal` violated: after a restart, or while a discard or a seal has just closed the
broker of a session nobody claimed, an inspect finds a persisted `ready` and starts a broker
beside another one or in a directory that is being removed. `SessionRace` records one of
these behaviours; the other properties are checked, and hold, for an orderly client, which
still crashes servers, overlaps record, seal and discard, and inspects after any crash.

Bounds: two servers (a third boots like the second), one crash, four calls of any kinds (the
create and three more: two that compete and one that looks at the result), two brokers (the
first and its replacement), one frame a broker (so that "whole" can fail by one). Every safety
property of the session is proved without these bounds, four of them for an orderly client
(section 10).

## 6. The capture side

**`CaptureMailbox`**: `Write`, `Read`, `GiveUp` are the client (`postJson`), `BrokerHandles`
the post, `Tick` the timer, `List` to `RenameResponse` one `consume()`, `StopTimer` and `RemoveRoot`
`close()`. Either side may give up at any time: the two five-second limits are guards that
are always possible. `AnswerIsTrue`: the broker sees a request once at most, and a call that
ends well is one the broker did. Two requests and three polls: two polls overlap, a third
finds what they left.

**`BrowserObserver`**: the page shows documents and makes isolated worlds, the browser puts
events and answers on one `wire`, the helper installs one observer after the other
(`BeginInstallation`, `CleanedUp`, `Challenged`, `WorldMade`, `Evaluated`, `Discarded`) while
`Navigated` and `StopObserving` invalidate scopes. `ObserversGone`: a stop that succeeds leaves no observer in the
page. `EventsKept`: it loses no event an observer saw up to its flush. Three documents (the
first, one that interrupts an installation, one that interrupts its clean-up), two events,
one fault. `InOrder = TRUE` is a Playwright connection, which delivers events and answers in
order. The in-app browser polls for events (`browser-iab-helper.ts:82`), so the answer to the
flush may overtake them: with `InOrder = FALSE` TLC finds `EventsKept` violated, and only
`ObserversGone` is claimed of that adapter. Both are proved (section 10).

**`BrowserCapture`** and **`CaptureAdapter`** are the two capture paths inside a host:
a listener fills a bounded queue, one worker writes, acknowledges and reports a frame at a
time, commands are answered late or never, and occupancy degrades or fails the capture.
`SummaryIsTrue`: a summary that says "stopped" agrees with the log and the images.
`StoppedIsWhole`: an adapter that reports "stopped" stored, acknowledged and reported what it
accepted. Queue limits are one (degrade) and two (fail), with four and five frames offered,
so both limits are reached and passed. One root is captured once (`BrowserCapture`): a second
capture would number its images from one again.

## 7. Shared files and editing

**`PrivateMedia`**: an import is a chain of links and unlinks, each an action; any may fail,
and a server may die between two. `ImportsStay`: what an import returned stays whole, with
one encoding for its object, its metadata and its journal entry, whatever other imports of
the same content do. Two imports of one content as either kind, two encodings.

**`ProfileStore`**: creation takes the store's lock and then the profile's; an update takes
the profile's. `ProfilesKept`: never more than `MaxProfiles`, created once, the revision counts
every update written. Two creations and two updates over two ids and room for one.

**`ProjectDocument`**: `ValidProject` is the sum of the relations that `parseRecordingProject` and
`project-sections.ts` check, `Migrated` the migration of a schema 1 document, `CreateProject`
stores the first revision, `Revise` and `ApplyProfile` are the two ways to a next one, by hand
or automated. `DocumentSound` (proved, section 10): what is stored is valid and
counted, and a valid document is in no dead end other than those the code names: it takes
every profile unless a GIF would drop its audio, a trim is too short for the fades, its
legacy assets clash or its automated revisions are used up. Openings are valid
first-version documents: one clip or two, an asset or an id used twice, audio longer than a day.

**`EditorialProposal`**: `Propose`, `ApplyAccepted`, `ReviseByHand`. `OffersAreSafe`
(proved, section 10): zooms of a clip never overlap whatever is accepted after whatever
revision, and any part of a fresh offer can be taken. Up to two clicks where clips and zooms end, a shift by hand in both
directions.

## 8. Rendering

**`MediaProcess`**: `FairSemaphore` and `runMediaProcess`. A job waits, is granted, runs a
child, is aborted or times out, and settles. `PermitsKept` (proved, section 10): permits,
waiters and children agree. Three jobs for one permit: one runs, one waits, one gives up.

**`RasterReader`**: chunks of any size up to five bytes of frames of two; three frames, two
calls, so a restart behind and a read ahead occur, with a frame split over chunks and two in
one. `FrameIsRight` (proved, section 10): the frame returned is the one asked for and no chunk is
refused.

**`FrameTime`**: the rounding that the compiler and both renderers share, and the ticks of a
second.

**`Presentation`**: the parts of a clip, the schedule with its overlaps and the generator. A
part lasts whole ticks: ramps, which need a logarithm, and fractions of a tick are left out.
The code holds a source time to the end of its part; the moment is inside the part, so the
time never gets there, and the model leaves the test out.
`PresentationInStep` (proved, section 10): the n-th frame shows a time less than one frame per clip begun away from
its own place, no clip runs backwards, and a fade of two frames or more begins where its clip does. All
triples of six clips (trimmed, slowed, sped up, a crossfade as long as the clip) at three and
five frames of a second of twelve ticks, so that lengths round both ways.

**`Timeline`** (five frames of the same second): `Compile` is `normalizeFrameGrid` with the zoom selection and the verdict,
`RenderSealed` the slots and `assessActionAlignment`. `TimelineFaithful` (proved, section 10):
slots show the last frame of their time, each candidate is a zoom or lost to exactly one near
it, slots never go back, and the visible result of an action is not older than the action by
more than an output frame. It may be much younger: the window of `assessActionAlignment` is
one of slots, and a slot shows the frame received nearest to it. With frames at 0 s and 10 s
and an action at 5 s, the slot right after the action shows the frame of 10 s. So nothing is
claimed of how soon after the action its proof was received.

**`DeadTime`**: `Analyze`. `TrimsSpareTheActive` (proved, section 10): intervals cover the capture once, and nothing
proposed for a trim lies in the opening, the ending, the context of an action, between frames
that differ or outside a pair of frames.

The last three are functions of their input: each behaviour of the run is one input, and the
input sets (`RenderPlans`, `EventStreams`, `ReceivedCaptures`, `SampledCaptures` in
`MCComponents`) hold the boundaries where rounding and ordering meet.

## 9. Runs

| Run | Asks | Workload and faults |
| --- | --- | --- |
| `BrokerFrames` | `AckedFramesDurable`, `StoppedSummaryComplete`, `NoSilentDrop`, `FailureFinal` | claim, 3 frames of two sizes, stop; any disk write and the clock may fail |
| `BrokerMixed` | `TypeOK`, `BudgetsRespected`, `LogsReplayable` | claim, 3 frames, a scroll; queue of one; malformed bodies; the clock moves, so receipts and turns differ |
| `BrokerOverlap` | `AckedClicksDurable`, `CloseFailsLiveCapture`, `StateFileCurrent` | any six of claim, frame, 2 scrolls, click, `/fail`, `close()` |
| `BrokerMailbox` | `ScrollsKept` | one request at a time: claim, frame, 2 scrolls, pointer, 2 challenges for a cap of one, stop; three ticks |
| `BrokerLive` | `AllAnswered` | claim, 2 frames, stop, `close()`; disk faults; fairness |
| `BrokerScroll` | `ScrollsKept`, **violated** | concurrent senders: claim, frame, 3 scrolls, stop |
| `ProjectServers` | `TypeOK`, `FinalsWereAccepted`, `OneHistory` | two servers, two edits, two revisions, no automated budget; disk errors |
| `ProjectSolo` | `ReadyIsThere`, `OperationsEnd` | one server, two edits, three revisions, a budget of one; crashes; fairness |
| `ProjectRace` | `RemovesOnlyItsOwn`, **violated** | two servers, one edit; nothing fails |
| `Components` | `TypesOK`; `OneOwner`, `SealedIsWhole`, `CaptureNotRetried`, `RecordedOnce`, `NoStrayBroker`, `DiscardIsFinal`, `QueueIsLive`, `KeepsContract` (section 5); one property of each module of sections 6 to 8 | the instances of `MCComponents` |
| `Editorial` | `OffersAreValid`, **violated** | the editorial instance |
| `SessionRace` | `DiscardRemoves`, **violated** | one session, three calls, no crash, a client that is not orderly |

`Components` checks fourteen components in one run: `part` says whose behaviour it is, and
the others rest in their initial states or with empty variables. No component sees another, so this is fourteen
checks, not a composition. Calls, jobs and callers that differ in nothing but their names
begin in the order of their numbers (`Numbered`), which is a symmetry written out. TLC
reports one next-state action for such a run; its coverage of expressions was read for each
component, and every action of every one of them is taken.

Three concurrent frames are enough for the orders that matter: one writing, one queued
behind it, one waiting for the lock; a fourth repeats the second or the third. Two
competing handlers are enough for every overwrite, and the violated run needs three.

**Fairness** of the broker (`FairSpec`): the event loop takes every callback that stays possible, and
runs every continuation; disk operations complete or fail. Both are what Node and the
file system provide; nothing is assumed about clients.

**Fairness** of the project workflow: an operation a server has started goes on (its file
operations complete or fail, its timers fire). Nothing makes a server start one, and other
servers' progress is not assumed: a lock file that stays makes an operation give up.

No fairness is needed elsewhere: the properties of the other runs are about safety.

**What `BrokerScroll` shows.** A scroll outside the coalescing window awaits the flush
of the pending one (line 658) and then assigns `pendingScroll` without looking again. A
scroll that arrived meanwhile found nothing pending, stored itself and was answered
`accepted: true`; it is overwritten and its delta is in no line of the log of a capture
that stops cleanly. `browser-helper.ts:117` sends events without waiting, so the order is
reachable when a durable write is slower than two wheel events; the mailbox sends one
request at a time, and `BrokerMailbox` shows that there the property holds.

**What `ProjectRace` shows.** `publish()` looks for the destination, renames, and reads the
inode it would have to remove only afterwards (`mcp/render-publication.ts` 117-134). Two
servers that render the same revision both find nothing and both rename; the first one then
notes the inode of the second one's file. When it fails to get the lock, or loses the
compare-and-swap, `unpublish()` finds the inode it noted and removes the other server's
artifact, although the other's replacement goes through: the document is "ready" and its
preview is gone. The lock file does not help, since it is taken after the publication.

**What `Editorial` shows.** `buildEditorialProposal` takes a digest of its zooms in the order
of their times (`editorial-proposal.ts:125`); `validateEditorialProposal` sorts them by id,
as text, before it takes it again (`:175`, `:209`). The ids contain the start in decimal, so
zooms of one clip at 2 and at 10 seconds change places, the digests differ, and a proposal
just made cannot be accepted. The properties that concern what acceptance does
(`OffersAreSafe`) hold.

**What `SessionRace` shows.** An inspect has loaded a session when a discard closes its
broker; it then sees no broker and a persisted `ready`. `createCaptureBroker` makes
`frames/raw` in the session directory (`capture-broker.ts:293`), after the discard has
removed it. The wrappers cannot be written, so the inspect fails and its broker is closed,
but the directory is there again, without metadata: no call can load or discard it.

## 10. Proofs

The proofs about the broker start from `BrokerAssumption` (`CaptureBroker.tla`): the bounds and budgets
are natural numbers, the three capacities are not zero, and the clients' final counts are
records of naturals. The theorems hold for every number of requests, every workload, fault
set, window and budget.

**`CaptureBrokerProofs`: types** (`TypeCorrect`, `TypesOK`). `TypeOK` is not inductive:
where a flush leads depends on the kind of the handler, and `RejectJob` hands a failed
flush to the right caller only if jobs stand where the code awaits one. `TypeInv` adds
`WellPlaced(req[r])`, which says for each program counter what kinds of handler may be there
and where a job may be waited for. One lemma per operator that replaces a handler
(`GotoType`, `AnswerType`, `SetPhaseType`, `EnqueueType`, `FlushType`, ...), then one lemma
per action. The part that needs thought is that an offset is never negative: an event
received before the first frame and processed after it is lifted to zero, and a frame
received earlier than its predecessor is placed one tick after it.

**`CaptureBrokerProofs`: evidence** (`Safe`, `AcksAreDurable`, `StoppedIsComplete`,
`FailureIsFinal`). The three properties follow from one inductive invariant, `IInv`, which
every TLC run also satisfies:

- `JobsInOrder`: every linked job has a seat of its own in `persistenceTail`, between
  `served` and `next`, and only the one at `served` has begun. So one write at most is in
  progress, and settling it frees exactly its own seat.
- `SettledMeansQuiet`: when a handler that awaited the chain continues, no write is in
  progress. It needs `JobsInOrder` (the awaited link was the last one, so all before it are
  over) and the turn order of `JobTurn` (the job chained after that link has not begun).
- `FailingMeansFailed`: a failed flush reaches `/stop`'s verdict only with `phase` failed,
  so the one path to "stopped" that skips the wait cannot decide "stopped".
- `Frozen`: once the phase, a summary or a summary's text says "stopped", no write is in
  progress and the phase is "stopped" or "failed", so none can begin (a job begins only
  while the capture is live).
- `StoppedCounts`: `acceptedFrames` is the length of the frame log, and a "stopped" text or
  file carries that length.
- `AcksLogged`: the answer 200 of a frame is given by the job that appended its line, after
  the image was put in place.

Each step replaces one handler and does one of eight things to the evidence (`Effect`:
nothing, fix a summary, link, begin, put an image, append, fail, settle). Its section 2
shows which action does which, section 3 that each effect keeps each part of
`IInv`; adding an action means one more lemma in section 2.

**`CaptureBrokerLedger`: what is counted is what is written** (`Ledger`,
`LogsCanBeReplayed`, `ClicksAreDurable`, `StateFileIsCurrent`, `CloseHasTheLastWord`,
`BudgetsHold`, `NoFrameIsDropped`, `ScrollsAreKept`), from `BrokerAssumption`. A step of a handler makes one of
two dozen moves (`Move(r)`: give out a number, link a job, append a line, fail, begin to
save, ...). Section 2 of the module shows which action makes which; the other sections show
that a move keeps one part of `LedgerInv`:

- `InPlace`: a request that has not arrived is untouched, the others are where the code of
  their kind can be.
- `StateInv`: one claim is ever granted (`OneClaim`), nothing runs before it (`TokenFirst`),
  which phases a handler may be writing (`Savers`), and the file says the phase, or somebody
  is about to write it (`FileSays`).
- `LogsInv`: a number or an offset that was given out is that of the line at its place in
  the log or of the next job in `persistenceTail`, and is lost only by a job that failed,
  after which no line follows. `FramesInOrder` and `EventsInOrder` are stronger than
  `LogsReplayable`, which speaks of what is in the files only.
- `CloseInv`: nobody reports on a capture that goes on (`ReportsOver`), a `/stop` beyond its
  verdict knows that nothing is being written (`DecidedQuiet`), and once `close()` failed a
  live capture, every summary written or about to be says "failed" and counts every line
  there will ever be (`LastWord`).
- `LockInv`: one frame is between the lock and the queue, the one at `served`.
- `BudgetInv`: `pendingWrites` is the number of linked jobs not over (`PendingCounted`);
  bytes in flight are the sizes of their frames (`BytesInFlight`). Between the check of a
  budget and the count the frame is out of both sums, which is why the lock is needed: only
  one frame is there (`FramesFit`). The sum is stated link by link, by a function that gives
  the size of what is linked up to each place (`Chained`), so that settling the front and
  linking at the back each change one end.
- `HandCounted`: until the capture is over no frame was rejected, and those received are the
  accepted ones and the ones in hand.

`ScrollsAreKept` is about `SerialSpec`, clients that wait for each answer (`BrokerScroll`
shows the others losing a scroll). Its `ScrollInv` adds that one handler is at work
(`Alone`), that until the capture fails an accepted scroll is in the log, pending or in a
job (`Accounted`), that a scroll past its checks finds no stop decided, and that a `/stop`
past its flush finds nothing pending (`Emptied`). So at the verdict nothing is pending and no
job is under way, and the log is where the scrolls are.

**`ProjectProofs`: one history** (`TypesOK`, `FinalsAreAccepted`, `OneHistoryHolds`), from
`WorkflowConstants`: any number of servers, edits, revisions, lock attempts, any budget and
any faults. The inductive invariant `IInv` says, besides the types and `FinalsWereAccepted`:

- a server between taking and releasing the lock file is the one it names, and at `write`
  the document is still the one it loaded (`Sound`): this is what makes a replacement a
  step from the version it replaces;
- there is a function `f` from revisions to contents such that the document, every artifact,
  every judgment and every operation under way say `f[r]` of revision `r`, none of them
  about a revision later than the current one (`Agreed`). A revision's content never changes
  once stored, because `Compare` admits a replacement only of the very document it came
  from: so a preview that was judged shows the document that was judged;
- an operation past the gate of a schema 2 document has its acceptance among the judgments,
  where it stays;
- what its kind says of an operation's documents (`Shape`).

A store extends `f` at the new revision (`StoreKeeps`); every other action keeps it. Only
`Write`, `WriteFails` and `RecordJudgment` change what `ProjectHistory` sees
(`StoreImplements`, `RecordImplements`); the rest stutter.

**`ProjectProofs`: a ready preview is there** (`ReadyIsAlwaysThere`), under `OneServerOnly`
and `DiskWorks`, crashes included. `Kept` adds that an operation that has not stored
anything still finds the document it loaded, so a render that fails to publish withdraws
only its own file, and that a preview is rendered only where none is, hence of a document
that is not ready. Both hypotheses are needed: `ProjectRace` shows what a second server
does, and a failed write may leave the stored document without its preview.

**`SharedResourcesProofs`: the render budget** (`InvariantHolds`, `PermitsAreKept`), from
`MediaConstants`: any finite set of jobs and any limit. `PermitsKept` is not inductive: that a
child closes gives back a permit only if its job runs, and the queue's head is granted one
only if that job still waits. `IInv` adds `RunsItsChild` (a child is alive only while its job
runs) and splits the queue into `QueueWaits`, `WaitersQueue` and `OncePerJob`, stated place by
place, so that taking the head and taking out a waiter that gave up are one lemma
(`WithoutPlaces`). Each action does one of three things to the budget: nothing, a job leaves
the queue, a job takes or gives back a permit.

**`SharedResourcesProofs`: the raster reader** (`RasterFrameIsRight`), from `RasterConstants`: any
video, any frame of at least one byte, any largest chunk. `FrameIsRight` only speaks of a
frame that was returned. `RasterInv` says where the bytes are meanwhile: what the assembler
holds follows the frames taken and ends where the decoder has got to (`Follows`), the index
counts the frames taken except while one is read, and the frame kept is the one the index
names (`AtFrame`). Only sequences are cut and joined (`RunParts`, `RunsJoin`), so no byte is
lost or taken twice whatever the sizes of the chunks.

**`SessionProofs`: the owner and the session lock** (`LifecycleInvariant`,
`LockNeverOrphaned`, `OwnersAgree`), from `LifecycleConstants`: any servers, calls, brokers,
frames and crashes. `QueueIsLive` is not inductive: a call that ends takes the head of the
queue off, whoever that is. `IInv` adds that the only locked call past the lock is the head
(`HeadRuns`), that the queue names a call once, and that a server the client does not talk
to has an empty queue (`OthersRest`), so that the one it turns to after a crash waits for
nobody. A call does one of three things to the queue: it begins (`Begins`), goes on
(`GoesOn`) or ends (`Ends`). `OneOwner` is inductive once the types are known.

**`SessionProofs`: the session keeps its contract** (`ContractInvariant`,
`EventsRecordedOnce`, `SessionImplementsContract`), from `LifecycleConstants`, for any
client, orderly or not. `ContractInv` joins `IInv` with who may act at a
step (`WhoActs`), that a call past the lock works on what it loaded (`Untouched`), and
`Sound`: no metadata before the create wrote it (`NoMeta`), a session that is open is not
delivered (`OpenUndelivered`), what was checked is still there (`StillThere`) and an event is
told at most once (`ToldOnce`). The refinement is shown step by step: eight actions are steps
of `SessionContract`, the others leave `Stage`, the telemetry and the report alone.

**`SessionCaptureProofs`: a capture is begun once** (`OrderlyInvariant`, `CaptureBegunOnce`,
`NoBrokerStrays`), for an orderly client (`Orderly`; section 5 says what an overlapping
`inspect` does). `TurnInv` says which calls may be under way together: nothing before
`create` is answered, nothing beside an `inspect`, and locked calls in a queue. With
`HeadRuns` it follows that at most one call is past the lock (`OneRuns`), so what a call read
before it starts a broker still holds when it starts it. `OnceInv` says what it read: once a
capture began, the file does not say "ready", no call is about to start a broker, and no
other broker listens. Eighteen of the twenty-four steps of a call start and close no broker
and are one lemma (`QuietKeeps`).

**`SessionCaptureProofs`: sealed is whole, discarded is gone** (`StoredInvariant`,
`SealedStaysWhole`, `DiscardLeavesNone`), for an orderly client. `WholeInv` says that brokers
listen only in a directory that exists, that a log and a summary that says "stopped" carry
what one broker accepted, and that what is sealed is stopped (`Stored`); that a call past its
check of the summary knows what the file still says (`Asked`); and that nothing is written
after a discard (`DiscardedStays`). TLC violates both properties without `Orderly`.

**`CaptureSideProofs`: the capture side**, without assumptions on the constants.

- `AdapterStopsWhole`: until the capture fails nothing is rejected and what was accepted is
  reported, queued or with the worker (`Whole`); a stop passes its command only when no frame
  can come any more, and the worker only when the queue is empty.
- `BrowserSummaryIsTrue`: until the capture fails the worker takes the frames in order
  (`InStep`: images, acknowledgements and log say how far the frame in hand has got); a stop
  beyond the worker has nothing to wait for (`AfterStop`), so its verdict, which looks at the
  counters only, is about what is in the files (`Judged`). The lines `maxOccupancy` draws do
  not matter, so they may be any.
- `ObserversAreGone`, in whichever order the wire delivers: a command has one answer and one
  who waits for it (`OneAnswer`); installations are for ever later scopes, and none of them is
  the committed one (`TasksInOrder`); and an observer in the page is the committed one, is
  retired, is being installed, or is named by a clean-up under way or one that failed
  (`Covered`). When a stop that went well is over, none of these is left.
- `EveryEventKept`, on a wire that keeps its order (`InOrder`): the events owed are of the
  committed scope and lie ahead of the answer to the flush and of every navigation
  (`Account`, `OwedFirst`), so nothing can replace the scope before they are posted. That a
  committed observer whose world is still there has no navigation on the wire (`Fresh`) needs
  the same of an evaluation whose answer is on its way (`Aligned`).
- `MailboxAnswerIsTrue`: one `consume()` runs at a time (`InTurn`), the names it has listed
  differ and those ahead were not posted yet (`Sound`), and a request the broker has seen is in
  the mailbox only while the `consume()` that posted it has not removed it (`Asked`). So a
  name listed twice, by two polls, is gone when the second one comes to it.

**`SharedResourcesProofs`: files several servers share.**

- `StoreProfilesKept`, from `ProfileConstants` (a bound that is a natural number; the mark of
  no caller is no caller): a call at work holds the lock of its profile, a creation that of
  the store as well, and what it found is still so when it writes (`Steady`); the revision
  counts the calls that wrote (`Counted`). A rename whose error comes late has written too.
- `MediaImportsStay`, from `ImportConstants` (a missing file is told from every content,
  kind and encoding): an object has one content and metadata never come without their object
  (`SoundPairs`); an import about to take an object back has published it itself and no
  metadata of anyone is beside it (`Sound`), and at most one import is there for a pair
  (`OneUndoes`). So a clean-up never meets a complete pair, and a complete pair never changes.

**`EditingProofs`: lists of any length.** `DeadTime` and `EditorialProposal` make their lists
one element after the other, each joined to the last where the two meet. What such a
function computes is proved by the least element that would break the claim: a set of
numbers has one (`LeastNumber`), so a function given step by step exists (`StepByStep`), and
what holds at its start and is handed on holds at its end (`HandedOn`). Elements are put in
order by how many lie below them (`Rank`): under a strict total order on a finite set every
place is taken once (`EveryRankTaken`).

- `NothingNeededIsTrimmed`, from `InputsAreTimed` (times and limits are natural numbers, as
  `parseConfig` and the sample parsers demand): between two neighbouring boundaries nothing
  changes of what `classifyInterval` looks at (`SameFrames`), so what is not needed at the
  first moment of an interval is not needed in all of it (`IntervalSpares`). The intervals
  tile the capture (`BuiltSound`), and merging keeps a tiling whose trims are spared and long
  enough (`LengthenedTile`, `MergedSound`).
- `OffersStaySafe`, from `ReviewConstants` (the projects are valid, the events have natural
  times, a shift is an integer). `ReviewInvariant`: the stored project stays valid, the events
  fit it and an offer is what its own project gives. Clips and events have ids of their own,
  so the candidates are in a total order (`CandidatesOrdered`); taken in that order, the joined
  windows follow each other (`Grown`, `CoalesceGrows`). A joined window is clear of every zoom
  that both were clear of, because they meet (`JoinedSuits`): a zoom between them would have
  kept them apart. Accepting any part (`AcceptedFits`) and moving the end of the first clip
  (`RevisedFits`) leave a valid project.
- `PresentationsKeepStep`, from `SecondAssumption` and `PlansAreTyped` (a frame is no shorter
  than a tick; the speed regions of a clip are in order and apart, which `noOverlaps` of the
  project schema demands). The parts tile their clip (`RatePartsTile`), so a source time
  belongs to one part (`PresentationTimeInside`), and going from a presentation time to its
  source and back comes to the same moment or to the tick after it (`RoundTrip`). Starts of clips
  never go back, since no fade is longer than its clip (`TheScheduleIsSound`). The invariant
  `PresentationInvariant` says that the frames shown are those of a walk, one place after the
  other; what a place adds to the distance between the number of a frame and its time is
  carried along the walk (`NextKept`), less than a frame to a clip begun. The times of a clip grow
  along the walk (`ShownLater`), and of two frames or more in a fade the last one is within a
  frame of its end (`LastFrameFades`).
- `TimelinesAreFaithful`, from `SecondAssumption` and `TimelineConstants` (rates and the visible change are positive,
  times are natural numbers, and two ids of events never compare as equal). A frame of a stream
  that fits has an id of its own, since the hashes are as many as the frames
  (`CompiledFrames`); a slot shows the frame numbered by how many its time knows
  (`ActiveFacts`), and the first slot of a frame is the one that counts it
  (`EachFrameCountsOnce`, a bijection). Candidates are ranked strictly (`OutranksStrictly`) and
  settled one by one: the next one is far from every zoom, or loses to the first one near it,
  and what was settled stays so (`ConsiderSettles`). The frame nearest to a moment moves
  forward with it (`NearestGrows`), so the frame that differs from the one before the action
  was received after that slot, and the next slot is not before the action (`ResultIsLate`).

- `DocumentsStaySound`, from `DocumentConstants` (the documents a project opens with have the
  fields the parser gives them, whether their values fit together or not; profiles have passed
  `validateRecordingProfileSnapshot`; what is stored before `CreateProject` is no project).
  `DocumentInvariant` adds the types. That a valid project is in no dead end needs no more
  than its validity: uses of legacy assets are registered one by one, each use with one entry
  long enough for it (`LegacyMediaRegister`), and without a clash every asset keeps its id
  (`MigrationKeepsIds`), so every reference of the migrated project finds what it names; a
  clash always fails, since tracks and pictures still name the asset by its old id
  (`Migrates`, an equivalence). A mix has as many entries as there are tracks and no two of
  one track, so every track has one (`EveryTrackMixed`, the pigeonhole principle) and fades
  are refused for exactly the trims they do not fit in (`ProfiledMixOK`). The first entry is
  or becomes the primary, so no other ducks against nothing.

Only model-checked: `AllAnswered` and `OperationsEnd`, since liveness is out of the prover's
reach, and `TypesOK` of `Components`, the conjunction of the components' type invariants: a
component's type invariant is proved where its safety theorem rests on it, the conjunction
over the composed instance is not. `OffersAreValid`, `ScrollsKept` of
concurrent senders, `RemovesOnlyItsOwn` and `DiscardRemoves` are what the violated runs
refute.

## 11. Not modelled

In the broker: the reasons recorded with a failure, the degradation hint, `receivedFrames`
in the summary, the wording and the exact status of refusals that change nothing; a failed
write of `broker-state.json` or of the summary (the rejection is unhandled and ends the
process, which is a crash); two summaries sharing a temporary name within a millisecond; a
second `close()`, which returns at once.

In the project workflow: a second `cleanup()` and the private candidate and staging files,
which no other operation names; several projects, which share nothing but directories.

In the session: the path, owner and permission checks of directories are one guard; several
sessions, which share only the owner token; the clock of recorded events beyond their order.

On the capture side: the contents of frames and events; removing a mailbox file never fails
(one that stays would be posted again); the teardown of a failed helper start, which is
bounded by time; click and scroll of the in-app browser. A rejected `stopScreencast` leaves
the entry of a capture in `capture-runtime.js` and a later start of that root is refused.

In files and editing: temporary files with random names; the inspection of what is imported;
field-by-field validation of texts, colours and geometry; confidences. A profile's lock that
a crash leaves is never broken, so that profile cannot be updated any more, and a crash
between the two links of an import makes later imports of that content fail: both are what
the code does, and the properties say nothing against it.

In rendering: pixels, cursor, captions, ramps between two rates (they need a logarithm), the
arguments of FFmpeg. A child is its process group: descendants that outlive it are not told
apart. A handle of `private-visual-raster.ts` is not used after an error, since `frameAt`
advances its index before it reads. Constant rates cover the mapping; three clips that
overlap at once may jump, which `FadesFromStart` excludes by asking for room for both
transitions, and a transition of one frame may be dropped by rounding. A media track in
output time on a slowed clip asks for frames outside its trim and the render is refused.

Left out as components: encoders and render sources, contracts, the MCP surface and scripts
are straight-line code, schemas or build tooling without state of their own;
`plugin-runtime/` is generated from `mcp/` and `src/`.
