----------------------------- MODULE MediaProcess -----------------------------
(***************************************************************************)
(* FFmpeg and FFprobe children under the process-wide render budget:       *)
(* src/src/encoder/media-process.ts.  A job asks the semaphore for a       *)
(* permit, spawns its child, feeds it, and gives the permit back when the  *)
(* child has closed; an abort, the deadline, an output over its bound or a *)
(* failed input terminates the child, with SIGKILL after a grace period.   *)
(*                                                                         *)
(* A job's child stands for its process group, which closes as a whole.    *)
(***************************************************************************)
EXTENDS Integers, Sequences, FiniteSets

CONSTANTS
  Jobs,    \* calls of runMediaProcess
  Limit    \* MEDIA_PROCESS_POLICY.maxConcurrent

ASSUME MediaConstants == IsFiniteSet(Jobs) /\ Limit \in Nat \ {0}

VARIABLES
  active,    \* FairSemaphore.active
  waiters,   \* FairSemaphore.waiters
  job        \* the calls

mediaVars == <<active, waiters, job>>

JobPcs == {"idle", "waiting", "granted", "running", "settled"}
Children == {"none", "alive", "closed"}

\* stopping: forcedFailure, and whether the kill timer has fired.
\* input: what writeInput has come to; code: whether the child exited with 0.
Job == [pc: JobPcs, aborted: BOOLEAN, child: Children,
        stopping: {"no", "term", "kill"}, input: {"writing", "written", "failed"},
        code: {"none", "zero", "other"}, result: {"none", "ok", "failed"}]
NewJob == [pc |-> "idle", aborted |-> FALSE, child |-> "none", stopping |-> "no",
           input |-> "writing", code |-> "none", result |-> "none"]

MediaTypeOK ==
  /\ active \in Int
  /\ waiters \in Seq(Jobs)
  /\ job \in [Jobs -> Job]

MediaInit ==
  /\ active = 0
  /\ waiters = <<>>
  /\ job = [j \in Jobs |-> NewJob]

-----------------------------------------------------------------------------
(* The semaphore. *)

Holders == {j \in Jobs : job[j].pc \in {"granted", "running"}}

Ask(j) ==
  /\ job[j].pc = "idle"
  /\ IF job[j].aborted
     THEN /\ job' = [job EXCEPT ![j].pc = "settled", ![j].result = "failed"]
          /\ UNCHANGED <<active, waiters>>
     ELSE IF active < Limit /\ waiters = <<>>
     THEN /\ active' = active + 1
          /\ job' = [job EXCEPT ![j].pc = "granted"]
          /\ UNCHANGED waiters
     ELSE /\ waiters' = Append(waiters, j)
          /\ job' = [job EXCEPT ![j].pc = "waiting"]
          /\ UNCHANGED active

Without(s, i) == [k \in 1..(Len(s) - 1) |-> s[IF k < i THEN k ELSE k + 1]]

\* Mutant: the cancelled waiter is rejected but stays in the queue.
CancelWaiting_KeepsPlace(j) ==
  /\ job[j].pc = "waiting"
  /\ job' = [job EXCEPT ![j].aborted = TRUE, ![j].pc = "settled", ![j].result = "failed"]
  /\ UNCHANGED <<active, waiters>>

\* The listener of a waiting job takes it out of the queue and rejects it.
CancelWaiting(j) ==
  /\ job[j].pc = "waiting"
  /\ \E i \in DOMAIN waiters : waiters[i] = j /\ waiters' = Without(waiters, i)
  /\ job' = [job EXCEPT ![j].aborted = TRUE, ![j].pc = "settled", ![j].result = "failed"]
  /\ UNCHANGED active

\* release: the permit passes to the waiter at the head, if there is one.
Release(j, settled) ==
  IF waiters = <<>> \/ active > Limit
  THEN /\ active' = active - 1
       /\ job' = [job EXCEPT ![j] = settled]
       /\ UNCHANGED waiters
  ELSE /\ waiters' = Tail(waiters)
       /\ job' = [job EXCEPT ![j] = settled, ![Head(waiters)].pc = "granted"]
       /\ UNCHANGED active

-----------------------------------------------------------------------------
(* The child. *)

Terminated(r) == IF r.stopping = "no" /\ r.child = "alive" THEN [r EXCEPT !.stopping = "term"] ELSE r

\* runAdmittedMediaProcess up to its first await: a signal that was aborted since the
\* grant terminates the child at once.
Spawn(j) ==
  /\ job[j].pc = "granted"
  /\ LET child == [job[j] EXCEPT !.pc = "running", !.child = "alive"]
     IN job' = [job EXCEPT ![j] = IF child.aborted THEN Terminated(child) ELSE child]
  /\ UNCHANGED <<active, waiters>>

\* The executable cannot be started: "error" and "close" follow.
SpawnFails(j) ==
  /\ job[j].pc = "granted"
  /\ job' = [job EXCEPT ![j].pc = "running", ![j].child = "closed", ![j].code = "other"]
  /\ UNCHANGED <<active, waiters>>

Abort(j) ==
  /\ ~job[j].aborted /\ job[j].pc \in {"idle", "granted", "running"}
  /\ job' = [job EXCEPT ![j] = Terminated([@ EXCEPT !.aborted = TRUE])]
  /\ UNCHANGED <<active, waiters>>

\* The deadline, or output over its bound.
Overrun(j) ==
  /\ job[j].child = "alive" /\ job[j].stopping = "no"
  /\ job' = [job EXCEPT ![j] = Terminated(@)]
  /\ UNCHANGED <<active, waiters>>

KillTimer(j) ==
  /\ job[j].child = "alive" /\ job[j].stopping = "term"
  /\ job' = [job EXCEPT ![j].stopping = "kill"]
  /\ UNCHANGED <<active, waiters>>

WriteInput(j) ==
  /\ job[j].child = "alive" /\ job[j].input = "writing"
  /\ \E how \in {"written", "failed"} :
       job' = [job EXCEPT ![j] = IF how = "failed" THEN Terminated([@ EXCEPT !.input = how])
                                 ELSE [@ EXCEPT !.input = how]]
  /\ UNCHANGED <<active, waiters>>

\* A child may exit by itself at any time, and with 0 even when it was told to stop.
ChildCloses(j) ==
  /\ job[j].child = "alive"
  /\ \E code \in {"zero", "other"} :
       /\ job[j].stopping = "kill" => code = "other"
       /\ job' = [job EXCEPT ![j].child = "closed", ![j].code = code]
  /\ UNCHANGED <<active, waiters>>

\* completed has settled and the finally of runMediaProcess releases the permit. Input
\* still being written when the child closes makes the call fail.
Succeeded(r) == r.code = "zero" /\ r.stopping = "no" /\ r.input = "written"

\* Mutant: the call fails as soon as its child was told to stop.
Settle_OnTerminate(j) ==
  /\ job[j].pc = "running" /\ (job[j].child = "closed" \/ job[j].stopping = "term")
  /\ Release(j, [job[j] EXCEPT !.pc = "settled",
                               !.result = IF Succeeded(job[j]) THEN "ok" ELSE "failed"])

Settle(j) ==
  /\ job[j].pc = "running" /\ job[j].child = "closed"
  /\ Release(j, [job[j] EXCEPT !.pc = "settled",
                               !.result = IF Succeeded(job[j]) THEN "ok" ELSE "failed"])

JobStep(j) ==
  \/ Ask(j) \/ CancelWaiting(j) \/ Abort(j)
  \/ Spawn(j) \/ SpawnFails(j) \/ WriteInput(j) \/ Overrun(j) \/ KillTimer(j)
  \/ ChildCloses(j) \/ Settle(j)

MediaNext == \E j \in Jobs : JobStep(j)

MediaSpec == MediaInit /\ [][MediaNext]_mediaVars

-----------------------------------------------------------------------------
(* Properties. *)

\* active counts exactly the jobs that hold a permit, never more than Limit; jobs wait
\* only while every permit is held; the queue holds the waiting jobs and each once; and
\* no child is alive whose job does not hold its permit ("terminates its descendants
\* before the permit is released", media-process.ts:174).
PermitsKept ==
  /\ active = Cardinality(Holders) /\ active <= Limit
  /\ waiters # <<>> => active = Limit
  /\ {waiters[i] : i \in DOMAIN waiters} = {j \in Jobs : job[j].pc = "waiting"}
  /\ \A i, k \in DOMAIN waiters : waiters[i] = waiters[k] => i = k
  /\ \A j \in Jobs : job[j].child = "alive" => j \in Holders
==============================================================================
