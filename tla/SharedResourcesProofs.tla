------------------------ MODULE SharedResourcesProofs ------------------------
(***************************************************************************)
(* What the jobs and the calls of the servers share: the render permits,   *)
(* the bytes a raster reader has decoded, the recording profiles under     *)
(* their lock files and the private media of a project, for any jobs,      *)
(* frames, calls, identifiers and contents.                                *)
(***************************************************************************)
EXTENDS MediaProcess, RasterReader, ProfileStore, PrivateMedia, FiniteSetTheorems,
  SequenceTheorems, TLAPS

-----------------------------------------------------------------------------
(* 1. The render budget.  PermitsKept becomes inductive with two more      *)
(* facts: a child is alive only while its job runs, so a waiting or        *)
(* settled job has none, and the variables have their types.  The queue is *)
(* described place by place, so that taking its head and taking out a      *)
(* cancelled job are the same lemma.                                       *)
RunsItsChild == \A j \in Jobs : job[j].child = "alive" => job[j].pc = "running"
QueueWaits == \A i \in DOMAIN waiters : job[waiters[i]].pc = "waiting"
WaitersQueue == \A j \in Jobs : job[j].pc = "waiting" => \E i \in DOMAIN waiters : waiters[i] = j
OncePerJob == \A i, k \in DOMAIN waiters : waiters[i] = waiters[k] => i = k
PermitsCounted == active = Cardinality(Holders) /\ active <= Limit
FullBeforeWaiting == waiters # <<>> => active = Limit

IInv ==
  /\ MediaTypeOK
  /\ PermitsCounted
  /\ FullBeforeWaiting
  /\ QueueWaits
  /\ WaitersQueue
  /\ OncePerJob
  /\ RunsItsChild

(* Data. *)

(* The jobs that hold a permit are a finite set.                           *)
LEMMA HoldersFinite == IsFiniteSet(Holders) /\ Cardinality(Holders) \in Nat
  BY MediaConstants, FS_Subset, FS_CardinalityType DEF Holders

(* What terminating a child changes of its job.                            *)
LEMMA TerminatedKeeps ==
  ASSUME NEW r \in Job
  PROVE  /\ Terminated(r) \in Job
         /\ Terminated(r).pc = r.pc
         /\ Terminated(r).child = r.child
  BY DEF Terminated, Job, JobPcs, Children

(* Taking out one place of a sequence: what is left, and where it was.     *)
LEMMA WithoutPlaces ==
  ASSUME NEW S, NEW s \in Seq(S), NEW i \in DOMAIN s
  PROVE  /\ Without(s, i) \in Seq(S)
         /\ DOMAIN Without(s, i) = 1..(Len(s) - 1)
         /\ \A k \in 1..(Len(s) - 1) :
              /\ (IF k < i THEN k ELSE k + 1) \in DOMAIN s \ {i}
              /\ Without(s, i)[k] = s[IF k < i THEN k ELSE k + 1]
         /\ \A m \in DOMAIN s \ {i} :
              \E k \in 1..(Len(s) - 1) : m = IF k < i THEN k ELSE k + 1
<1> DEFINE n == Len(s)
<1>1. n \in Nat /\ DOMAIN s = 1..n /\ i \in 1..n
  BY LenProperties
<1>2. \A k \in 1..(n - 1) : (IF k < i THEN k ELSE k + 1) \in 1..n \ {i}
  BY <1>1
<1>3. \A k \in 1..n : s[k] \in S
  BY <1>1, ElementOfSeq
<1>4. Without(s, i) \in Seq(S) /\ DOMAIN Without(s, i) = 1..(n - 1)
  <2>1. n - 1 \in Nat
    BY <1>1
  <2>2. Without(s, i) \in [1..(n - 1) -> S]
    BY <1>2, <1>3 DEF Without
  <2> QED BY <2>1, <2>2
<1>5. \A k \in 1..(n - 1) : Without(s, i)[k] = s[IF k < i THEN k ELSE k + 1]
  BY DEF Without
<1>6. ASSUME NEW m \in 1..n \ {i}
      PROVE  \E k \in 1..(n - 1) : m = IF k < i THEN k ELSE k + 1
  <2>1. CASE m < i
    BY <1>1, <2>1
  <2>2. CASE m > i
    <3>1. m - 1 \in 1..(n - 1) /\ ~(m - 1 < i) /\ m = (m - 1) + 1
      BY <1>1, <2>2
    <3> QED BY <3>1
  <2> QED BY <1>1, <2>1, <2>2
<1> QED BY <1>1, <1>2, <1>4, <1>5, <1>6

(* The three kinds of step. *)

(* A job goes on without asking for, getting or giving up a permit.        *)
LEMMA LocalStep ==
  ASSUME IInv, NEW j \in Jobs, NEW r \in Job,
         job' = [job EXCEPT ![j] = r], UNCHANGED <<active, waiters>>,
         r.pc = "waiting" <=> job[j].pc = "waiting",
         r.pc \in {"granted", "running"} <=> job[j].pc \in {"granted", "running"},
         r.child = "alive" => r.pc = "running"
  PROVE  IInv'
<1>1. /\ job \in [Jobs -> Job]
      /\ job' \in [Jobs -> Job] /\ job'[j] = r
      /\ \A k \in Jobs : k # j => job'[k] = job[k]
  BY DEF IInv, MediaTypeOK
<1>2. \A k \in Jobs : job'[k].pc = "waiting" <=> job[k].pc = "waiting"
  BY <1>1
<1>3. Holders' = Holders
  BY <1>1 DEF Holders
<1>4. \A i \in DOMAIN waiters : waiters[i] \in Jobs
  BY LenProperties, ElementOfSeq DEF IInv, MediaTypeOK
<1>5. MediaTypeOK' /\ PermitsCounted' /\ FullBeforeWaiting' /\ OncePerJob'
  BY <1>1, <1>3 DEF IInv, MediaTypeOK, PermitsCounted, FullBeforeWaiting, OncePerJob
<1>6. QueueWaits' /\ WaitersQueue'
  BY <1>2, <1>4 DEF IInv, QueueWaits, WaitersQueue
<1>7. RunsItsChild'
  BY <1>1 DEF IInv, RunsItsChild
<1> QED BY <1>5, <1>6, <1>7 DEF IInv

(* One job leaves the queue, from whatever place, and no other's waiting   *)
(* changes.                                                                *)
LEMMA LeavingTheQueue ==
  ASSUME IInv, NEW i \in DOMAIN waiters, waiters' = Without(waiters, i),
         job'[waiters[i]].pc # "waiting",
         \A k \in Jobs : k # waiters[i] => (job'[k].pc = "waiting" <=> job[k].pc = "waiting")
  PROVE  waiters' \in Seq(Jobs) /\ QueueWaits' /\ WaitersQueue' /\ OncePerJob'
<1> DEFINE Place(k) == IF k < i THEN k ELSE k + 1
<1>1. waiters \in Seq(Jobs)
  BY DEF IInv, MediaTypeOK
<1>2. /\ Without(waiters, i) \in Seq(Jobs)
      /\ DOMAIN Without(waiters, i) = 1..(Len(waiters) - 1)
      /\ \A k \in 1..(Len(waiters) - 1) :
           Place(k) \in DOMAIN waiters \ {i} /\ Without(waiters, i)[k] = waiters[Place(k)]
      /\ \A m \in DOMAIN waiters \ {i} : \E k \in 1..(Len(waiters) - 1) : m = Place(k)
  BY <1>1, WithoutPlaces
<1>3. Len(waiters) \in Nat /\ DOMAIN waiters = 1..Len(waiters)
  BY <1>1, LenProperties
<1>4. \A m \in DOMAIN waiters : waiters[m] \in Jobs
  BY <1>1, <1>3, ElementOfSeq
<1>5. \A k, l \in 1..(Len(waiters) - 1) : Place(k) = Place(l) => k = l
  BY <1>3
<1> HIDE DEF Place
<1>6. \A m \in DOMAIN waiters \ {i} : waiters[m] # waiters[i]
  BY DEF IInv, OncePerJob
<1>7. QueueWaits'
  BY <1>2, <1>4, <1>6 DEF IInv, QueueWaits
<1>8. WaitersQueue'
  <2> SUFFICES ASSUME NEW k \in Jobs, job'[k].pc = "waiting"
               PROVE  \E l \in DOMAIN waiters' : waiters'[l] = k
    BY DEF WaitersQueue
  <2>1. k # waiters[i] /\ job[k].pc = "waiting"
    OBVIOUS
  <2>2. PICK m \in DOMAIN waiters : waiters[m] = k
    BY <2>1 DEF IInv, WaitersQueue
  <2>3. PICK l \in 1..(Len(waiters) - 1) : m = Place(l)
    BY <1>2, <2>1, <2>2
  <2> QED BY <1>2, <2>2, <2>3
<1>9. OncePerJob'
  BY <1>2, <1>5 DEF IInv, OncePerJob
<1> QED BY <1>2, <1>7, <1>8, <1>9

(* A permit is given back: it goes to the head of the queue, or becomes    *)
(* free.                                                                   *)
LEMMA ReleaseStep ==
  ASSUME IInv, NEW j \in Jobs, job[j].pc = "running", NEW r \in Job,
         r.pc = "settled", r.child # "alive", Release(j, r)
  PROVE  IInv'
<1>1. /\ job \in [Jobs -> Job] /\ waiters \in Seq(Jobs) /\ active \in Int
      /\ active = Cardinality(Holders) /\ active <= Limit
      /\ Limit \in Nat
      /\ j \in Holders
  BY MediaConstants DEF IInv, MediaTypeOK, PermitsCounted, Holders
<1>2. /\ IsFiniteSet(Holders \ {j})
      /\ Cardinality(Holders \ {j}) = active - 1
      /\ Cardinality(Holders) \in Nat
  BY <1>1, HoldersFinite, FS_RemoveElement
<1>3. CASE waiters = <<>>
  <2>1. /\ active' = active - 1
        /\ job' = [job EXCEPT ![j] = r]
        /\ waiters' = waiters
    BY <1>3 DEF Release
  <2>2. /\ job' \in [Jobs -> Job] /\ job'[j] = r
        /\ \A k \in Jobs : k # j => job'[k] = job[k]
    BY <1>1, <2>1
  <2>3. Holders' = Holders \ {j}
    BY <2>2 DEF Holders
  <2>4. MediaTypeOK' /\ PermitsCounted'
    BY <1>1, <1>2, <2>1, <2>2, <2>3 DEF MediaTypeOK, PermitsCounted
  <2>5. FullBeforeWaiting' /\ OncePerJob' /\ QueueWaits'
    BY <1>3, <2>1 DEF FullBeforeWaiting, OncePerJob, QueueWaits
  <2>6. WaitersQueue'
    BY <2>1, <2>2 DEF IInv, WaitersQueue
  <2>7. RunsItsChild'
    BY <2>2 DEF IInv, RunsItsChild
  <2> QED BY <2>4, <2>5, <2>6, <2>7 DEF IInv
<1>4. CASE waiters # <<>>
  <2> DEFINE h == Head(waiters)
  <2>1. /\ Len(waiters) \in Nat \ {0} /\ DOMAIN waiters = 1..Len(waiters)
        /\ 1 \in DOMAIN waiters /\ h = waiters[1] /\ h \in Jobs
        /\ Tail(waiters) = Without(waiters, 1)
    <3>1. Len(waiters) \in Nat \ {0} /\ DOMAIN waiters = 1..Len(waiters)
      BY <1>1, <1>4, EmptySeq, LenProperties
    <3>2. 1 \in DOMAIN waiters /\ h = waiters[1] /\ h \in Jobs
      BY <1>1, <3>1, ElementOfSeq
    <3>3. Tail(waiters) = [k \in 1..(Len(waiters) - 1) |-> waiters[k + 1]]
      <4> DEFINE t == Tail(waiters)
      <4>1. t \in Seq(Jobs) /\ Len(t) = Len(waiters) - 1
        BY <1>1, <1>4, HeadTailProperties
      <4>2. t \in [1..(Len(waiters) - 1) -> Jobs]
        BY <4>1, LenProperties
      <4>3. \A k \in 1..(Len(waiters) - 1) : t[k] = waiters[k + 1]
        BY <1>1, <1>4, <3>1, <4>1, HeadTailProperties
      <4> QED BY <4>2, <4>3
    <3>4. Without(waiters, 1) = [k \in 1..(Len(waiters) - 1) |-> waiters[k + 1]]
      BY <3>1 DEF Without
    <3> QED BY <3>1, <3>2, <3>3, <3>4
  <2> HIDE DEF h
  <2>2. job[h].pc = "waiting" /\ h # j /\ h \notin Holders
    BY <2>1 DEF IInv, QueueWaits, Holders
  <2>3. /\ waiters' = Without(waiters, 1)
        /\ job' = [job EXCEPT ![j] = r, ![h].pc = "granted"]
        /\ active' = active
    BY <1>1, <1>4, <2>1 DEF Release, h
  <2>4. PICK g \in Job : g = [job[h] EXCEPT !.pc = "granted"]
    BY <1>1, <2>1 DEF Job, JobPcs
  <2>5. g.pc = "granted" /\ g.child = job[h].child
    BY <1>1, <2>1, <2>4 DEF Job
  <2>6. /\ job' \in [Jobs -> Job] /\ job'[j] = r /\ job'[h] = g
        /\ \A k \in Jobs : k # j /\ k # h => job'[k] = job[k]
    BY <1>1, <2>1, <2>2, <2>3, <2>4
  <2>7. Holders' = (Holders \ {j}) \cup {h}
    BY <2>1, <2>2, <2>5, <2>6 DEF Holders
  <2>8. Cardinality(Holders') = active
    <3>1. Cardinality((Holders \ {j}) \cup {h}) = Cardinality(Holders \ {j}) + 1
      BY <1>2, <2>2, FS_AddElement
    <3> QED BY <1>1, <1>2, <2>7, <3>1
  <2>9. waiters' \in Seq(Jobs) /\ QueueWaits' /\ WaitersQueue' /\ OncePerJob'
    <3>1. \A k \in Jobs : k # waiters[1] => (job'[k].pc = "waiting" <=> job[k].pc = "waiting")
      BY <2>1, <2>6
    <3>2. job'[waiters[1]].pc # "waiting"
      BY <2>1, <2>5, <2>6
    <3> QED BY <2>1, <2>3, <3>1, <3>2, LeavingTheQueue
  <2>10. MediaTypeOK' /\ PermitsCounted' /\ FullBeforeWaiting'
    BY <1>1, <1>4, <2>3, <2>6, <2>8, <2>9
    DEF IInv, MediaTypeOK, PermitsCounted, FullBeforeWaiting
  <2>11. RunsItsChild'
    BY <2>1, <2>2, <2>5, <2>6 DEF IInv, RunsItsChild
  <2> QED BY <2>9, <2>10, <2>11 DEF IInv
<1> QED BY <1>3, <1>4

(* One lemma per action that asks for, waits for or gives up a permit, and *)
(* one for those that only concern the child.                              *)

LEMMA AskKeeps == ASSUME IInv, NEW j \in Jobs, Ask(j) PROVE IInv'
<1>1. /\ job \in [Jobs -> Job] /\ waiters \in Seq(Jobs) /\ active \in Int
      /\ active = Cardinality(Holders) /\ active <= Limit /\ Limit \in Nat
      /\ job[j] \in Job /\ job[j].pc = "idle" /\ job[j].child # "alive"
  BY MediaConstants DEF IInv, MediaTypeOK, PermitsCounted, RunsItsChild, Ask
<1>2. CASE job[j].aborted
  <2>1. PICK r \in Job : r = [job[j] EXCEPT !.pc = "settled", !.result = "failed"]
    BY <1>1 DEF Job, JobPcs
  <2>2. r.pc = "settled" /\ r.child = job[j].child
    BY <1>1, <2>1 DEF Job
  <2>3. job' = [job EXCEPT ![j] = r] /\ UNCHANGED <<active, waiters>>
    BY <1>1, <1>2, <2>1 DEF Ask
  <2> QED BY <1>1, <2>2, <2>3, LocalStep
<1>3. CASE ~job[j].aborted /\ active < Limit /\ waiters = <<>>
  <2>1. PICK r \in Job : r = [job[j] EXCEPT !.pc = "granted"]
    BY <1>1 DEF Job, JobPcs
  <2>2. r.pc = "granted" /\ r.child = job[j].child
    BY <1>1, <2>1 DEF Job
  <2>3. job' = [job EXCEPT ![j] = r] /\ active' = active + 1 /\ waiters' = waiters
    BY <1>1, <1>3, <2>1 DEF Ask
  <2>4. /\ job' \in [Jobs -> Job] /\ job'[j] = r
        /\ \A k \in Jobs : k # j => job'[k] = job[k]
    BY <1>1, <2>3
  <2>5. j \notin Holders /\ Holders' = Holders \cup {j}
    BY <1>1, <2>2, <2>4 DEF Holders
  <2>6. Cardinality(Holders') = active + 1
    <3>1. Cardinality(Holders \cup {j}) = Cardinality(Holders) + 1
      BY <2>5, HoldersFinite, FS_AddElement
    <3> QED BY <1>1, <2>5, <3>1
  <2>7. MediaTypeOK' /\ PermitsCounted' /\ FullBeforeWaiting'
    BY <1>1, <1>3, <2>3, <2>4, <2>6 DEF MediaTypeOK, PermitsCounted, FullBeforeWaiting
  <2>8. QueueWaits' /\ OncePerJob'
    BY <1>3, <2>3 DEF QueueWaits, OncePerJob
  <2>9. WaitersQueue' /\ RunsItsChild'
    BY <1>1, <2>2, <2>3, <2>4 DEF IInv, WaitersQueue, RunsItsChild
  <2> QED BY <2>7, <2>8, <2>9 DEF IInv
<1>4. CASE ~job[j].aborted /\ ~(active < Limit /\ waiters = <<>>)
  <2>1. PICK r \in Job : r = [job[j] EXCEPT !.pc = "waiting"]
    BY <1>1 DEF Job, JobPcs
  <2>2. r.pc = "waiting" /\ r.child = job[j].child
    BY <1>1, <2>1 DEF Job
  <2>3. job' = [job EXCEPT ![j] = r] /\ active' = active /\ waiters' = Append(waiters, j)
    BY <1>1, <1>4, <2>1 DEF Ask
  <2>4. /\ job' \in [Jobs -> Job] /\ job'[j] = r
        /\ \A k \in Jobs : k # j => job'[k] = job[k]
    BY <1>1, <2>3
  <2>5. Holders' = Holders
    BY <1>1, <2>2, <2>4 DEF Holders
  <2>6. /\ Len(waiters) \in Nat /\ DOMAIN waiters = 1..Len(waiters)
        /\ waiters' \in Seq(Jobs) /\ DOMAIN waiters' = 1..(Len(waiters) + 1)
        /\ \A k \in 1..Len(waiters) : waiters'[k] = waiters[k]
        /\ waiters'[Len(waiters) + 1] = j
    BY <1>1, <2>3, LenProperties, AppendProperties
  <2>7. \A k \in DOMAIN waiters : waiters[k] \in Jobs \ {j}
    BY <1>1, <2>6, ElementOfSeq DEF IInv, QueueWaits
  <2>8. MediaTypeOK' /\ PermitsCounted' /\ FullBeforeWaiting'
    <3>1. active = Limit
      BY <1>1, <1>4 DEF IInv, FullBeforeWaiting
    <3> QED BY <1>1, <2>3, <2>4, <2>5, <2>6, <3>1
            DEF MediaTypeOK, PermitsCounted, FullBeforeWaiting
  <2>9. QueueWaits' /\ OncePerJob'
    BY <2>2, <2>4, <2>6, <2>7 DEF IInv, QueueWaits, OncePerJob
  <2>10. WaitersQueue'
    <3> SUFFICES ASSUME NEW k \in Jobs, job'[k].pc = "waiting"
                 PROVE  \E l \in DOMAIN waiters' : waiters'[l] = k
      BY DEF WaitersQueue
    <3>1. CASE k = j
      BY <2>6, <3>1
    <3>2. CASE k # j
      <4>1. PICK l \in DOMAIN waiters : waiters[l] = k
        BY <2>4, <3>2 DEF IInv, WaitersQueue
      <4> QED BY <2>6, <4>1
    <3> QED BY <3>1, <3>2
  <2>11. RunsItsChild'
    BY <1>1, <2>2, <2>4 DEF IInv, RunsItsChild
  <2> QED BY <2>8, <2>9, <2>10, <2>11 DEF IInv
<1> QED BY <1>2, <1>3, <1>4

LEMMA CancelKeeps == ASSUME IInv, NEW j \in Jobs, CancelWaiting(j) PROVE IInv'
<1>1. /\ job \in [Jobs -> Job] /\ waiters \in Seq(Jobs)
      /\ job[j] \in Job /\ job[j].pc = "waiting" /\ job[j].child # "alive"
      /\ active' = active
  BY DEF IInv, MediaTypeOK, RunsItsChild, CancelWaiting
<1>2. PICK i \in DOMAIN waiters : waiters[i] = j /\ waiters' = Without(waiters, i)
  BY DEF CancelWaiting
<1>3. PICK r \in Job :
        r = [job[j] EXCEPT !.aborted = TRUE, !.pc = "settled", !.result = "failed"]
  BY <1>1 DEF Job, JobPcs
<1>4. r.pc = "settled" /\ r.child = job[j].child
  BY <1>1, <1>3 DEF Job
<1>5. /\ job' \in [Jobs -> Job] /\ job'[j] = r
      /\ \A k \in Jobs : k # j => job'[k] = job[k]
  BY <1>1, <1>3 DEF CancelWaiting
<1>6. Holders' = Holders
  BY <1>1, <1>4, <1>5 DEF Holders
<1>7. waiters' \in Seq(Jobs) /\ QueueWaits' /\ WaitersQueue' /\ OncePerJob'
  <2>1. job'[waiters[i]].pc # "waiting"
    BY <1>2, <1>4, <1>5
  <2>2. \A k \in Jobs : k # waiters[i] => (job'[k].pc = "waiting" <=> job[k].pc = "waiting")
    BY <1>2, <1>5
  <2> QED BY <1>2, <2>1, <2>2, LeavingTheQueue
<1>8. MediaTypeOK' /\ PermitsCounted'
  BY <1>1, <1>5, <1>6, <1>7 DEF IInv, MediaTypeOK, PermitsCounted
<1>9. FullBeforeWaiting'
  <2>1. waiters # <<>>
    BY <1>1, <1>2, EmptySeq, LenProperties
  <2> QED BY <1>1, <2>1 DEF IInv, FullBeforeWaiting
<1>10. RunsItsChild'
  BY <1>1, <1>4, <1>5 DEF IInv, RunsItsChild
<1> QED BY <1>7, <1>8, <1>9, <1>10 DEF IInv

LEMMA SettleKeeps == ASSUME IInv, NEW j \in Jobs, Settle(j) PROVE IInv'
<1> DEFINE how == IF Succeeded(job[j]) THEN "ok" ELSE "failed"
<1>1. job[j] \in Job /\ job[j].pc = "running" /\ job[j].child = "closed"
  BY DEF IInv, MediaTypeOK, Settle
<1>2. how \in {"none", "ok", "failed"}
  OBVIOUS
<1> HIDE DEF how
<1>3. PICK r \in Job : r = [job[j] EXCEPT !.pc = "settled", !.result = how]
  BY <1>1, <1>2 DEF Job, JobPcs
<1>4. r.pc = "settled" /\ r.child = "closed"
  BY <1>1, <1>3 DEF Job
<1>5. Release(j, r)
  BY <1>3 DEF Settle, how
<1> QED BY <1>1, <1>4, <1>5, ReleaseStep

(* A job with or without its child, neither waiting before nor after.      *)
LEMMA ChildKeeps ==
  ASSUME IInv, NEW j \in Jobs,
         \/ Abort(j) \/ Spawn(j) \/ SpawnFails(j) \/ WriteInput(j)
         \/ Overrun(j) \/ KillTimer(j) \/ ChildCloses(j)
  PROVE  IInv'
<1>1. /\ job \in [Jobs -> Job] /\ job[j] \in Job
      /\ job[j].child = "alive" => job[j].pc = "running"
  BY DEF IInv, MediaTypeOK, RunsItsChild
<1>2. CASE Abort(j)
  <2>1. PICK r \in Job : r = [job[j] EXCEPT !.aborted = TRUE]
    BY <1>1 DEF Job
  <2>2. r.pc = job[j].pc /\ r.child = job[j].child
    BY <1>1, <2>1 DEF Job
  <2>3. job' = [job EXCEPT ![j] = Terminated(r)] /\ UNCHANGED <<active, waiters>>
    BY <1>1, <1>2, <2>1 DEF Abort
  <2> QED BY <1>1, <2>2, <2>3, TerminatedKeeps, LocalStep
<1>3. CASE Spawn(j)
  <2>1. PICK r \in Job : r = [job[j] EXCEPT !.pc = "running", !.child = "alive"]
    BY <1>1 DEF Job, JobPcs, Children
  <2>2. r.pc = "running" /\ r.child = "alive" /\ r.aborted = job[j].aborted
    BY <1>1, <2>1 DEF Job
  <2>3. PICK q \in Job : q = IF r.aborted THEN Terminated(r) ELSE r
    BY TerminatedKeeps
  <2>4. q.pc = "running" /\ job[j].pc = "granted"
    BY <1>3, <2>2, <2>3, TerminatedKeeps DEF Spawn
  <2>5. job' = [job EXCEPT ![j] = q] /\ UNCHANGED <<active, waiters>>
    BY <1>3, <2>1, <2>3 DEF Spawn
  <2> QED BY <2>4, <2>5, LocalStep
<1>4. CASE SpawnFails(j)
  <2>1. PICK r \in Job : r = [job[j] EXCEPT !.pc = "running", !.child = "closed", !.code = "other"]
    BY <1>1 DEF Job, JobPcs, Children
  <2>2. r.pc = "running" /\ job[j].pc = "granted"
    BY <1>1, <1>4, <2>1 DEF Job, SpawnFails
  <2>3. job' = [job EXCEPT ![j] = r] /\ UNCHANGED <<active, waiters>>
    BY <1>1, <1>4, <2>1 DEF SpawnFails
  <2> QED BY <2>2, <2>3, LocalStep
<1>5. CASE WriteInput(j)
  <2>1. PICK how \in {"written", "failed"} :
          job' = [job EXCEPT ![j] = IF how = "failed" THEN Terminated([@ EXCEPT !.input = how])
                                    ELSE [@ EXCEPT !.input = how]]
    BY <1>5 DEF WriteInput
  <2>2. PICK r \in Job : r = [job[j] EXCEPT !.input = how]
    BY <1>1 DEF Job
  <2>3. r.pc = job[j].pc /\ r.child = job[j].child
    BY <1>1, <2>2 DEF Job
  <2>4. PICK q \in Job : q = IF how = "failed" THEN Terminated(r) ELSE r
    BY TerminatedKeeps
  <2>5. q.pc = job[j].pc /\ q.child = job[j].child
    BY <2>3, <2>4, TerminatedKeeps
  <2>6. job' = [job EXCEPT ![j] = q] /\ UNCHANGED <<active, waiters>>
    BY <1>1, <1>5, <2>1, <2>2, <2>4 DEF WriteInput
  <2> QED BY <1>1, <2>5, <2>6, LocalStep
<1>6. CASE Overrun(j)
  <2>1. job' = [job EXCEPT ![j] = Terminated(job[j])] /\ UNCHANGED <<active, waiters>>
    BY <1>1, <1>6 DEF Overrun
  <2> QED BY <1>1, <2>1, TerminatedKeeps, LocalStep
<1>7. CASE KillTimer(j)
  <2>1. PICK r \in Job : r = [job[j] EXCEPT !.stopping = "kill"]
    BY <1>1 DEF Job
  <2>2. r.pc = job[j].pc /\ r.child = job[j].child
    BY <1>1, <2>1 DEF Job
  <2>3. job' = [job EXCEPT ![j] = r] /\ UNCHANGED <<active, waiters>>
    BY <1>1, <1>7, <2>1 DEF KillTimer
  <2> QED BY <1>1, <2>2, <2>3, LocalStep
<1>8. CASE ChildCloses(j)
  <2>1. PICK code \in {"zero", "other"} :
          job' = [job EXCEPT ![j].child = "closed", ![j].code = code]
    BY <1>8 DEF ChildCloses
  <2>2. PICK r \in Job : r = [job[j] EXCEPT !.child = "closed", !.code = code]
    BY <1>1 DEF Job, Children
  <2>3. r.pc = job[j].pc /\ r.child = "closed"
    BY <1>1, <2>2 DEF Job
  <2>4. job' = [job EXCEPT ![j] = r] /\ UNCHANGED <<active, waiters>>
    BY <1>1, <1>8, <2>1, <2>2 DEF ChildCloses
  <2> QED BY <1>1, <2>3, <2>4, LocalStep
<1> QED BY <1>2, <1>3, <1>4, <1>5, <1>6, <1>7, <1>8


LEMMA InitHolds == MediaInit => IInv
<1> SUFFICES ASSUME MediaInit PROVE IInv
  OBVIOUS
<1>1. NewJob \in Job /\ NewJob.pc = "idle" /\ NewJob.child = "none"
  BY DEF NewJob, Job, JobPcs, Children
<1>2. \A j \in Jobs : job[j] = NewJob
  BY DEF MediaInit
<1>3. Holders = {}
  BY <1>1, <1>2 DEF Holders
<1>4. waiters = <<>> /\ waiters \in Seq(Jobs)
  BY EmptySeq DEF MediaInit
<1>5. MediaTypeOK
  BY <1>1, <1>4 DEF MediaInit, MediaTypeOK
<1>6. PermitsCounted
  BY <1>3, FS_EmptySet, MediaConstants DEF MediaInit, PermitsCounted
<1>7. FullBeforeWaiting /\ QueueWaits /\ OncePerJob
  BY <1>4 DEF FullBeforeWaiting, QueueWaits, OncePerJob
<1>8. WaitersQueue /\ RunsItsChild
  BY <1>1, <1>2 DEF WaitersQueue, RunsItsChild
<1> QED BY <1>5, <1>6, <1>7, <1>8 DEF IInv

LEMMA StepKeeps == IInv /\ [MediaNext]_mediaVars => IInv'
<1> SUFFICES ASSUME IInv, [MediaNext]_mediaVars PROVE IInv'
  OBVIOUS
<1>1. CASE UNCHANGED mediaVars
  BY <1>1 DEF mediaVars, IInv, MediaTypeOK, PermitsCounted, Holders, FullBeforeWaiting,
              QueueWaits, WaitersQueue, OncePerJob, RunsItsChild
<1>2. CASE MediaNext
  <2>1. PICK j \in Jobs : JobStep(j)
    BY <1>2 DEF MediaNext
  <2> QED BY <2>1, AskKeeps, CancelKeeps, SettleKeeps, ChildKeeps DEF JobStep
<1> QED BY <1>1, <1>2

LEMMA Permits == IInv => PermitsKept
<1> SUFFICES ASSUME IInv PROVE PermitsKept
  OBVIOUS
<1>1. \A i \in DOMAIN waiters : waiters[i] \in Jobs
  BY LenProperties, ElementOfSeq DEF IInv, MediaTypeOK
<1>2. {waiters[i] : i \in DOMAIN waiters} = {j \in Jobs : job[j].pc = "waiting"}
  BY <1>1 DEF IInv, QueueWaits, WaitersQueue
<1>3. \A j \in Jobs : job[j].child = "alive" => j \in Holders
  BY DEF IInv, RunsItsChild, Holders
<1> QED BY <1>2, <1>3 DEF IInv, PermitsCounted, FullBeforeWaiting, OncePerJob, PermitsKept

(* The variables keep their types, and with them the inductive invariant   *)
(* holds in every state.                                                   *)
THEOREM InvariantHolds == MediaSpec => []IInv
<1> QED BY InitHolds, StepKeeps, PTL DEF MediaSpec

(* For any number of jobs and any limit, runMediaProcess: permits are      *)
(* counted exactly and never exceed the limit, a job waits only while all  *)
(* are held, a cancelled job leaves the queue, and no child outlives its   *)
(* permit, whatever is aborted, times out or fails.                        *)
THEOREM PermitsAreKept == MediaSpec => []PermitsKept
<1> QED BY InvariantHolds, Permits, PTL

-----------------------------------------------------------------------------
(* 2. The raster reader: what its assembler holds follows the frames it    *)
(* took.                                                                   *)

\* Bytes of the stream that follow one another, after the first n.
IsRun(s, n) == s \in Seq(Int) /\ \A k \in 1..Len(s) : s[k] = n + k

\* The assembler holds the bytes from n to m, in order.
Follows(a, n, m) ==
  /\ IsRun(a.current, n) /\ IsRun(a.pending, n + Len(a.current))
  /\ n + Len(a.current) + Len(a.pending) = m
  /\ Len(a.current) <= FrameBytes

FirstByte(i) == i * FrameBytes
FrameOf(i) == [k \in 1..FrameBytes |-> FirstByte(i) + k]

Readers == [pc : {"idle", "restart", "loop", "read", "returned", "failed", "disposing"},
            target : Int, index : Int, last : Seq(Int), calls : Nat, disposed : BOOLEAN]

RasterTypes ==
  /\ child \in [state : {"none", "alive", "ended", "terminated", "killed"}, written : Nat]
  /\ assembler \in [current : Seq(Int), pending : Seq(Int)]
  /\ reader \in Readers

\* The handle has taken as many frames as its index says, the last of them is the one it
\* keeps, and what it has read beyond is in the assembler.
AtFrame(r, a, c) ==
  /\ r.index + 1 \in Nat /\ Follows(a, FirstByte(r.index + 1), c.written)
  /\ r.last = IF r.index = NoFrame THEN <<>> ELSE FrameOf(r.index)
Between(r) == r.pc \in {"loop", "returned"} \/ (r.pc = "idle" /\ ~r.disposed)

RasterInv ==
  /\ RasterTypes
  /\ Between(reader) => AtFrame(reader, assembler, child)
  /\ reader.pc = "read" =>
       reader.index \in Nat /\ Follows(assembler, FirstByte(reader.index), child.written)
  /\ reader.pc \in {"loop", "read"} => reader.index <= reader.target
  /\ reader.pc = "returned" => reader.index = reader.target
  /\ reader.pc \in {"loop", "read", "restart", "returned"} => reader.target \in Nat
  /\ reader.pc = "disposing" => reader.disposed

LEMMA NextByte ==
  ASSUME NEW i \in Int PROVE FirstByte(i) \in Int /\ FirstByte(i + 1) = FirstByte(i) + FrameBytes
BY RasterConstants, SMT DEF FirstByte

LEMMA RunParts ==
  ASSUME NEW n \in Int, NEW s, IsRun(s, n), NEW m \in Nat
  PROVE  \E k \in Nat :
           /\ k <= m /\ k <= Len(s) /\ (k < m => k = Len(s))
           /\ Len(Firsts(s, m)) = k /\ IsRun(Firsts(s, m), n)
           /\ Len(Others(s, m)) = Len(s) - k /\ IsRun(Others(s, m), n + k)
<1> DEFINE k == Smaller(m, Len(s))
<1>1. s \in Seq(Int) /\ Len(s) \in Nat
  BY DEF IsRun
<1>2. k \in Nat /\ k <= m /\ k <= Len(s) /\ (k < m => k = Len(s))
  BY <1>1 DEF Smaller
<1>3. /\ Firsts(s, m) = SubSeq(s, 1, k)
      /\ Others(s, m) = SubSeq(s, m + 1, Len(s))
  BY DEF Firsts, Others
<1> HIDE DEF k
<1>4. /\ Firsts(s, m) \in Seq(Int) /\ Len(Firsts(s, m)) = k
      /\ \A i \in 1..k : Firsts(s, m)[i] = s[i]
  BY <1>1, <1>2, <1>3
<1>5. IsRun(Firsts(s, m), n)
  <2>1. \A i \in 1..k : s[i] = n + i
    BY <1>1, <1>2 DEF IsRun
  <2> QED BY <1>4, <2>1 DEF IsRun
<1>6. /\ Others(s, m) \in Seq(Int) /\ Len(Others(s, m)) = Len(s) - k
      /\ \A i \in 1..(Len(s) - k) : Others(s, m)[i] = s[k + i]
  <2>1. CASE m < Len(s)
    <3>1. k = m
      BY <1>1, <1>2, <2>1
    <3>2. /\ SubSeq(s, m + 1, Len(s)) \in Seq(Int) /\ Len(SubSeq(s, m + 1, Len(s))) = Len(s) - m
          /\ \A i \in 1..(Len(s) - m) : SubSeq(s, m + 1, Len(s))[i] = s[m + i]
      BY <1>1, <2>1
    <3> QED BY <1>3, <3>1, <3>2
  <2>2. CASE ~(m < Len(s))
    <3>1. k = Len(s)
      BY <1>1, <1>2, <2>2
    <3>2. SubSeq(s, m + 1, Len(s)) \in Seq(Int) /\ Len(SubSeq(s, m + 1, Len(s))) = 0
      BY <1>1, <2>2
    <3> QED BY <1>1, <1>3, <3>1, <3>2
  <2> QED BY <2>1, <2>2
<1>7. IsRun(Others(s, m), n + k)
  <2> SUFFICES ASSUME NEW i \in 1..(Len(s) - k) PROVE Others(s, m)[i] = n + k + i
    BY <1>6 DEF IsRun
  <2>1. Others(s, m)[i] = s[k + i] /\ k + i \in 1..Len(s)
    BY <1>1, <1>2, <1>6
  <2>2. s[k + i] = n + (k + i)
    BY <2>1 DEF IsRun
  <2> QED BY <1>2, <2>1, <2>2
<1> QED BY <1>2, <1>4, <1>5, <1>6, <1>7

LEMMA RunsJoin ==
  ASSUME NEW n \in Int, NEW s, NEW t, IsRun(s, n), IsRun(t, n + Len(s))
  PROVE  IsRun(s \o t, n) /\ Len(s \o t) = Len(s) + Len(t)
<1>1. /\ s \in Seq(Int) /\ t \in Seq(Int) /\ Len(s) \in Nat /\ Len(t) \in Nat
      /\ \A k \in 1..Len(s) : s[k] = n + k
      /\ \A k \in 1..Len(t) : t[k] = n + Len(s) + k
  BY DEF IsRun
<1>2. s \o t \in Seq(Int) /\ Len(s \o t) = Len(s) + Len(t)
  BY <1>1
<1>3. ASSUME NEW k \in 1..Len(s) + Len(t) PROVE (s \o t)[k] = n + k
  <2>1. CASE k <= Len(s)
    BY <1>1, <2>1
  <2>2. CASE k > Len(s)
    <3>1. k - Len(s) \in 1..Len(t) /\ (s \o t)[k] = t[k - Len(s)]
      BY <1>1, <2>2
    <3>2. t[k - Len(s)] = n + Len(s) + (k - Len(s))
      BY <1>1, <3>1
    <3> QED BY <1>1, <3>1, <3>2
  <2> QED BY <1>1, <2>1, <2>2
<1> QED BY <1>2, <1>3 DEF IsRun

LEMMA FilledFollows ==
  ASSUME NEW n \in Int, NEW m \in Int, NEW a, Follows(a, n, m)
  PROVE  /\ Follows(Filled(a), n, m)
         /\ ~IsFull(Filled(a)) => Filled(a).pending = <<>>
<1>1. /\ IsRun(a.current, n) /\ IsRun(a.pending, n + Len(a.current))
      /\ Len(a.current) \in Nat /\ Len(a.pending) \in Nat
      /\ n + Len(a.current) + Len(a.pending) = m /\ Len(a.current) <= FrameBytes
      /\ FrameBytes \in Nat
  <2>1. /\ IsRun(a.current, n) /\ IsRun(a.pending, n + Len(a.current))
        /\ n + Len(a.current) + Len(a.pending) = m /\ Len(a.current) <= FrameBytes
    BY DEF Follows
  <2>2. a.current \in Seq(Int) /\ a.pending \in Seq(Int)
    BY <2>1 DEF IsRun
  <2>3. Len(a.current) \in Nat /\ Len(a.pending) \in Nat
    BY <2>2
  <2> QED BY RasterConstants, <2>1, <2>3
<1>2. Room(a) \in Nat /\ Room(a) = FrameBytes - Len(a.current)
  BY <1>1 DEF Room
<1> DEFINE c == n + Len(a.current)
<1>c. c \in Int
  BY <1>1
<1>3. PICK k \in Nat :
        /\ k <= Room(a) /\ k <= Len(a.pending) /\ (k < Room(a) => k = Len(a.pending))
        /\ Len(Firsts(a.pending, Room(a))) = k /\ IsRun(Firsts(a.pending, Room(a)), c)
        /\ Len(Others(a.pending, Room(a))) = Len(a.pending) - k
        /\ IsRun(Others(a.pending, Room(a)), c + k)
  <2> HIDE DEF c
  <2> QED BY <1>1, <1>2, <1>c, RunParts DEF c
<1>4. /\ Filled(a).current = a.current \o Firsts(a.pending, Room(a))
      /\ Filled(a).pending = Others(a.pending, Room(a))
  BY DEF Filled
<1>5. /\ IsRun(Filled(a).current, n) /\ Len(Filled(a).current) = Len(a.current) + k
  <2> DEFINE s == a.current
             t == Firsts(a.pending, Room(a))
  <2>1. IsRun(s, n) /\ IsRun(t, n + Len(s))
    BY <1>1, <1>3
  <2>2. Filled(a).current = s \o t /\ Len(t) = k
    BY <1>3, <1>4
  <2> HIDE DEF s, t
  <2>3. IsRun(s \o t, n) /\ Len(s \o t) = Len(s) + Len(t)
    BY <2>1, RunsJoin
  <2>4. IsRun(Filled(a).current, n) /\ Len(Filled(a).current) = Len(s) + k
    BY <2>2, <2>3, Zenon
  <2> QED BY <2>4 DEF s
<1>6. Follows(Filled(a), n, m)
  <2>1. n + Len(Filled(a).current) = n + Len(a.current) + k
    BY <1>1, <1>3, <1>5
  <2>2. IsRun(Filled(a).pending, n + Len(Filled(a).current))
    BY <1>3, <1>4, <2>1
  <2>3. /\ Len(Filled(a).pending) = Len(a.pending) - k
    BY <1>3, <1>4
  <2>4. /\ n + Len(Filled(a).current) + Len(Filled(a).pending) = m
        /\ Len(Filled(a).current) <= FrameBytes
    <3> DEFINE x == Len(a.current)
               y == Len(a.pending)
               u == Len(Filled(a).current)
               v == Len(Filled(a).pending)
    <3>1. /\ n \in Int /\ x \in Nat /\ y \in Nat /\ k \in Nat /\ u = x + k /\ v = y - k
          /\ n + x + y = m /\ k <= Room(a) /\ Room(a) = FrameBytes - x /\ FrameBytes \in Nat
      BY <1>1, <1>2, <1>3, <1>5, <2>3
    <3> HIDE DEF x, y, u, v
    <3>2. n + u + v = m /\ u <= FrameBytes
      BY <3>1
    <3> QED BY <3>2 DEF u, v
  <2> QED BY <1>5, <2>2, <2>4 DEF Follows
<1>7. ASSUME ~IsFull(Filled(a)) PROVE Filled(a).pending = <<>>
  <2>1. Len(Others(a.pending, Room(a))) = 0
    <3>1. Len(Filled(a).current) # FrameBytes
      BY <1>7 DEF IsFull
    <3> QED BY <1>1, <1>2, <1>3, <1>5, <3>1
  <2>2. Others(a.pending, Room(a)) \in Seq(Int)
    BY <1>3 DEF IsRun
  <2> QED BY <1>4, <2>1, <2>2
<1> QED BY <1>6, <1>7

LEMMA PushedFollows ==
  ASSUME NEW n \in Int, NEW m \in Int, NEW a, Follows(a, n, m), a.pending = <<>>,
         NEW chunk, IsRun(chunk, m)
  PROVE  /\ Follows(Pushed(a, chunk), n, m + Len(chunk))
         /\ Len(Pushed(a, chunk).pending) <= Len(chunk)
<1>1. /\ IsRun(a.current, n) /\ Len(a.current) \in Nat
      /\ n + Len(a.current) = m /\ Len(a.current) <= FrameBytes
      /\ FrameBytes \in Nat /\ Len(chunk) \in Nat
  <2>1. /\ IsRun(a.current, n) /\ n + Len(a.current) + Len(a.pending) = m
        /\ Len(a.current) <= FrameBytes /\ Len(a.pending) = 0
    BY DEF Follows
  <2>2. a.current \in Seq(Int) /\ chunk \in Seq(Int)
    BY <2>1 DEF IsRun
  <2> QED BY RasterConstants, <2>1, <2>2
<1>2. Room(a) \in Nat /\ Room(a) = FrameBytes - Len(a.current)
  BY <1>1 DEF Room
<1>3. PICK k \in Nat :
        /\ k <= Room(a) /\ k <= Len(chunk)
        /\ Len(Firsts(chunk, Room(a))) = k /\ IsRun(Firsts(chunk, Room(a)), m)
        /\ Len(Others(chunk, Room(a))) = Len(chunk) - k
        /\ IsRun(Others(chunk, Room(a)), m + k)
  BY <1>2, RunParts
<1>4. Others(chunk, Room(a)) \in Seq(Int)
  BY <1>3 DEF IsRun
<1>5. /\ Pushed(a, chunk).current = a.current \o Firsts(chunk, Room(a))
      /\ Pushed(a, chunk).pending = Others(chunk, Room(a))
  BY <1>4 DEF Pushed
<1>6. /\ IsRun(Pushed(a, chunk).current, n)
      /\ Len(Pushed(a, chunk).current) = Len(a.current) + k
  <2> DEFINE s == a.current
             t == Firsts(chunk, Room(a))
  <2>1. IsRun(s, n) /\ IsRun(t, n + Len(s))
    BY <1>1, <1>3
  <2>2. Pushed(a, chunk).current = s \o t /\ Len(t) = k
    BY <1>3, <1>5
  <2> HIDE DEF s, t
  <2>3. IsRun(s \o t, n) /\ Len(s \o t) = Len(s) + Len(t)
    BY <2>1, RunsJoin
  <2>4. IsRun(Pushed(a, chunk).current, n) /\ Len(Pushed(a, chunk).current) = Len(s) + k
    BY <2>2, <2>3, Zenon
  <2> QED BY <2>4 DEF s
<1> DEFINE x == Len(a.current)
           l == Len(chunk)
           u == Len(Pushed(a, chunk).current)
           v == Len(Pushed(a, chunk).pending)
<1>7. /\ x \in Nat /\ l \in Nat /\ u = x + k /\ v = l - k /\ n + x = m /\ n \in Int
      /\ k <= Room(a) /\ Room(a) = FrameBytes - x /\ FrameBytes \in Nat /\ k <= l
  BY <1>1, <1>2, <1>3, <1>5, <1>6
<1> HIDE DEF x, l, u, v
<1>a. n + u = m + k /\ n + u + v = m + l /\ u <= FrameBytes /\ v <= l
  BY <1>7
<1>8. IsRun(Pushed(a, chunk).pending, n + Len(Pushed(a, chunk).current))
  BY <1>3, <1>5, <1>a DEF u
<1> QED BY <1>6, <1>8, <1>a DEF Follows, l, u, v

-----------------------------------------------------------------------------

LEMMA RasterStarts == RasterInit => RasterInv
<1> SUFFICES ASSUME RasterInit PROVE RasterInv
  OBVIOUS
<1>1. FirstByte(0) = 0
  BY RasterConstants DEF FirstByte
<1>2. Follows(Empty, 0, 0)
  BY RasterConstants DEF Follows, Empty, IsRun
<1>3. RasterTypes
  BY DEF RasterInit, RasterTypes, Readers, NoChild, Empty, NoFrame
<1> QED
  BY <1>1, <1>2, <1>3 DEF RasterInit, RasterInv, Between, AtFrame, NoChild, NoFrame

\* A call begins: the handle goes on from its frame, or starts again.
LEMMA FrameAtKeeps == ASSUME RasterInv, FrameAt PROVE RasterInv'
<1>1. PICK target \in 0..(Frames - 1) :
        reader' = [reader EXCEPT !.calls = @ + 1, !.target = target,
                                 !.pc = IF target < reader.index THEN "restart" ELSE "loop"]
  BY DEF FrameAt
<1>2. /\ reader \in Readers /\ target \in Nat /\ reader.pc \in {"idle", "returned"} /\ ~reader.disposed
      /\ UNCHANGED <<child, assembler>> /\ AtFrame(reader, assembler, child)
  BY RasterConstants DEF RasterInv, RasterTypes, Between, FrameAt
<1> DEFINE pc == IF target < reader.index THEN "restart" ELSE "loop"
<1>3. pc \in {"restart", "loop"} /\ (pc = "loop" => reader.index <= target)
  BY <1>2 DEF Readers
<1>4. reader' = [reader EXCEPT !.calls = @ + 1, !.target = target, !.pc = pc]
  BY <1>1
<1> HIDE DEF pc
<1>5. /\ reader' \in Readers /\ reader'.pc = pc /\ reader'.target = target
      /\ reader'.index = reader.index /\ reader'.last = reader.last
  <2>1. reader.calls + 1 \in Nat /\ target \in Int
    BY <1>2 DEF Readers
  <2> QED BY <1>2, <1>3, <1>4, <2>1, Zenon DEF Readers
<1> QED BY <1>2, <1>3, <1>5 DEF RasterInv, RasterTypes, Between, AtFrame

\* The child is closed, or cannot be.
LEMMA DecoderChildKeeps ==
  ASSUME RasterInv, AskToClose \/ ChildEnds \/ NeverCloses \/ SpawnDecoder PROVE RasterInv'
<1>1. /\ child \in [state : {"none", "alive", "ended", "terminated", "killed"}, written : Nat]
      /\ reader \in Readers
  BY DEF RasterInv, RasterTypes
<1>2. CASE AskToClose \/ ChildEnds \/ SpawnDecoder
  <2>1. /\ child' \in [state : {"none", "alive", "ended", "terminated", "killed"}, written : Nat]
        /\ child'.written = child.written /\ UNCHANGED <<assembler, reader>>
    BY <1>1, <1>2 DEF AskToClose, ChildEnds, SpawnDecoder
  <2> QED BY <2>1 DEF RasterInv, RasterTypes, AtFrame
<1>3. CASE NeverCloses
  <2>1. reader' \in Readers /\ reader'.pc = "failed" /\ UNCHANGED <<child, assembler>>
    BY <1>1, <1>3 DEF NeverCloses, Readers
  <2> QED BY <2>1 DEF RasterInv, RasterTypes, Between
<1> QED BY <1>2, <1>3

\* A decoder that starts at the first frame, with an assembler that is empty.
LEMMA AfreshKeeps ==
  ASSUME RasterInv, Restart \/ ReadFails \/ Disposed PROVE RasterInv'
<1>1. FirstByte(0) = 0
  BY RasterConstants DEF FirstByte
<1>2. Follows(Empty, 0, 0)
  BY RasterConstants DEF Follows, Empty, IsRun
<1>3. reader \in Readers /\ child' = NoChild /\ assembler' = Empty
  BY DEF RasterInv, RasterTypes, Restart, ReadFails, Disposed
<1>4. /\ child' \in [state : {"none", "alive", "ended", "terminated", "killed"}, written : Nat]
      /\ assembler' \in [current : Seq(Int), pending : Seq(Int)] /\ child'.written = 0
  BY <1>3 DEF NoChild, Empty
<1>5. CASE Restart
  <2>1. /\ reader' \in Readers /\ reader'.pc = "loop" /\ reader'.index = NoFrame
        /\ reader'.last = <<>> /\ reader'.target = reader.target
    <3>1. reader' = [reader EXCEPT !.pc = "loop", !.index = NoFrame, !.last = <<>>]
      BY <1>5 DEF Restart
    <3>2. <<>> \in Seq(Int) /\ NoFrame \in Int
      BY DEF NoFrame
    <3> QED BY <1>3, <3>1, <3>2, Zenon DEF Readers
  <2>2. reader.target \in Nat
    BY <1>5 DEF RasterInv, Restart
  <2> QED BY <1>1, <1>2, <1>3, <1>4, <2>1, <2>2 DEF RasterInv, RasterTypes, AtFrame, NoFrame
<1>6. CASE ReadFails
  <2>1. reader' \in Readers /\ reader'.pc = "failed"
    BY <1>3, <1>6 DEF ReadFails, Readers
  <2> QED BY <1>4, <2>1 DEF RasterInv, RasterTypes, Between
<1>7. CASE Disposed
  <2>1. reader' \in Readers /\ reader'.pc = "idle" /\ reader'.disposed
    BY <1>3, <1>7 DEF RasterInv, Disposed, Readers
  <2> QED BY <1>4, <2>1 DEF RasterInv, RasterTypes, Between
<1> QED BY <1>5, <1>6, <1>7

LEMMA DisposeKeeps == ASSUME RasterInv, Dispose PROVE RasterInv'
<1>1. /\ reader' \in Readers /\ reader'.pc = "disposing" /\ reader'.disposed
      /\ UNCHANGED <<child, assembler>>
  BY DEF RasterInv, RasterTypes, Dispose, Readers
<1> QED BY <1>1 DEF RasterInv, RasterTypes, Between

\* On to the next frame, or the one the handle keeps is the one asked for.
LEMMA LoopKeeps == ASSUME RasterInv, Loop PROVE RasterInv'
<1>1. /\ reader \in Readers /\ UNCHANGED <<child, assembler>> /\ reader.target \in Nat
      /\ reader.index \in Int /\ reader.index <= reader.target
      /\ AtFrame(reader, assembler, child) /\ reader.pc = "loop"
  BY DEF RasterInv, RasterTypes, Readers, Between, Loop
<1>2. CASE reader.index < reader.target
  <2>1. reader' = [reader EXCEPT !.pc = "read", !.index = @ + 1]
    BY <1>2 DEF Loop
  <2>2. /\ reader' \in Readers /\ reader'.pc = "read" /\ reader'.index = reader.index + 1
        /\ reader'.target = reader.target
    <3>1. reader.index + 1 \in Int
      BY <1>1
    <3> QED BY <1>1, <2>1, <3>1, Zenon DEF Readers
  <2>3. reader'.index \in Nat /\ Follows(assembler, FirstByte(reader'.index), child.written)
    BY <1>1, <2>2 DEF AtFrame
  <2>4. reader'.index <= reader'.target
    BY <1>1, <1>2, <2>2
  <2> QED BY <1>1, <2>2, <2>3, <2>4 DEF RasterInv, RasterTypes, Between
<1>3. CASE ~(reader.index < reader.target)
  <2> DEFINE pc == IF reader.last = <<>> THEN "failed" ELSE "returned"
  <2>1. reader' = [reader EXCEPT !.pc = pc] /\ pc \in {"failed", "returned"}
    BY <1>3 DEF Loop
  <2> HIDE DEF pc
  <2>2. /\ reader' \in Readers /\ reader'.pc = pc /\ reader'.index = reader.index
        /\ reader'.target = reader.target /\ reader'.last = reader.last
    BY <1>1, <2>1 DEF Readers
  <2>3. reader.index = reader.target
    BY <1>1, <1>3
  <2> QED BY <1>1, <2>1, <2>2, <2>3 DEF RasterInv, RasterTypes, Between, AtFrame
<1> QED BY <1>2, <1>3

\* The assembler is full: its frame is taken.
LEMMA TakeFrameKeeps == ASSUME RasterInv, TakeFrame PROVE RasterInv'
<1> DEFINE a == Filled(assembler)
           i == reader.index
<1>1. /\ reader \in Readers /\ reader.pc = "read" /\ i \in Nat /\ child.written \in Nat
      /\ Follows(assembler, FirstByte(i), child.written)
      /\ i <= reader.target /\ reader.target \in Nat /\ UNCHANGED child
      /\ child \in [state : {"none", "alive", "ended", "terminated", "killed"}, written : Nat]
  BY DEF RasterInv, RasterTypes, TakeFrame
<1>2. /\ FirstByte(i) \in Int /\ FirstByte(i + 1) = FirstByte(i) + FrameBytes /\ FrameBytes \in Nat
  BY <1>1, NextByte, RasterConstants
<1>3. /\ Follows(a, FirstByte(i), child.written) /\ Len(a.current) = FrameBytes
  BY <1>1, <1>2, FilledFollows DEF TakeFrame, IsFull
<1>4. /\ IsRun(a.current, FirstByte(i)) /\ IsRun(a.pending, FirstByte(i) + FrameBytes)
      /\ FirstByte(i) + FrameBytes + Len(a.pending) = child.written
  BY <1>3 DEF Follows
<1>5. a.current = FrameOf(i)
  <2>1. a.current \in Seq(Int) /\ \A k \in 1..Len(a.current) : a.current[k] = FirstByte(i) + k
    BY <1>4 DEF IsRun
  <2>2. a.current = [k \in 1..Len(a.current) |-> a.current[k]]
    BY <2>1
  <2> HIDE DEF a, i
  <2> QED BY <1>3, <2>1, <2>2 DEF FrameOf
<1>6. /\ assembler' = [current |-> <<>>, pending |-> a.pending]
      /\ reader' = [reader EXCEPT !.pc = "loop", !.last = a.current]
  BY DEF TakeFrame, Filled
<1> HIDE DEF a
<1>7. a.current \in Seq(Int) /\ a.pending \in Seq(Int) /\ Len(a.pending) \in Nat
  BY <1>4 DEF IsRun
<1>8. /\ reader' \in Readers /\ reader'.pc = "loop" /\ reader'.index = i
      /\ reader'.target = reader.target /\ reader'.last = FrameOf(i)
  BY <1>1, <1>5, <1>6, <1>7 DEF Readers
<1> HIDE DEF i
<1>9. assembler' \in [current : Seq(Int), pending : Seq(Int)]
  BY <1>6, <1>7
<1>10. Follows(assembler', FirstByte(i + 1), child'.written)
  <2>1. /\ assembler'.current = <<>> /\ assembler'.pending = a.pending
        /\ Len(assembler'.current) = 0
    BY <1>6
  <2>2. IsRun(<<>>, FirstByte(i + 1))
    BY DEF IsRun
  <2>3. /\ FirstByte(i + 1) + Len(assembler'.current) = FirstByte(i) + FrameBytes
        /\ FirstByte(i + 1) + Len(assembler'.current) + Len(assembler'.pending) = child'.written
    BY <1>1, <1>2, <1>4, <1>7, <2>1
  <2> QED BY <1>2, <1>4, <2>1, <2>2, <2>3 DEF Follows
<1>11. AtFrame(reader', assembler', child')
  BY <1>1, <1>8, <1>10 DEF AtFrame, NoFrame
<1> QED BY <1>1, <1>8, <1>9, <1>11 DEF RasterInv, RasterTypes, Between

\* Bytes of the pipe that follow what was written.
LEMMA ChunkRuns ==
  ASSUME NEW w \in Nat, NEW n \in Nat
  PROVE  LET chunk == [k \in 1..n |-> w + k] IN IsRun(chunk, w) /\ Len(chunk) = n
BY DEF IsRun

LEMMA ChunkKeeps == ASSUME RasterInv, Chunk PROVE RasterInv'
<1> DEFINE a == Filled(assembler)
           w == child.written
<1>1. PICK n \in 1..Smaller(MaxChunk, Bytes - w) :
        /\ assembler' = Pushed(a, [k \in 1..n |-> w + k])
        /\ child' = [child EXCEPT !.written = @ + n]
  BY DEF Chunk
<1>2. /\ reader.pc = "read" /\ reader.index \in Nat /\ w \in Nat /\ UNCHANGED reader
      /\ Follows(assembler, FirstByte(reader.index), w) /\ ~IsFull(a)
      /\ child \in [state : {"none", "alive", "ended", "terminated", "killed"}, written : Nat]
  BY DEF RasterInv, RasterTypes, Chunk
<1>3. n \in Nat
  BY <1>2, RasterConstants DEF Smaller, Bytes
<1>4. FirstByte(reader.index) \in Int
  BY <1>2, NextByte
<1>5. Follows(a, FirstByte(reader.index), w) /\ a.pending = <<>>
  BY <1>2, <1>4, FilledFollows
<1> DEFINE chunk == [k \in 1..n |-> w + k]
<1>6. IsRun(chunk, w) /\ Len(chunk) = n
  BY <1>2, <1>3, ChunkRuns
<1>7. assembler' = Pushed(a, chunk)
  BY <1>1
<1> HIDE DEF a, chunk
<1>8. Follows(assembler', FirstByte(reader.index), w + n)
  BY <1>2, <1>4, <1>5, <1>6, <1>7, PushedFollows
<1>9. /\ child' \in [state : {"none", "alive", "ended", "terminated", "killed"}, written : Nat]
      /\ child'.written = w + n
  BY <1>1, <1>2, <1>3
<1>10. assembler' \in [current : Seq(Int), pending : Seq(Int)]
  BY <1>7, <1>8 DEF Pushed, Follows, IsRun
<1> QED BY <1>2, <1>8, <1>9, <1>10 DEF RasterInv, RasterTypes, Between

LEMMA RasterSteps == ASSUME RasterInv, RasterNext PROVE RasterInv'
BY FrameAtKeeps, DecoderChildKeeps, AfreshKeeps, DisposeKeeps, LoopKeeps, TakeFrameKeeps, ChunkKeeps
DEF RasterNext

\* frameAt returns the frame it was asked for, for every video, frame size and largest
\* chunk, whatever the chunks of the pipe were, wherever the decoder was restarted; and
\* the assembler never holds more than a chunk beyond the frame (frameAt and
\* PrivateVisualFrameAssembler of src/src/media/private-visual-raster.ts).
THEOREM RasterFrameIsRight == RasterSpec => []FrameIsRight
<1>1. RasterInv => FrameIsRight
  <2> SUFFICES ASSUME RasterInv PROVE FrameIsRight
    OBVIOUS
  <2>1. ASSUME reader.pc = "returned"
        PROVE  reader.last = [k \in 1..FrameBytes |-> reader.target * FrameBytes + k]
    <3>1. reader.last = FrameOf(reader.target) 
      BY <2>1 DEF RasterInv, Between, AtFrame, NoFrame
    <3> QED BY <3>1 DEF FrameOf, FirstByte
  <2>2. ASSUME reader.pc = "read", ~IsFull(Filled(assembler)),
               NEW n \in 0..Smaller(MaxChunk, Bytes - child.written)
        PROVE  Fits(Filled(assembler), [k \in 1..n |-> child.written + k])
    <3> DEFINE chunk == [k \in 1..n |-> child.written + k]
    <3>1. /\ reader.index \in Nat /\ child.written \in Nat
          /\ Follows(assembler, FirstByte(reader.index), child.written)
      BY <2>2 DEF RasterInv, RasterTypes
    <3>2. n \in Nat /\ n <= MaxChunk
      BY <3>1, RasterConstants DEF Smaller, Bytes
    <3>3. FirstByte(reader.index) \in Int
      BY <3>1, NextByte
    <3>4. /\ Follows(Filled(assembler), FirstByte(reader.index), child.written)
          /\ Filled(assembler).pending = <<>>
      BY <2>2, <3>1, <3>3, FilledFollows
    <3>5. IsRun(chunk, child.written) /\ Len(chunk) = n
      BY <3>1, <3>2, ChunkRuns
    <3> HIDE DEF chunk
    <3>6. Follows(Pushed(Filled(assembler), chunk), FirstByte(reader.index), child.written + n)
          /\ Len(Pushed(Filled(assembler), chunk).pending) <= n
      BY <3>1, <3>3, <3>4, <3>5, PushedFollows
    <3>7. Len(Pushed(Filled(assembler), chunk).pending) \in Nat
      BY <3>6 DEF Follows, IsRun
    <3>8. Fits(Filled(assembler), chunk)
      BY <3>2, <3>6, <3>7, RasterConstants DEF Fits
    <3> QED BY <3>8 DEF chunk
  <2> QED BY <2>1, <2>2 DEF FrameIsRight
<1>2. RasterInv /\ UNCHANGED rasterVars => RasterInv'
  BY DEF RasterInv, RasterTypes, Between, AtFrame, rasterVars
<1> QED
  BY <1>1, <1>2, RasterStarts, RasterSteps, PTL DEF RasterSpec

-----------------------------------------------------------------------------
(* 3. Recording profiles. *)

Pcs == {"idle", "lockStore", "lock", "work", "write", "unlock", "unlockStore", "over", "crashed"}
Profiles == [revision : Nat, snapshot : Errands \cup {NoOne}]
Calls == [pc : Pcs, id : Ids \cup {NoOne}, seen : Profiles, wrote : BOOLEAN]

StoreTypes ==
  /\ shelf \in [Ids -> Profiles]
  /\ latch \in [Ids \cup {Creation} -> Errands \cup {NoOne}]
  /\ errand \in [Errands -> Calls]

Shelved(s) == {i \in Ids : s[i].revision > 0}
Written(i) == {c \in Errands : errand[c].id = i /\ errand[c].wrote}

\* Call c with the record e: at work it holds the lock of its profile, a creation that of
\* the store; and what Work found is still so when it writes.
Steady(c, e, l, s) ==
  /\ e.pc # "idle" => e.id \in Ids
  /\ e.pc \in {"idle", "lockStore", "lock", "work", "write"} => e.wrote = FALSE
  /\ e.pc \in {"work", "write"} => l[e.id] = c
  /\ c \in Creates /\ e.pc \in {"lock", "work", "write"} => l[Creation] = c
  /\ c \notin Creates /\ e.pc # "idle" => e.seen.revision > 0
  /\ c \in Creates /\ e.pc = "write" => Cardinality(Shelved(s)) < MaxProfiles
  /\ c \notin Creates /\ e.pc = "write" => s[e.id] = e.seen
AllSteady == \A c \in Errands : Steady(c, errand[c], latch, shelf)

\* A profile counts the calls that wrote it.
Counted ==
  /\ IsFiniteSet(Shelved(shelf)) /\ Cardinality(Shelved(shelf)) <= MaxProfiles
  /\ \A i \in Ids :
       /\ IsFiniteSet(Written(i)) /\ shelf[i].revision = Cardinality(Written(i))
       /\ Cardinality(Written(i) \cap Creates) = (IF shelf[i].revision > 0 THEN 1 ELSE 0)
       /\ Written(i) # {} => shelf[i].snapshot \in Written(i)

StoreInv == StoreTypes /\ AllSteady /\ Counted

LEMMA StoreStarts == ASSUME ProfileInit PROVE StoreInv
<1>1. StoreTypes
  BY DEF ProfileInit, StoreTypes, NewErrand, Profiles, Calls, Pcs
<1>2. AllSteady
  BY DEF ProfileInit, AllSteady, Steady, NewErrand
<1>3. Shelved(shelf) = {} /\ \A i \in Ids : Written(i) = {}
  BY DEF ProfileInit, Shelved, Written, NewErrand
<1>4. Counted
  <2>1. MaxProfiles \in Nat
    BY ProfileConstants
  <2>2. IsFiniteSet({}) /\ Cardinality({}) = 0 /\ {} \cap Creates = {}
    BY FS_EmptySet
  <2>3. \A i \in Ids : shelf[i].revision = 0
    BY DEF ProfileInit
  <2> QED BY <1>3, <2>1, <2>2, <2>3 DEF Counted
<1> QED BY <1>1, <1>2, <1>4 DEF StoreInv

\* A call goes on without writing: nobody else's locks change.
LEMMA CallGoes ==
  ASSUME StoreInv, NEW c \in Errands, NEW e \in Calls,
         errand' = [errand EXCEPT ![c] = e], UNCHANGED shelf,
         latch' \in [Ids \cup {Creation} -> Errands \cup {NoOne}],
         \A l \in DOMAIN latch, d \in Errands \ {c} : latch[l] = d => latch'[l] = d,
         Steady(c, e, latch', shelf), e.wrote = errand[c].wrote,
         e.wrote => e.id = errand[c].id
  PROVE  StoreInv'
<1>1. /\ errand' \in [Errands -> Calls] /\ errand'[c] = e
      /\ \A d \in Errands : d # c => errand'[d] = errand[d]
  BY DEF StoreInv, StoreTypes
<1>2. AllSteady'
  <2> SUFFICES ASSUME NEW d \in Errands PROVE Steady(d, errand'[d], latch', shelf)
    BY DEF AllSteady
  <2>1. CASE d = c
    BY <1>1, <2>1
  <2>2. CASE d # c
    <3>1. Steady(d, errand[d], latch, shelf) /\ errand'[d] = errand[d]
      BY <1>1, <2>2 DEF StoreInv, AllSteady
    <3>2. DOMAIN latch = Ids \cup {Creation}
      BY DEF StoreInv, StoreTypes
    <3>3. errand[d].pc \in {"work", "write"} => errand[d].id \in Ids
      BY <3>1 DEF Steady
    <3> QED BY <2>2, <3>1, <3>2, <3>3 DEF Steady
  <2> QED BY <2>1, <2>2
<1>3. \A i \in Ids : Written(i)' = Written(i)
  BY <1>1 DEF Written
<1>4. Counted'
  BY <1>3 DEF StoreInv, Counted
<1> QED BY <1>1, <1>2, <1>4 DEF StoreInv, StoreTypes

\* A call goes on to pc, and no lock changes hands but its own.
LEMMA CallMoves ==
  ASSUME StoreInv, NEW c \in Errands, NEW pc \in Pcs, ErrandGoes(c, pc), UNCHANGED shelf,
         latch' \in [Ids \cup {Creation} -> Errands \cup {NoOne}],
         \A l \in DOMAIN latch, d \in Errands \ {c} : latch[l] = d => latch'[l] = d,
         errand[c].pc # "idle", pc \notin {"idle", "lockStore"},
         pc \in {"lock", "work", "write"} => errand[c].wrote = FALSE,
         pc \in {"work", "write"} => latch'[errand[c].id] = c,
         c \in Creates /\ pc \in {"lock", "work", "write"} => latch'[Creation] = c,
         c \in Creates /\ pc = "write" => Cardinality(Shelved(shelf)) < MaxProfiles,
         c \notin Creates /\ pc = "write" => shelf[errand[c].id] = errand[c].seen
  PROVE  StoreInv'
<1> DEFINE e == [errand[c] EXCEPT !.pc = pc]
<1>1. errand[c] \in Calls /\ Steady(c, errand[c], latch, shelf)
  BY DEF StoreInv, StoreTypes, AllSteady
<1>2. errand' = [errand EXCEPT ![c] = e]
  BY DEF ErrandGoes
<1>3. /\ e \in Calls /\ e.pc = pc /\ e.id = errand[c].id /\ e.seen = errand[c].seen
      /\ e.wrote = errand[c].wrote
  BY <1>1 DEF Calls
<1> HIDE DEF e
<1>4. Steady(c, e, latch', shelf)
  BY <1>1, <1>3 DEF Steady
<1> QED BY <1>2, <1>3, <1>4, CallGoes

LEMMA CallKeeps ==
  ASSUME StoreInv, NEW c \in Errands, CallStore(c) PROVE StoreInv'
<1>1. PICK i \in Ids :
        /\ c \in Updates => i \in OnShelf
        /\ errand' = [errand EXCEPT ![c] = [pc |-> IF c \in Creates THEN "lockStore" ELSE "lock",
                                            id |-> i, seen |-> shelf[i], wrote |-> FALSE]]
  BY DEF CallStore
<1>2. errand[c].pc = "idle" /\ UNCHANGED <<shelf, latch>>
  BY DEF CallStore, ErrandAt
<1> DEFINE pc == IF c \in Creates THEN "lockStore" ELSE "lock"
           e == [pc |-> pc, id |-> i, seen |-> shelf[i], wrote |-> FALSE]
<1>3. pc \in Pcs /\ pc \in {"lockStore", "lock"} /\ (c \in Creates => pc = "lockStore")
  BY DEF Pcs
<1>4. shelf[i] \in Profiles /\ (c \notin Creates => shelf[i].revision > 0)
  BY <1>1 DEF StoreInv, StoreTypes, Errands, OnShelf
<1> HIDE DEF pc
<1>5. e \in Calls
  BY <1>3, <1>4 DEF Calls
<1>6. Steady(c, e, latch, shelf)
  BY <1>3, <1>4 DEF Steady
<1>7. errand[c].wrote = FALSE
  BY <1>2 DEF StoreInv, AllSteady, Steady
<1>8. errand' = [errand EXCEPT ![c] = e]
  BY <1>1 DEF pc
<1>9. e.wrote = errand[c].wrote /\ ~e.wrote
  BY <1>7
<1> HIDE DEF e
<1>10. latch' = latch /\ latch \in [Ids \cup {Creation} -> Errands \cup {NoOne}]
  BY <1>2 DEF StoreInv, StoreTypes
<1> QED BY <1>2, <1>5, <1>6, <1>8, <1>9, <1>10, CallGoes

\* Taking a lock that nobody holds, and leaving a lock.
LEMMA LocksMove ==
  ASSUME StoreInv, NEW c \in Errands,
         NEW l \in Ids \cup {Creation},
         \/ latch[l] = NoOne /\ latch' = [latch EXCEPT ![l] = c]
         \/ latch' = [latch EXCEPT ![l] = IF @ = c THEN NoOne ELSE @]
         \/ UNCHANGED latch
  PROVE  /\ latch' \in [Ids \cup {Creation} -> Errands \cup {NoOne}]
         /\ \A k \in DOMAIN latch, d \in Errands \ {c} : latch[k] = d => latch'[k] = d
<1>1. NoOne \notin Errands
  BY ProfileConstants
<1>2. latch \in [Ids \cup {Creation} -> Errands \cup {NoOne}]
  BY DEF StoreInv, StoreTypes
<1> QED BY <1>1, <1>2

LEMMA LocksKeep ==
  ASSUME StoreInv, NEW c \in Errands,
         \/ LockStore(c) \/ Lock(c) \/ Unlock(c) \/ UnlockStore(c)
  PROVE  StoreInv'
<1>1. /\ errand[c] \in Calls /\ Steady(c, errand[c], latch, shelf)
      /\ latch \in [Ids \cup {Creation} -> Errands \cup {NoOne}]
  BY DEF StoreInv, StoreTypes, AllSteady
<1>2. CASE LockStore(c)
  <2>1. /\ errand[c].pc = "lockStore" /\ latch[Creation] = NoOne /\ ErrandGoes(c, "lock")
        /\ latch' = [latch EXCEPT ![Creation] = c] /\ UNCHANGED shelf
    BY <1>2 DEF LockStore, ErrandAt, Take, IsFree
  <2>2. latch'[Creation] = c /\ "lock" \in Pcs /\ errand[c].wrote = FALSE
    BY <1>1, <2>1 DEF Steady, Pcs
  <2>3. /\ latch' \in [Ids \cup {Creation} -> Errands \cup {NoOne}]
        /\ \A k \in DOMAIN latch, d \in Errands \ {c} : latch[k] = d => latch'[k] = d
    BY <2>1, LocksMove
  <2> QED BY <2>1, <2>2, <2>3, CallMoves
<1>3. CASE Lock(c)
  <2>1. /\ errand[c].pc = "lock" /\ latch[errand[c].id] = NoOne /\ ErrandGoes(c, "work")
        /\ latch' = [latch EXCEPT ![errand[c].id] = c] /\ UNCHANGED shelf
    BY <1>3 DEF Lock, ErrandAt, Take, IsFree
  <2>2. errand[c].id \in Ids /\ "work" \in Pcs /\ errand[c].wrote = FALSE
    BY <1>1, <2>1 DEF Steady, Pcs
  <2>3. /\ latch' \in [Ids \cup {Creation} -> Errands \cup {NoOne}]
        /\ \A k \in DOMAIN latch, d \in Errands \ {c} : latch[k] = d => latch'[k] = d
    BY <2>1, <2>2, LocksMove
  <2>4. latch'[errand[c].id] = c
    BY <1>1, <2>1, <2>2
  <2>5. c \in Creates => latch'[Creation] = c
    BY <1>1, <2>1, <2>2 DEF Steady
  <2> QED BY <2>1, <2>2, <2>3, <2>4, <2>5, CallMoves
<1>4. CASE Unlock(c) \/ UnlockStore(c)
  <2>1. PICK l \in Ids \cup {Creation}, pc \in {"unlockStore", "over"} :
          errand[c].pc # "idle" /\ GiveBack(c, l, pc)
    BY <1>1, <1>4 DEF Unlock, UnlockStore, ErrandAt, Outside, Steady
  <2>2. /\ ErrandGoes(c, pc) /\ UNCHANGED shelf
        /\ latch' = [latch EXCEPT ![l] = IF @ = c THEN NoOne ELSE @] \/ UNCHANGED latch
    BY <2>1 DEF GiveBack
  <2>3. /\ latch' \in [Ids \cup {Creation} -> Errands \cup {NoOne}]
        /\ \A k \in DOMAIN latch, d \in Errands \ {c} : latch[k] = d => latch'[k] = d
    BY <2>2, LocksMove
  <2>4. pc \in Pcs
    BY DEF Pcs
  <2> QED BY <2>1, <2>2, <2>3, <2>4, CallMoves
<1> QED BY <1>2, <1>3, <1>4

LEMMA OthersKeep ==
  ASSUME StoreInv, NEW c \in Errands,
         \/ LockTimesOut(c) \/ Work(c) \/ ErrandFails(c) \/ ErrandDies(c)
         \/ (WriteProfile(c) /\ UNCHANGED shelf /\ ErrandGoes(c, "unlock"))
  PROVE  StoreInv'
<1>1. /\ errand[c] \in Calls /\ Steady(c, errand[c], latch, shelf)
      /\ latch \in [Ids \cup {Creation} -> Errands \cup {NoOne}]
  BY DEF StoreInv, StoreTypes, AllSteady
<1>2. UNCHANGED <<shelf, latch>> /\ errand[c].pc # "idle"
  BY DEF LockTimesOut, Work, ErrandFails, ErrandDies, WriteProfile, ErrandAt
<1>3. ASSUME NEW pc \in Pcs \ {"idle", "lockStore", "lock", "work", "write"}, ErrandGoes(c, pc)
      PROVE  StoreInv'
  BY <1>1, <1>2, <1>3, CallMoves
<1> DEFINE may == IF c \in Creates THEN Cardinality(OnShelf) < MaxProfiles
                  ELSE shelf[errand[c].id] = errand[c].seen
<1>0. Work(c) => errand[c].pc = "work" /\ ErrandGoes(c, IF may THEN "write" ELSE "unlock")
  BY Zenon DEF Work, ErrandAt
<1>4. CASE Work(c) /\ may
  <2>1. errand[c].pc = "work" /\ ErrandGoes(c, "write") /\ "write" \in Pcs
    BY <1>0, <1>4 DEF Pcs
  <2>2. Shelved(shelf) = OnShelf
    BY DEF Shelved, OnShelf
  <2> QED BY <1>1, <1>2, <1>4, <2>1, <2>2, CallMoves DEF Steady
<1>5. \/ Work(c) /\ may
      \/ \E pc \in Pcs \ {"idle", "lockStore", "lock", "work", "write"} : ErrandGoes(c, pc)
  <2>1. {"unlock", "over", "unlockStore", "crashed"}
          \subseteq Pcs \ {"idle", "lockStore", "lock", "work", "write"}
    BY DEF Pcs
  <2>2. CASE LockTimesOut(c)
    BY <2>1, <2>2 DEF LockTimesOut, Outside
  <2>3. CASE Work(c)
    BY <1>0, <2>1, <2>3
  <2>4. CASE ErrandFails(c) \/ ErrandDies(c)
    BY <2>1, <2>4 DEF ErrandFails, ErrandDies
  <2> QED BY <2>1, <2>2, <2>3, <2>4
<1> QED BY <1>3, <1>4, <1>5

\* A call writes: its profile counts one call more, the others count what they did.
LEMMA WriteKeeps ==
  ASSUME StoreInv, NEW c \in Errands, WriteProfile(c)
  PROVE  StoreInv'
<1> DEFINE v == [revision |-> IF c \in Creates THEN 1 ELSE errand[c].seen.revision + 1,
                 snapshot |-> c]
           e == [errand[c] EXCEPT !.pc = "unlock", !.wrote = TRUE]
<1>1. /\ errand[c] \in Calls /\ Steady(c, errand[c], latch, shelf) /\ errand[c].pc = "write"
      /\ shelf \in [Ids -> Profiles] /\ UNCHANGED latch /\ errand \in [Errands -> Calls]
      /\ DOMAIN latch = Ids \cup {Creation}
  BY DEF StoreInv, StoreTypes, AllSteady, WriteProfile, ErrandAt
<1>5. PICK i \in Ids : i = errand[c].id
  BY <1>1 DEF Steady
<1>2. /\ latch[i] = c /\ errand[c].wrote = FALSE
      /\ c \in Creates => /\ latch[Creation] = c
                          /\ Cardinality(Shelved(shelf)) < MaxProfiles
      /\ c \notin Creates => shelf[i] = errand[c].seen /\ shelf[i].revision > 0
  BY <1>1, <1>5 DEF Steady
<1>3. CASE c \in Creates /\ i \in OnShelf
  BY <1>3, <1>5, OthersKeep DEF WriteProfile
<1>4. CASE ~(c \in Creates /\ i \in OnShelf)
  <2>1. shelf' = [shelf EXCEPT ![i] = v] /\ errand' = [errand EXCEPT ![c] = e]
    <3>1. errand' = [errand EXCEPT ![c].pc = "unlock", ![c].wrote = TRUE]
      BY <1>4, <1>5 DEF WriteProfile
    <3>2. shelf' = [shelf EXCEPT ![i] = v]
      BY <1>4, <1>5 DEF WriteProfile
    <3> QED BY <1>1, <3>1, <3>2
  <2>2. e \in Calls /\ e.pc = "unlock" /\ e.wrote = TRUE /\ e.id = i /\ e.seen = errand[c].seen
    <3>1. "unlock" \in Pcs /\ TRUE \in BOOLEAN
      BY DEF Pcs
    <3>2. e \in Calls
      BY <1>1, <3>1, Zenon DEF Calls
    <3> QED BY <1>1, <1>5, <3>2 DEF Calls
  <2>3. /\ v \in Profiles /\ v.revision = shelf[i].revision + 1 /\ v.snapshot = c
        /\ shelf[i].revision \in Nat
        /\ c \in Creates => shelf[i].revision = 0
    <3>1. /\ shelf[i].revision \in Nat
          /\ c \in Creates => shelf[i].revision = 0
      BY <1>1, <1>2, <1>4 DEF OnShelf, Profiles
    <3>2. (IF c \in Creates THEN 1 ELSE errand[c].seen.revision + 1) = shelf[i].revision + 1
      BY <1>2, <3>1
    <3>3. v.revision = shelf[i].revision + 1 /\ v.snapshot = c
      BY <3>2
    <3>4. v = [revision |-> shelf[i].revision + 1, snapshot |-> c]
      BY <3>2
    <3> QED BY <3>1, <3>3, <3>4 DEF Profiles
  <2> HIDE DEF v, e
  <2>4. /\ shelf' \in [Ids -> Profiles] /\ shelf'[i] = v
        /\ \A k \in Ids : k # i => shelf'[k] = shelf[k]
        /\ errand' \in [Errands -> Calls] /\ errand'[c] = e
        /\ \A d \in Errands : d # c => errand'[d] = errand[d]
    BY <1>1, <1>2, <2>1, <2>2, <2>3
  <2>5. Shelved(shelf') = Shelved(shelf) \cup {i} /\ (i \in Shelved(shelf) <=> c \notin Creates)
    BY <1>2, <2>3, <2>4 DEF Shelved
  <2>6. /\ IsFiniteSet(Shelved(shelf')) /\ Cardinality(Shelved(shelf')) <= MaxProfiles
        /\ c \notin Creates => Shelved(shelf') = Shelved(shelf)
    <3>1. IsFiniteSet(Shelved(shelf)) /\ Cardinality(Shelved(shelf)) <= MaxProfiles
      BY DEF StoreInv, Counted
    <3>2. CASE c \notin Creates
      BY <2>5, <3>1, <3>2
    <3>3. CASE c \in Creates
      <4>1. IsFiniteSet(Shelved(shelf) \cup {i})
        BY <3>1, FS_AddElement, Zenon
      <4>2. Cardinality(Shelved(shelf) \cup {i}) = Cardinality(Shelved(shelf)) + 1
        BY <2>5, <3>1, <3>3, FS_AddElement
      <4>3. Cardinality(Shelved(shelf)) \in Nat /\ MaxProfiles \in Nat
        BY <3>1, FS_CardinalityType, ProfileConstants
      <4> QED BY <1>2, <2>5, <3>3, <4>1, <4>2, <4>3
    <3> QED BY <3>2, <3>3
  <2>7. AllSteady'
    <3> SUFFICES ASSUME NEW d \in Errands PROVE Steady(d, errand'[d], latch, shelf')
      BY <1>1 DEF AllSteady
    <3>1. CASE d = c
      <4>1. c \notin Creates => e.seen.revision > 0
        BY <1>2, <2>2
      <4> QED BY <1>2, <1>5, <2>2, <2>4, <3>1, <4>1 DEF Steady
    <3>2. CASE d # c
      <4>1. errand'[d] = errand[d] /\ Steady(d, errand[d], latch, shelf)
        BY <2>4, <3>2 DEF StoreInv, AllSteady
      <4>2. errand[d].pc = "write" => errand[d].id \in Ids /\ errand[d].id # i
        BY <1>2, <3>2, <4>1 DEF Steady
      <4>3. d \in Creates /\ errand[d].pc = "write" => c \notin Creates
        BY <1>2, <3>2, <4>1 DEF Steady
      <4> QED BY <2>4, <2>6, <4>1, <4>2, <4>3 DEF Steady
    <3> QED BY <3>1, <3>2
  <2>8. Written(i)' = Written(i) \cup {c} /\ c \notin Written(i)
    BY <1>2, <1>5, <2>2, <2>4 DEF Written
  <2>9. \A k \in Ids : k # i => Written(k)' = Written(k)
    BY <1>2, <1>5, <2>2, <2>4 DEF Written
  <2>10. Counted'
    <3>1. ASSUME NEW k \in Ids, k # i
          PROVE  /\ IsFiniteSet(Written(k)') /\ shelf'[k].revision = Cardinality(Written(k)')
                 /\ Cardinality(Written(k)' \cap Creates) = (IF shelf'[k].revision > 0 THEN 1 ELSE 0)
                 /\ Written(k)' # {} => shelf'[k].snapshot \in Written(k)'
      BY <2>4, <2>9, <3>1 DEF StoreInv, Counted
    <3>2. /\ IsFiniteSet(Written(i)) /\ shelf[i].revision = Cardinality(Written(i))
          /\ Cardinality(Written(i) \cap Creates) = (IF shelf[i].revision > 0 THEN 1 ELSE 0)
      BY <1>2 DEF StoreInv, Counted
    <3>3. IsFiniteSet(Written(i)') /\ Cardinality(Written(i)') = Cardinality(Written(i)) + 1
      BY <2>8, <3>2, FS_AddElement
    <3>4. Cardinality(Written(i)' \cap Creates) = 1
      <4>1. CASE c \in Creates
        <5>1. Written(i) = {}
          BY <2>3, <3>2, <4>1, FS_EmptySet
        <5>2. Written(i)' \cap Creates = {c}
          BY <2>8, <4>1, <5>1
        <5> QED BY <5>2, FS_Singleton
      <4>2. CASE c \notin Creates
        <5>1. Written(i)' \cap Creates = Written(i) \cap Creates
          BY <2>8, <4>2
        <5> QED BY <1>2, <3>2, <4>2, <5>1
      <4> QED BY <4>1, <4>2
    <3>5. shelf'[i].revision = Cardinality(Written(i)') /\ shelf'[i].revision > 0
          /\ shelf'[i].snapshot \in Written(i)'
      BY <2>3, <2>4, <2>8, <3>2, <3>3
    <3>6. ASSUME NEW k \in Ids
          PROVE  /\ IsFiniteSet(Written(k)') /\ shelf'[k].revision = Cardinality(Written(k)')
                 /\ Cardinality(Written(k)' \cap Creates) = (IF shelf'[k].revision > 0 THEN 1 ELSE 0)
                 /\ Written(k)' # {} => shelf'[k].snapshot \in Written(k)'
      <4>1. CASE k = i
        BY <3>3, <3>4, <3>5, <4>1
      <4> QED BY <3>1, <4>1
    <3> QED BY <2>6, <3>6 DEF Counted
  <2> QED BY <1>1, <2>4, <2>7, <2>10 DEF StoreInv, StoreTypes
<1> QED BY <1>3, <1>4

LEMMA StoreSteps == ASSUME StoreInv, ProfileNext PROVE StoreInv'
BY CallKeeps, LocksKeep, OthersKeep, WriteKeeps DEF ProfileNext

\* No recording profile is lost, for any number of servers, calls and profiles, through
\* failures and crashes: the bound on profiles holds, a profile was created once, and its
\* revision counts the updates that were written, the last of which is what is stored
\* (create and update of src/mcp/recording-profile-store.ts).
THEOREM StoreProfilesKept == ProfileSpec => []ProfilesKept
<1>1. StoreInv => ProfilesKept
  <2> SUFFICES ASSUME StoreInv PROVE ProfilesKept
    OBVIOUS
  <2>1. OnShelf = Shelved(shelf)
    BY DEF OnShelf, Shelved
  <2>2. ASSUME NEW i \in Ids
        PROVE  /\ shelf[i].revision = Cardinality(Written(i))
               /\ Cardinality(Written(i) \cap Creates) = (IF i \in OnShelf THEN 1 ELSE 0)
               /\ Written(i) # {} => shelf[i].snapshot \in Written(i)
    BY DEF StoreInv, Counted, OnShelf
  <2>3. Cardinality(OnShelf) <= MaxProfiles
    BY <2>1 DEF StoreInv, Counted
  <2>4. ASSUME NEW i \in Ids
        PROVE  LET written == {c \in Errands : errand[c].id = i /\ errand[c].wrote}
               IN /\ shelf[i].revision = Cardinality(written)
                  /\ Cardinality(written \cap Creates) = (IF i \in OnShelf THEN 1 ELSE 0)
                  /\ written # {} => shelf[i].snapshot \in written
    BY <2>2 DEF Written
  <2>5. Cardinality(OnShelf) <= MaxProfiles
    BY <2>3
  <2> QED BY <2>4, <2>5 DEF ProfilesKept
<1>2. ProfileInit => StoreInv
  BY StoreStarts
<1>3. StoreInv /\ [ProfileNext]_profileVars => StoreInv'
  <2> SUFFICES ASSUME StoreInv, [ProfileNext]_profileVars PROVE StoreInv'
    OBVIOUS
  <2>1. CASE UNCHANGED profileVars
    <3>1. UNCHANGED <<shelf, latch, errand>>
      BY <2>1 DEF profileVars
    <3>2. StoreTypes' /\ AllSteady'
      BY <3>1 DEF StoreInv, StoreTypes, AllSteady
    <3>3. \A i \in Ids : Written(i)' = Written(i)
      BY <3>1 DEF Written
    <3> QED BY <3>1, <3>2, <3>3 DEF StoreInv, Counted
  <2> QED BY <2>1, StoreSteps
<1> QED
  BY <1>1, <1>2, <1>3, PTL DEF ProfileSpec

-----------------------------------------------------------------------------
(* 4. Private media of a project. *)

Values == Contents \cup Kinds \cup Encodings \cup {Missing}
Pairs == [object : Values, metadata : Values]
Imported == [pc : ImportPcs, content : Contents \cup {Missing}, kind : Kinds \cup {Missing},
             store : Stores, own : Values, undo : BOOLEAN, seen : Values]

MediaTypes ==
  /\ pairs \in [Stores -> [Contents -> Pairs]]
  /\ journal \in [Contents -> Values]
  /\ records \subseteq Contents
  /\ import \in [Imports -> Imported]

\* No metadata without its object; an object of the library is its content, an asset what
\* its metadata says.
SoundPairs(ps) ==
  \A c \in Contents :
    /\ ps["library"][c].object \in {c, Missing}
    /\ ps["library"][c].metadata # Missing => ps["library"][c].object = c
    /\ ps["assets"][c].metadata # Missing => ps["assets"][c].object = ps["assets"][c].metadata

\* The call with the record r has published an object and not its metadata.
Undoes(r) == r.undo /\ r.pc \in {"metadata", "verify", "compare", "remove"}

InTheLibrary(r, ps) == ps["library"][r.content] = [object |-> r.content, metadata |-> r.kind]
InTheAssets(r, ps) == ps["assets"][r.content] = [object |-> r.own, metadata |-> r.own]

Sound(r, ps, entries, recorded) ==
  /\ r.pc # "idle" => r.content \in Contents /\ r.kind \in Kinds
  /\ r.pc \in {"idle", "object", "encode"} => ~r.undo
  /\ r.pc \in {"metadata", "remove"} => r.undo
  /\ r.pc = "object" => r.own # Missing
  /\ r.pc # "idle" /\ r.store = "library" => r.own = r.content
  /\ Undoes(r) => /\ r.own # Missing
                  /\ ps[r.store][r.content] = [object |-> r.own, metadata |-> Missing]
  /\ r.store = "assets" \/ r.pc = "normalize" => r.pc # "idle" /\ r.kind = "audio" /\ InTheLibrary(r, ps)
  /\ r.pc = "record" => r.kind # "audio" /\ InTheLibrary(r, ps)
  /\ r.pc \in {"encode", "read", "register"} => r.store = "assets"
  /\ r.pc = "compare" /\ r.store = "assets" =>
       r.seen # Missing /\ ps["assets"][r.content].metadata = r.seen
  /\ r.pc \in {"read", "register"} => r.own # Missing /\ InTheAssets(r, ps)
  /\ r.pc = "done" =>
       /\ InTheLibrary(r, ps)
       /\ r.kind = "audio" => r.own # Missing /\ InTheAssets(r, ps) /\ entries[r.content] = r.own
       /\ r.kind # "audio" => r.content \in recorded

AllSound == \A i \in Imports : Sound(import[i], pairs, journal, records)

\* At most one call undoes a pair.
OneUndoes ==
  \A i, j \in Imports :
    i # j /\ Undoes(import[i]) /\ Undoes(import[j]) =>
      import[i].store # import[j].store \/ import[i].content # import[j].content

MediaInv == MediaTypes /\ SoundPairs(pairs) /\ AllSound /\ OneUndoes

LEMMA MediaStarts == ImportInit => MediaInv
<1> SUFFICES ASSUME ImportInit PROVE MediaInv
  OBVIOUS
<1>1. MediaTypes
  BY DEF ImportInit, MediaTypes, Stores, Values, Pairs, Imported, Missing, NewImport,
     NoPair, ImportPcs
<1>2. SoundPairs(pairs)
  BY DEF ImportInit, SoundPairs, Missing, NoPair, Stores
<1>3. \A i \in Imports : import[i] = NewImport
  BY DEF ImportInit
<1>4. /\ NewImport.pc = "idle" /\ NewImport.undo = FALSE
      /\ NewImport.store = "library"
  BY DEF NewImport
<1>5. AllSound /\ OneUndoes
  BY <1>3, <1>4 DEF AllSound, Sound, OneUndoes, Undoes
<1> QED BY <1>1, <1>2, <1>5 DEF MediaInv

\* What is complete stays: so do the other calls.
LEMMA OtherStays ==
  ASSUME NEW r \in Imported, NEW ps, NEW qs, NEW es, NEW fs, NEW rs, NEW ts,
         Sound(r, ps, es, rs),
         \A s \in Stores, c \in Contents : ps[s][c].metadata # Missing => qs[s][c] = ps[s][c],
         Undoes(r) => qs[r.store][r.content] = ps[r.store][r.content],
         \A c \in Contents : es[c] # Missing => fs[c] = es[c],
         rs \subseteq ts
  PROVE  Sound(r, qs, fs, ts)
<1>1. "library" \in Stores /\ "assets" \in Stores
  BY DEF Stores
<1>2. ASSUME r.pc # "idle", InTheLibrary(r, ps) PROVE InTheLibrary(r, qs)
  <2>1. r.content \in Contents /\ r.kind # Missing
    BY <1>2, ImportConstants DEF Sound, Missing
  <2> QED BY <1>1, <1>2, <2>1 DEF InTheLibrary
<1>3. ASSUME r.pc # "idle", r.own # Missing, InTheAssets(r, ps) PROVE InTheAssets(r, qs)
  <2>1. r.content \in Contents
    BY <1>3 DEF Sound
  <2> QED BY <1>1, <1>3, <2>1 DEF InTheAssets
<1>4. r.pc # "idle" => r.content \in Contents
  BY DEF Sound
<1> QED BY <1>1, <1>2, <1>3, <1>4 DEF Sound

\* Call i becomes r, and the files change as they may.
LEMMA CallBecomes ==
  ASSUME MediaInv, NEW i \in Imports, NEW r \in Imported,
         import' = [import EXCEPT ![i] = r],
         pairs' \in [Stores -> [Contents -> Pairs]], SoundPairs(pairs'),
         journal' \in [Contents -> Values], records' \subseteq Contents,
         Sound(r, pairs', journal', records'),
         \A s \in Stores, c \in Contents : pairs[s][c].metadata # Missing => pairs'[s][c] = pairs[s][c],
         \A j \in Imports \ {i} : Undoes(import[j]) =>
           pairs'[import[j].store][import[j].content] = pairs[import[j].store][import[j].content],
         \A j \in Imports \ {i} : Undoes(r) /\ Undoes(import[j]) =>
           r.store # import[j].store \/ r.content # import[j].content,
         \A c \in Contents : journal[c] # Missing => journal'[c] = journal[c],
         records \subseteq records'
  PROVE  MediaInv'
<1>1. /\ import' \in [Imports -> Imported] /\ import'[i] = r
      /\ \A j \in Imports \ {i} : import'[j] = import[j]
  BY DEF MediaInv, MediaTypes
<1>2. AllSound'
  <2> SUFFICES ASSUME NEW j \in Imports PROVE Sound(import'[j], pairs', journal', records')
    BY DEF AllSound
  <2>1. CASE j = i
    BY <1>1, <2>1
  <2>2. CASE j # i
    <3>1. Sound(import[j], pairs, journal, records) /\ import[j] \in Imported
      BY DEF MediaInv, MediaTypes, AllSound
    <3>2. Sound(import[j], pairs', journal', records')
      BY <2>2, <3>1, OtherStays
    <3> QED BY <1>1, <2>2, <3>2
  <2> QED BY <2>1, <2>2
<1>3. OneUndoes'
  <2> SUFFICES ASSUME NEW j \in Imports, NEW k \in Imports, j # k, Undoes(import'[j]), Undoes(import'[k])
               PROVE  import'[j].store # import'[k].store \/ import'[j].content # import'[k].content
    BY DEF OneUndoes
  <2>1. CASE j = i
    BY <1>1, <2>1
  <2>2. CASE k = i
    BY <1>1, <2>2
  <2>3. CASE j # i /\ k # i
    BY <1>1, <2>3 DEF MediaInv, OneUndoes
  <2> QED BY <2>1, <2>2, <2>3
<1> QED BY <1>1, <1>2, <1>3 DEF MediaInv, MediaTypes

\* Only the call becomes another.
LEMMA ImportMoves ==
  ASSUME MediaInv, NEW i \in Imports, NEW r \in Imported,
         import' = [import EXCEPT ![i] = r], UNCHANGED pairs,
         journal' \in [Contents -> Values], records' \subseteq Contents,
         Sound(r, pairs, journal', records'),
         Undoes(r) => /\ Undoes(import[i]) /\ r.store = import[i].store
                      /\ r.content = import[i].content,
         \A c \in Contents : journal[c] # Missing => journal'[c] = journal[c],
         records \subseteq records'
  PROVE  MediaInv'
<1>1. /\ pairs' \in [Stores -> [Contents -> Pairs]] /\ SoundPairs(pairs')
      /\ Sound(r, pairs', journal', records')
  BY DEF MediaInv, MediaTypes
<1>2. \A j \in Imports \ {i} : Undoes(r) /\ Undoes(import[j]) =>
           r.store # import[j].store \/ r.content # import[j].content
  BY DEF MediaInv, OneUndoes
<1> QED BY <1>1, <1>2, CallBecomes

\* The call at hand.
LEMMA ThisCall ==
  ASSUME MediaInv, NEW i \in Imports
  PROVE  /\ import[i] \in Imported /\ Sound(import[i], pairs, journal, records)
         /\ pairs \in [Stores -> [Contents -> Pairs]] /\ SoundPairs(pairs)
         /\ journal \in [Contents -> Values] /\ records \subseteq Contents
BY DEF MediaInv, MediaTypes, AllSound

\* A change of its pc.
LEMMA PcMoves ==
  ASSUME MediaInv, NEW i \in Imports, NEW pc \in ImportPcs,
         ImportGoes(i, pc), UNCHANGED <<pairs, journal, records>>,
         Sound([import[i] EXCEPT !.pc = pc], pairs, journal, records),
         Undoes([import[i] EXCEPT !.pc = pc]) => Undoes(import[i])
  PROVE  MediaInv'
<1> DEFINE r == [import[i] EXCEPT !.pc = pc]
<1>1. import[i] \in Imported
  BY ThisCall
<1>2. r \in Imported /\ r.store = import[i].store /\ r.content = import[i].content
  BY <1>1 DEF Imported
<1>3. import' = [import EXCEPT ![i] = r]
  BY DEF ImportGoes
<1>4. journal' \in [Contents -> Values] /\ records' \subseteq Contents
  BY ThisCall
<1> HIDE DEF r
<1> QED BY <1>2, <1>3, <1>4, ImportMoves DEF r

\* A call ends without a result.
LEMMA Ends ==
  ASSUME MediaInv, NEW i \in Imports, NEW pc \in {"failed", "crashed"},
         ImportGoes(i, pc), UNCHANGED <<pairs, journal, records>>, import[i].pc # "idle"
  PROVE  MediaInv'
<1>1. pc \in ImportPcs
  BY DEF ImportPcs
<1> DEFINE r == [import[i] EXCEPT !.pc = pc]
<1>2. /\ import[i] \in Imported /\ Sound(import[i], pairs, journal, records)
      /\ r.pc = pc /\ r.content = import[i].content /\ r.kind = import[i].kind
      /\ r.store = import[i].store /\ r.own = import[i].own
  BY ThisCall DEF Imported
<1> HIDE DEF r
<1>3. Sound(r, pairs, journal, records) /\ ~Undoes(r)
  BY <1>2 DEF Sound, Undoes, InTheLibrary
<1> QED BY <1>1, <1>3, PcMoves DEF r

\* A verification that fails.
LEMMA Refuses ==
  ASSUME MediaInv, NEW i \in Imports, Refused(i),
         UNCHANGED <<pairs, journal, records>>, import[i].pc \in {"verify", "compare"}
  PROVE  MediaInv'
<1>1. CASE ~import[i].undo
  BY <1>1, Ends DEF Refused
<1>2. CASE import[i].undo
  <2>1. ImportGoes(i, "remove") /\ "remove" \in ImportPcs
    BY <1>2 DEF Refused, ImportPcs
  <2> DEFINE r == [import[i] EXCEPT !.pc = "remove"]
  <2>2. /\ import[i] \in Imported /\ Sound(import[i], pairs, journal, records)
        /\ r.pc = "remove" /\ r.content = import[i].content /\ r.kind = import[i].kind
        /\ r.store = import[i].store /\ r.own = import[i].own /\ r.undo = import[i].undo
    BY ThisCall DEF Imported
  <2> HIDE DEF r
  <2>3. Undoes(import[i])
    BY <1>2 DEF Undoes
  <2>4. Sound(r, pairs, journal, records)
    BY <1>2, <2>2, <2>3 DEF Sound, InTheLibrary
  <2> QED BY <2>1, <2>3, <2>4, PcMoves DEF r
<1> QED BY <1>1, <1>2

LEMMA CopySourceKeeps ==
  ASSUME MediaInv, NEW i \in Imports, CopySource(i) PROVE MediaInv'
<1>1. PICK c \in Contents, k \in Kinds :
        import' = [import EXCEPT ![i] = [NewImport EXCEPT !.pc = "object", !.content = c,
                                                                !.kind = k, !.own = c]]
  BY DEF CopySource
<1>2. UNCHANGED <<pairs, journal, records>>
  BY DEF CopySource
<1> DEFINE r == [NewImport EXCEPT !.pc = "object", !.content = c, !.kind = k, !.own = c]
<1>3. NewImport \in Imported /\ c \in Values /\ "object" \in ImportPcs
      /\ c \in Contents \cup {Missing} /\ k \in Kinds \cup {Missing}
  BY DEF NewImport, Imported, Values, ImportPcs, Stores, Missing
<1>4. r \in Imported
  BY <1>3, Zenon DEF Imported
<1>5. /\ r.pc = "object" /\ r.content = c /\ r.kind = k /\ r.own = c
      /\ r.store = "library" /\ r.undo = FALSE
  BY <1>3 DEF Imported, NewImport
<1> HIDE DEF r
<1>6. c # Missing
  BY ImportConstants DEF Missing
<1>7. Sound(r, pairs, journal, records) /\ ~Undoes(r)
  BY <1>5, <1>6 DEF Sound, Undoes
<1>8. journal' \in [Contents -> Values] /\ records' \subseteq Contents
      /\ Sound(r, pairs, journal', records')
  BY <1>2, <1>7, ThisCall
<1>9. import' = [import EXCEPT ![i] = r]
  BY <1>1 DEF r
<1> QED BY <1>2, <1>4, <1>7, <1>8, <1>9, ImportMoves

\* A link or an unlink changes one pair.
LEMMA OnePair ==
  ASSUME pairs \in [Stores -> [Contents -> Pairs]], NEW s \in Stores, NEW c \in Contents,
         NEW p \in Pairs, pairs' = [pairs EXCEPT ![s][c] = p]
  PROVE  /\ pairs' \in [Stores -> [Contents -> Pairs]] /\ pairs'[s][c] = p
         /\ \A t \in Stores, d \in Contents : t # s \/ d # c => pairs'[t][d] = pairs[t][d]
<1>1. [pairs[s] EXCEPT ![c] = p] \in [Contents -> Pairs]
  OBVIOUS
<1>2. pairs' = [pairs EXCEPT ![s] = [pairs[s] EXCEPT ![c] = p]]
  OBVIOUS
<1>3. pairs' \in [Stores -> [Contents -> Pairs]]
  BY <1>1, <1>2
<1>4. pairs'[s] = [pairs[s] EXCEPT ![c] = p] /\ \A t \in Stores : t # s => pairs'[t] = pairs[t]
  BY <1>2
<1> QED BY <1>3, <1>4

LEMMA PutObject ==
  ASSUME pairs \in [Stores -> [Contents -> Pairs]], NEW s \in Stores, NEW c \in Contents,
         NEW v \in Values, pairs' = [pairs EXCEPT ![s][c]["object"] = v]
  PROVE  /\ pairs' \in [Stores -> [Contents -> Pairs]]
         /\ pairs'[s][c] = [object |-> v, metadata |-> pairs[s][c].metadata]
         /\ \A t \in Stores, d \in Contents : t # s \/ d # c => pairs'[t][d] = pairs[t][d]
<1>1. pairs[s][c] \in Pairs
  OBVIOUS
<1>2. [pairs[s][c] EXCEPT !["object"] = v] = [object |-> v, metadata |-> pairs[s][c].metadata]
  BY <1>1 DEF Pairs
<1>3. pairs' = [pairs EXCEPT ![s][c] = [object |-> v, metadata |-> pairs[s][c].metadata]]
  BY <1>2
<1>4. [object |-> v, metadata |-> pairs[s][c].metadata] \in Pairs
  BY <1>1 DEF Pairs
<1> QED BY <1>3, <1>4, OnePair

LEMMA PutMetadata ==
  ASSUME pairs \in [Stores -> [Contents -> Pairs]], NEW s \in Stores, NEW c \in Contents,
         NEW v \in Values, pairs' = [pairs EXCEPT ![s][c]["metadata"] = v]
  PROVE  /\ pairs' \in [Stores -> [Contents -> Pairs]]
         /\ pairs'[s][c] = [object |-> pairs[s][c].object, metadata |-> v]
         /\ \A t \in Stores, d \in Contents : t # s \/ d # c => pairs'[t][d] = pairs[t][d]
<1>1. pairs[s][c] \in Pairs
  OBVIOUS
<1>2. [pairs[s][c] EXCEPT !["metadata"] = v] = [object |-> pairs[s][c].object, metadata |-> v]
  BY <1>1 DEF Pairs
<1>3. pairs' = [pairs EXCEPT ![s][c] = [object |-> pairs[s][c].object, metadata |-> v]]
  BY <1>2
<1>4. [object |-> pairs[s][c].object, metadata |-> v] \in Pairs
  BY <1>1 DEF Pairs
<1> QED BY <1>3, <1>4, OnePair

LEMMA LinkObjectKeeps ==
  ASSUME MediaInv, NEW i \in Imports, LinkObject(i) PROVE MediaInv'
<1> DEFINE q == import[i]
<1>1. /\ q \in Imported /\ Sound(q, pairs, journal, records) /\ q.pc = "object"
      /\ pairs \in [Stores -> [Contents -> Pairs]] /\ SoundPairs(pairs)
      /\ journal' \in [Contents -> Values] /\ records' \subseteq Contents
      /\ UNCHANGED <<journal, records>>
  BY ThisCall DEF LinkObject, ImportAt
<1>2. /\ q.content \in Contents /\ q.kind \in Kinds /\ ~q.undo /\ q.own # Missing
      /\ q.store \in Stores /\ q.own \in Values
      /\ q.store = "library" => q.own = q.content
      /\ q.store = "assets" => q.kind = "audio" /\ InTheLibrary(q, pairs)
  BY <1>1 DEF Sound, Imported
<1>3. CASE Pair(i).object = Missing
  <2> DEFINE r == [q EXCEPT !.pc = "metadata", !.undo = TRUE]
  <2>1. /\ pairs' = [pairs EXCEPT ![q.store][q.content]["object"] = q.own]
        /\ import' = [import EXCEPT ![i].pc = "metadata", ![i].undo = TRUE]
    BY <1>3 DEF LinkObject, Puts, Missing
  <2>2. import' = [import EXCEPT ![i] = r]
    BY <2>1 DEF MediaInv, MediaTypes
  <2>3. r \in Imported
    <3>1. "metadata" \in ImportPcs /\ TRUE \in BOOLEAN
      BY DEF ImportPcs
    <3> QED BY <1>1, <3>1, Zenon DEF Imported
  <2>4. /\ r.pc = "metadata" /\ r.undo = TRUE /\ r.content = q.content /\ r.kind = q.kind
        /\ r.store = q.store /\ r.own = q.own
    BY <1>1 DEF Imported
  <2> HIDE DEF q, r
  <2>5. /\ pairs' \in [Stores -> [Contents -> Pairs]]
        /\ pairs'[q.store][q.content]
             = [object |-> q.own, metadata |-> pairs[q.store][q.content].metadata]
        /\ \A t \in Stores, d \in Contents :
             t # q.store \/ d # q.content => pairs'[t][d] = pairs[t][d]
    <3>1. /\ pairs \in [Stores -> [Contents -> Pairs]]
          /\ q.store \in Stores /\ q.content \in Contents /\ q.own \in Values
      BY <1>1, <1>2
    <3>2. pairs' = [pairs EXCEPT ![q.store][q.content]["object"] = q.own]
      BY <2>1
    <3> QED BY <3>1, <3>2, PutObject, ZenonT(90)
  <2>6. pairs[q.store][q.content].object = Missing
    BY <1>3 DEF Pair, q
  <2>7. pairs[q.store][q.content].metadata = Missing
    <3>1. q.store \in {"library", "assets"} /\ q.content # Missing
      BY <1>2, ImportConstants DEF Stores, Missing
    <3> QED BY <1>1, <1>2, <2>6, <3>1 DEF SoundPairs
  <2>8. SoundPairs(pairs')
    BY <1>1, <1>2, <2>5, <2>7 DEF SoundPairs, Stores
  <2>9. InTheLibrary(q, pairs) /\ q.store = "assets" => InTheLibrary(r, pairs')
    BY <1>2, <2>4, <2>5 DEF InTheLibrary, Stores
  <2>10. Sound(r, pairs', journal', records')
    BY <1>2, <2>4, <2>5, <2>7, <2>9 DEF Sound
  <2>11. ASSUME NEW j \in Imports \ {i}, Undoes(import[j])
         PROVE  q.store # import[j].store \/ q.content # import[j].content
    <3>1. Sound(import[j], pairs, journal, records)
      BY ThisCall
    <3> QED BY <2>6, <2>11, <3>1 DEF Sound
  <2>12. ASSUME NEW j \in Imports \ {i}, Undoes(import[j])
         PROVE  pairs'[import[j].store][import[j].content] = pairs[import[j].store][import[j].content]
    <3>1. import[j] \in Imported /\ Sound(import[j], pairs, journal, records)
      BY ThisCall
    <3>2. import[j].store \in Stores /\ import[j].content \in Contents
      BY <2>12, <3>1 DEF Sound, Undoes, Imported
    <3> QED BY <2>5, <2>11, <2>12, <3>2
  <2>13. \A s \in Stores, c \in Contents : pairs[s][c].metadata # Missing => pairs'[s][c] = pairs[s][c]
    BY <2>5, <2>7
  <2>14. \A j \in Imports \ {i} : Undoes(r) /\ Undoes(import[j]) =>
           r.store # import[j].store \/ r.content # import[j].content
    BY <2>4, <2>11
  <2>15. \A j \in Imports \ {i} : Undoes(import[j]) =>
           pairs'[import[j].store][import[j].content] = pairs[import[j].store][import[j].content]
    BY <2>12
  <2>16. /\ journal' \in [Contents -> Values] /\ records' \subseteq Contents /\ records \subseteq records'
         /\ \A c \in Contents : journal[c] # Missing => journal'[c] = journal[c]
    BY <1>1
  <2> QED BY <2>2, <2>3, <2>5, <2>8, <2>10, <2>13, <2>14, <2>15, <2>16, CallBecomes
<1>4. CASE Pair(i).object # Missing
  <2>1. UNCHANGED pairs /\ (ImportGoes(i, "verify") \/ ImportGoes(i, "failed"))
    BY <1>4 DEF LinkObject, Missing
  <2>2. CASE ImportGoes(i, "failed")
    BY <1>1, <2>1, <2>2, Ends
  <2>3. CASE ImportGoes(i, "verify")
    <3> DEFINE r == [q EXCEPT !.pc = "verify"]
    <3>1. /\ r.pc = "verify" /\ r.undo = q.undo /\ r.content = q.content /\ r.kind = q.kind
          /\ r.store = q.store /\ r.own = q.own
      BY <1>1 DEF Imported
    <3> HIDE DEF r
    <3>2. Sound(r, pairs, journal, records) /\ ~Undoes(r)
      BY <1>2, <3>1 DEF Sound, Undoes, InTheLibrary
    <3>3. "verify" \in ImportPcs
      BY DEF ImportPcs
    <3> QED BY <1>1, <2>1, <2>3, <3>2, <3>3, PcMoves DEF r
  <2> QED BY <2>1, <2>2, <2>3
<1> QED BY <1>3, <1>4

\* The call that undoes a pair changes it, and is done with it.
LEMMA OwnPair ==
  ASSUME MediaInv, NEW i \in Imports, NEW r \in Imported,
         import' = [import EXCEPT ![i] = r], UNCHANGED <<journal, records>>,
         Undoes(import[i]), ~Undoes(r),
         pairs' \in [Stores -> [Contents -> Pairs]], SoundPairs(pairs'),
         Sound(r, pairs', journal, records),
         \A t \in Stores, d \in Contents :
           t # import[i].store \/ d # import[i].content => pairs'[t][d] = pairs[t][d]
  PROVE  MediaInv'
<1>1. /\ import[i] \in Imported /\ Sound(import[i], pairs, journal, records)
      /\ journal \in [Contents -> Values] /\ records \subseteq Contents
  BY ThisCall
<1>2. pairs[import[i].store][import[i].content].metadata = Missing
  BY <1>1 DEF Sound
<1>3. \A s \in Stores, c \in Contents : pairs[s][c].metadata # Missing => pairs'[s][c] = pairs[s][c]
  BY <1>2
<1>4. ASSUME NEW j \in Imports \ {i}, Undoes(import[j])
      PROVE  pairs'[import[j].store][import[j].content] = pairs[import[j].store][import[j].content]
  <2>1. import[j] \in Imported /\ Sound(import[j], pairs, journal, records)
    BY ThisCall
  <2>2. import[j].store \in Stores /\ import[j].content \in Contents
    BY <1>4, <2>1 DEF Sound, Undoes, Imported
  <2>3. import[j].store # import[i].store \/ import[j].content # import[i].content
    BY <1>4 DEF MediaInv, OneUndoes
  <2> QED BY <2>2, <2>3
<1>5. \A j \in Imports \ {i} : Undoes(import[j]) =>
        pairs'[import[j].store][import[j].content] = pairs[import[j].store][import[j].content]
  BY <1>4
<1>6. /\ journal' \in [Contents -> Values] /\ records' \subseteq Contents /\ records \subseteq records'
      /\ Sound(r, pairs', journal', records')
      /\ \A c \in Contents : journal[c] # Missing => journal'[c] = journal[c]
  BY <1>1
<1> QED BY <1>3, <1>5, <1>6, CallBecomes

LEMMA LinkMetadataKeeps ==
  ASSUME MediaInv, NEW i \in Imports, LinkMetadata(i) PROVE MediaInv'
<1> DEFINE q == import[i]
           r == [q EXCEPT !.pc = "verify", !.undo = FALSE]
           m == IF q.store = "library" THEN q.kind ELSE q.own
<1>1. /\ q \in Imported /\ Sound(q, pairs, journal, records) /\ q.pc = "metadata"
      /\ pairs \in [Stores -> [Contents -> Pairs]] /\ SoundPairs(pairs)
      /\ UNCHANGED <<journal, records>>
  BY ThisCall DEF LinkMetadata, ImportAt
<1>2. /\ q.content \in Contents /\ q.kind \in Kinds /\ q.undo /\ q.own # Missing
      /\ q.store \in Stores /\ q.own \in Values /\ Undoes(q)
      /\ q.store = "library" => q.own = q.content
      /\ q.store = "assets" => q.kind = "audio" /\ InTheLibrary(q, pairs)
      /\ pairs[q.store][q.content] = [object |-> q.own, metadata |-> Missing]
  BY <1>1 DEF Sound, Imported, Undoes
<1>3. /\ pairs' = [pairs EXCEPT ![q.store][q.content]["metadata"] = m]
      /\ import' = [import EXCEPT ![i].pc = "verify", ![i].undo = FALSE]
  <2>1. Pair(i).metadata = Missing
    BY <1>2 DEF Pair, Missing
  <2> QED BY <2>1 DEF LinkMetadata, Puts, OwnMetadata, InLibrary
<1>4. import' = [import EXCEPT ![i] = r]
  BY <1>3 DEF MediaInv, MediaTypes
<1>5. r \in Imported
  <2>1. "verify" \in ImportPcs /\ FALSE \in BOOLEAN
    BY DEF ImportPcs
  <2> QED BY <1>1, <2>1, Zenon DEF Imported
<1>6. /\ r.pc = "verify" /\ r.undo = FALSE /\ r.content = q.content /\ r.kind = q.kind
      /\ r.store = q.store /\ r.own = q.own
  BY <1>1 DEF Imported
<1>7. m \in Values
  BY <1>2 DEF Values
<1>8. /\ q.store = "library" => m = q.kind
      /\ q.store # "library" => m = q.own
  OBVIOUS
<1> HIDE DEF q, r, m
<1>9. /\ pairs' \in [Stores -> [Contents -> Pairs]]
      /\ pairs'[q.store][q.content] = [object |-> q.own, metadata |-> m]
      /\ \A t \in Stores, d \in Contents :
           t # q.store \/ d # q.content => pairs'[t][d] = pairs[t][d]
  <2>1. pairs \in [Stores -> [Contents -> Pairs]] /\ q.store \in Stores /\ q.content \in Contents
    BY <1>1, <1>2
  <2>2. pairs' = [pairs EXCEPT ![q.store][q.content]["metadata"] = m]
    BY <1>3
  <2>3. /\ pairs' \in [Stores -> [Contents -> Pairs]]
        /\ pairs'[q.store][q.content] = [object |-> pairs[q.store][q.content].object, metadata |-> m]
        /\ \A t \in Stores, d \in Contents :
             t # q.store \/ d # q.content => pairs'[t][d] = pairs[t][d]
    BY <1>7, <2>1, <2>2, PutMetadata, Zenon
  <2>4. pairs[q.store][q.content].object = q.own
    BY <1>2
  <2> QED BY <2>3, <2>4
<1>10. SoundPairs(pairs')
  BY <1>1, <1>2, <1>8, <1>9 DEF SoundPairs, Stores
<1>11. q.store = "assets" => InTheLibrary(r, pairs')
  BY <1>2, <1>6, <1>9 DEF InTheLibrary, Stores
<1>12. Sound(r, pairs', journal, records) /\ ~Undoes(r)
  BY <1>2, <1>6, <1>11 DEF Sound, Undoes
<1> QED BY <1>1, <1>2, <1>4, <1>5, <1>9, <1>10, <1>12, OwnPair DEF q

LEMMA RemoveKeeps ==
  ASSUME MediaInv, NEW i \in Imports, RemovePublished(i) PROVE MediaInv'
<1> DEFINE q == import[i]
           r == [q EXCEPT !.pc = "failed"]
<1>1. /\ q \in Imported /\ Sound(q, pairs, journal, records) /\ q.pc = "remove"
      /\ pairs \in [Stores -> [Contents -> Pairs]] /\ SoundPairs(pairs)
      /\ UNCHANGED <<journal, records>> /\ import' = [import EXCEPT ![i] = r]
  BY ThisCall DEF RemovePublished, ImportAt, ImportGoes
<1>2. /\ q.content \in Contents /\ q.kind \in Kinds /\ q.undo
      /\ q.store \in Stores /\ Undoes(q)
      /\ q.store = "library" => q.own = q.content
      /\ q.store = "assets" => q.kind = "audio" /\ InTheLibrary(q, pairs)
      /\ pairs[q.store][q.content] = [object |-> q.own, metadata |-> Missing]
  BY <1>1 DEF Sound, Imported, Undoes
<1>3. pairs' = [pairs EXCEPT ![q.store][q.content]["object"] = Missing]
  <2>1. Pair(i).object = import[i].own
    BY <1>2 DEF Pair
  <2> QED BY <2>1 DEF RemovePublished, Puts, Missing
<1>4. "failed" \in ImportPcs /\ Missing \in Values
  BY DEF ImportPcs, Values
<1>5. /\ r \in Imported /\ r.pc = "failed" /\ r.content = q.content /\ r.kind = q.kind
      /\ r.store = q.store /\ r.own = q.own
  BY <1>1, <1>4 DEF Imported
<1> HIDE DEF q, r
<1>6. /\ pairs' \in [Stores -> [Contents -> Pairs]]
      /\ pairs'[q.store][q.content] = [object |-> Missing, metadata |-> Missing]
      /\ \A t \in Stores, d \in Contents :
           t # q.store \/ d # q.content => pairs'[t][d] = pairs[t][d]
  <2>1. pairs \in [Stores -> [Contents -> Pairs]] /\ q.store \in Stores /\ q.content \in Contents
    BY <1>1, <1>2
  <2>2. /\ pairs' \in [Stores -> [Contents -> Pairs]]
        /\ pairs'[q.store][q.content]
             = [object |-> Missing, metadata |-> pairs[q.store][q.content].metadata]
        /\ \A t \in Stores, d \in Contents :
             t # q.store \/ d # q.content => pairs'[t][d] = pairs[t][d]
    BY <1>3, <1>4, <2>1, PutObject, ZenonT(90)
  <2>3. pairs[q.store][q.content].metadata = Missing
    BY <1>2
  <2> QED BY <2>2, <2>3
<1>7. SoundPairs(pairs')
  BY <1>1, <1>2, <1>6 DEF SoundPairs, Stores
<1>8. q.store = "assets" => InTheLibrary(r, pairs')
  BY <1>2, <1>5, <1>6 DEF InTheLibrary, Stores
<1>9. Sound(r, pairs', journal, records) /\ ~Undoes(r)
  BY <1>2, <1>5, <1>8 DEF Sound, Undoes
<1> QED BY <1>1, <1>2, <1>5, <1>6, <1>7, <1>9, OwnPair DEF q

\* The metadata cannot be linked; a verification.
LEMMA VerifyKeeps ==
  ASSUME MediaInv, NEW i \in Imports,
         \/ LinkMetadataFails(i) \/ VerifyFirst(i) \/ VerifySecond(i)
         \/ VerifyFails(i)
  PROVE  MediaInv'
<1> DEFINE q == import[i]
<1>1. /\ q \in Imported /\ Sound(q, pairs, journal, records)
      /\ pairs \in [Stores -> [Contents -> Pairs]] /\ SoundPairs(pairs)
      /\ journal \in [Contents -> Values] /\ records \subseteq Contents
      /\ UNCHANGED <<pairs, journal, records>> /\ q.pc \in {"metadata", "verify", "compare"}
  BY ThisCall DEF LinkMetadataFails, VerifyFirst, VerifySecond,
     VerifyFails, ImportAt
<1>2. /\ q.content \in Contents /\ q.kind \in Kinds /\ q.kind # Missing
      /\ q.store \in Stores /\ (q.store = "library" \/ q.store = "assets")
      /\ InLibrary(i) <=> q.store = "library"
      /\ Pair(i) = pairs[q.store][q.content] /\ pairs[q.store][q.content] \in Pairs
  BY <1>1, ImportConstants DEF Sound, Imported, Stores, InLibrary,
     Pair, Missing
<1>3. q.pc \in {"verify", "compare"} /\ Refused(i) => MediaInv'
  BY <1>1, Refuses
<1>4. CASE LinkMetadataFails(i)
  <2> DEFINE r == [q EXCEPT !.pc = "verify"]
  <2>1. ImportGoes(i, "verify") /\ q.pc = "metadata" /\ "verify" \in ImportPcs
    BY <1>4 DEF LinkMetadataFails, ImportAt, ImportPcs
  <2>2. /\ r.pc = "verify" /\ r.undo = q.undo /\ r.content = q.content /\ r.kind = q.kind
        /\ r.store = q.store /\ r.own = q.own
    BY <1>1 DEF Imported
  <2> HIDE DEF r
  <2>3. Sound(r, pairs, journal, records) /\ (Undoes(r) => Undoes(q))
    BY <1>1, <2>1, <2>2 DEF Sound, Undoes, InTheLibrary
  <2> QED BY <1>1, <2>1, <2>3, PcMoves DEF r
<1>5. CASE VerifyFirst(i)
  <2> DEFINE first == IF q.store = "library" THEN pairs[q.store][q.content].object
                      ELSE pairs[q.store][q.content].metadata
             r == [q EXCEPT !.pc = "compare", !.seen = first]
  <2>1. q.pc = "verify"
    BY <1>5 DEF VerifyFirst, ImportAt
  <2>2. \/ Refused(i)
        \/ first # Missing /\ import' = [import EXCEPT ![i].pc = "compare", ![i].seen = first]
    BY <1>2, <1>5 DEF VerifyFirst, Missing
  <2>3. CASE first # Missing /\ import' = [import EXCEPT ![i].pc = "compare", ![i].seen = first]
    <3>1. import' = [import EXCEPT ![i] = r]
      BY <2>3 DEF MediaInv, MediaTypes
    <3>2. first \in Values /\ "compare" \in ImportPcs
      BY <1>2 DEF Pairs, ImportPcs
    <3>3. q.store = "assets" => first = pairs["assets"][q.content].metadata
      OBVIOUS
    <3> HIDE DEF first
    <3>4. r \in Imported
      BY <1>1, <3>2, Zenon DEF Imported
    <3>5. /\ r.pc = "compare" /\ r.undo = q.undo /\ r.content = q.content /\ r.kind = q.kind
          /\ r.store = q.store /\ r.own = q.own /\ r.seen = first
      BY <1>1 DEF Imported
    <3> HIDE DEF r
    <3>6. Undoes(r) => Undoes(q)
      BY <2>1, <3>5 DEF Undoes
    <3>7. Sound(r, pairs, journal, records)
      BY <1>1, <2>1, <2>3, <3>3, <3>5, <3>6 DEF Sound, InTheLibrary
    <3>8. /\ journal' \in [Contents -> Values] /\ records' \subseteq Contents
          /\ Sound(r, pairs, journal', records') /\ records \subseteq records'
          /\ \A c \in Contents : journal[c] # Missing => journal'[c] = journal[c]
      BY <1>1, <3>7
    <3> QED BY <1>1, <3>1, <3>4, <3>5, <3>6, <3>8, ImportMoves
  <2> QED BY <1>3, <2>1, <2>2, <2>3
<1>6. CASE VerifySecond(i)
  <2>1. q.pc = "compare"
    BY <1>6 DEF VerifySecond, ImportAt
  <2>2. CASE q.store = "library" /\ pairs[q.store][q.content].metadata = q.kind
    <3>1. PICK pc \in {"normalize", "record"} :
            ImportGoes(i, pc) /\ (pc = "normalize" <=> q.kind = "audio")
      BY <1>2, <1>6, <2>2 DEF VerifySecond
    <3> DEFINE r == [q EXCEPT !.pc = pc]
    <3>2. /\ r.pc = pc /\ r.undo = q.undo /\ r.content = q.content /\ r.kind = q.kind
          /\ r.store = q.store /\ r.own = q.own
      BY <1>1 DEF Imported
    <3> HIDE DEF r
    <3>3. pairs["library"][q.content].object = q.content
      BY <1>1, <1>2, <2>2 DEF SoundPairs
    <3>4. InTheLibrary(r, pairs)
      BY <1>2, <2>2, <3>2, <3>3 DEF InTheLibrary, Pairs
    <3>5. Sound(r, pairs, journal, records) /\ ~Undoes(r)
      BY <1>1, <1>2, <2>1, <2>2, <3>1, <3>2, <3>4 DEF Sound, Undoes
    <3>6. pc \in ImportPcs
      BY DEF ImportPcs
    <3> QED BY <1>1, <3>1, <3>5, <3>6, PcMoves DEF r
  <2>3. CASE q.store = "assets" /\ pairs[q.store][q.content].object = q.seen
    <3> DEFINE r == [q EXCEPT !.pc = "read", !.own = q.seen]
    <3>1. import' = [import EXCEPT ![i].pc = "read", ![i].own = import[i].seen]
      BY <1>2, <1>6, <2>3 DEF VerifySecond
    <3>2. import' = [import EXCEPT ![i] = r]
      BY <3>1 DEF MediaInv, MediaTypes
    <3>3. r \in Imported
      <4>1. q.seen \in Values /\ "read" \in ImportPcs
        BY <1>1 DEF Imported, ImportPcs
      <4> QED BY <1>1, <4>1, Zenon DEF Imported
    <3>4. /\ r.pc = "read" /\ r.undo = q.undo /\ r.content = q.content /\ r.kind = q.kind
          /\ r.store = q.store /\ r.own = q.seen
      BY <1>1 DEF Imported
    <3> HIDE DEF r
    <3>5. q.seen # Missing /\ pairs["assets"][q.content].metadata = q.seen
      BY <1>1, <2>1, <2>3 DEF Sound
    <3>6. InTheAssets(r, pairs)
      BY <1>2, <2>3, <3>4, <3>5 DEF InTheAssets, Pairs
    <3>7. Sound(r, pairs, journal, records) /\ ~Undoes(r)
      BY <1>1, <1>2, <2>1, <2>3, <3>4, <3>5, <3>6 DEF Sound, Undoes, InTheLibrary
    <3>8. /\ journal' \in [Contents -> Values] /\ records' \subseteq Contents
          /\ Sound(r, pairs, journal', records') /\ records \subseteq records'
          /\ \A c \in Contents : journal[c] # Missing => journal'[c] = journal[c]
      BY <1>1, <3>7
    <3> QED BY <1>1, <3>2, <3>3, <3>7, <3>8, ImportMoves
  <2>4. Refused(i) \/ (q.store = "library" /\ pairs[q.store][q.content].metadata = q.kind)
          \/ (q.store = "assets" /\ pairs[q.store][q.content].object = q.seen)
    BY <1>2, <1>6 DEF VerifySecond
  <2> QED BY <1>3, <2>1, <2>2, <2>3, <2>4
<1>7. CASE VerifyFails(i)
  BY <1>3, <1>7 DEF VerifyFails
<1> QED BY <1>4, <1>5, <1>6, <1>7

LEMMA NormalizeKeeps ==
  ASSUME MediaInv, NEW i \in Imports,
         Normalize(i) \/ Encode(i)
  PROVE  MediaInv'
<1> DEFINE q == import[i]
<1>1. /\ q \in Imported /\ Sound(q, pairs, journal, records)
      /\ pairs \in [Stores -> [Contents -> Pairs]]
      /\ journal \in [Contents -> Values] /\ records \subseteq Contents
      /\ UNCHANGED <<pairs, journal, records>> /\ q.pc \in {"normalize", "encode"}
  BY ThisCall DEF Normalize, Encode, ImportAt
<1>2. q.content \in Contents /\ q.kind = "audio" /\ q.kind \in Kinds /\ InTheLibrary(q, pairs)
  BY <1>1 DEF Sound
<1>3. SUFFICES \E r \in Imported : /\ import' = [import EXCEPT ![i] = r]
                                   /\ Sound(r, pairs, journal, records) /\ ~Undoes(r)
  BY <1>1, ImportMoves
<1>4. CASE Normalize(i)
  <2>1. PICK pc \in {"encode", "verify"} :
          import' = [import EXCEPT ![i].store = "assets", ![i].undo = FALSE, ![i].seen = Missing,
                                   ![i].pc = pc]
    BY <1>4 DEF Normalize, Missing
  <2> DEFINE r == [q EXCEPT !.store = "assets", !.undo = FALSE, !.seen = Missing, !.pc = pc]
  <2>2. import' = [import EXCEPT ![i] = r]
    BY <2>1 DEF MediaInv, MediaTypes
  <2>3. r \in Imported
    <3>1. "assets" \in Stores /\ FALSE \in BOOLEAN /\ Missing \in Values /\ pc \in ImportPcs
      BY DEF Stores, Values, ImportPcs
    <3> QED BY <1>1, <3>1, Zenon DEF Imported
  <2>4. /\ r.pc = pc /\ r.undo = FALSE /\ r.content = q.content /\ r.kind = q.kind
        /\ r.store = "assets"
    BY <1>1 DEF Imported
  <2> HIDE DEF r
  <2>5. Sound(r, pairs, journal, records) /\ ~Undoes(r)
    BY <1>2, <2>4 DEF Sound, Undoes, InTheLibrary
  <2> QED BY <2>2, <2>3, <2>5
<1>5. CASE Encode(i)
  <2>1. PICK e \in Encodings : import' = [import EXCEPT ![i].pc = "object", ![i].own = e]
    BY <1>5 DEF Encode
  <2>2. q.pc = "encode" /\ q.store = "assets" /\ q.undo = FALSE
    BY <1>1, <1>5 DEF Encode, ImportAt, Sound, Imported
  <2> DEFINE r == [q EXCEPT !.pc = "object", !.own = e]
  <2>3. import' = [import EXCEPT ![i] = r]
    BY <2>1 DEF MediaInv, MediaTypes
  <2>4. r \in Imported
    <3>1. e \in Values /\ "object" \in ImportPcs
      BY DEF Values, ImportPcs
    <3> QED BY <1>1, <3>1, Zenon DEF Imported
  <2>5. /\ r.pc = "object" /\ r.undo = q.undo /\ r.content = q.content /\ r.kind = q.kind
        /\ r.store = q.store /\ r.own = e
    BY <1>1 DEF Imported
  <2> HIDE DEF r
  <2>6. e # Missing
    BY ImportConstants DEF Missing
  <2>7. Sound(r, pairs, journal, records) /\ ~Undoes(r)
    BY <1>2, <2>2, <2>5, <2>6 DEF Sound, Undoes, InTheLibrary
  <2> QED BY <2>3, <2>4, <2>7
<1> QED BY <1>1, <1>4, <1>5

\* A call goes on to pc, done or not, with what the journal and the records say by then.
LEMMA Result ==
  ASSUME MediaInv, NEW i \in Imports, NEW pc \in {"register", "done"},
         ImportGoes(i, pc), UNCHANGED pairs, import[i].pc \in {"read", "register", "record"},
         pc = "register" => import[i].pc = "read",
         journal' \in [Contents -> Values], records' \subseteq Contents, records \subseteq records',
         \A c \in Contents : journal[c] # Missing => journal'[c] = journal[c],
         pc = "done" /\ import[i].pc # "record" => journal'[import[i].content] = import[i].own,
         import[i].pc = "record" => import[i].content \in records'
  PROVE  MediaInv'
<1> DEFINE q == import[i]
           r == [q EXCEPT !.pc = pc]
<1>1. q \in Imported /\ Sound(q, pairs, journal, records) /\ pc \in ImportPcs
  BY ThisCall DEF ImportPcs
<1>2. /\ r \in Imported /\ r.pc = pc /\ r.undo = q.undo /\ r.content = q.content
      /\ r.kind = q.kind /\ r.store = q.store /\ r.own = q.own
  BY <1>1 DEF Imported
<1>3. import' = [import EXCEPT ![i] = r]
  BY DEF ImportGoes
<1> HIDE DEF r
<1>4. ~Undoes(r)
  BY <1>2 DEF Undoes
<1>5. CASE q.pc = "record"
  <2>1. /\ q.content \in Contents /\ q.kind \in Kinds /\ q.kind # "audio" /\ InTheLibrary(q, pairs)
        /\ q.store = "assets" => FALSE
        /\ q.store = "library" => q.own = q.content
    BY <1>1, <1>5 DEF Sound
  <2>2. pc = "done"
    BY <1>5
  <2> QED BY <1>2, <1>3, <1>4, <1>5, <2>1, <2>2, ImportMoves DEF Sound, InTheLibrary
<1>6. CASE q.pc # "record"
  <2>1. /\ q.content \in Contents /\ q.kind \in Kinds /\ q.kind = "audio" /\ InTheLibrary(q, pairs)
        /\ q.store = "assets" /\ q.own # Missing /\ InTheAssets(q, pairs)
    BY <1>1, <1>6 DEF Sound
  <2>2. Sound(r, pairs, journal', records')
    BY <1>2, <1>4, <1>6, <2>1 DEF Sound, InTheLibrary, InTheAssets
  <2> QED BY <1>2, <1>3, <1>4, <2>2, ImportMoves
<1> QED BY <1>5, <1>6

LEMMA RegisterKeeps ==
  ASSUME MediaInv, NEW i \in Imports,
         ReadJournal(i) \/ RegisterAsset(i) \/ SaveRecord(i)
  PROVE  MediaInv'
<1> DEFINE q == import[i]
<1>1. /\ q \in Imported /\ Sound(q, pairs, journal, records) /\ UNCHANGED pairs
      /\ journal \in [Contents -> Values] /\ records \subseteq Contents
  BY ThisCall DEF ReadJournal, RegisterAsset, SaveRecord
<1>2. CASE ReadJournal(i)
  <2>1. q.pc = "read" /\ UNCHANGED <<journal, records>>
    BY <1>2 DEF ReadJournal, ImportAt
  <2>2. \/ ImportGoes(i, "register")
        \/ journal[q.content] = q.own /\ ImportGoes(i, "done")
        \/ ImportGoes(i, "failed")
    <3>1. CASE journal[q.content] = Missing
      BY <1>2, <3>1 DEF ReadJournal
    <3>2. CASE journal[q.content] # Missing /\ journal[q.content] = q.own
      BY <1>2, <3>2 DEF ReadJournal
    <3>3. CASE journal[q.content] # Missing /\ journal[q.content] # q.own
      BY <1>2, <3>3 DEF ReadJournal
    <3> QED BY <3>1, <3>2, <3>3
  <2> QED BY <1>1, <2>1, <2>2, Result, Ends
<1>3. CASE RegisterAsset(i)
  <2>1. q.pc = "register" /\ UNCHANGED records /\ q.content \in Contents /\ q.own \in Values
    BY <1>1, <1>3 DEF RegisterAsset, ImportAt, Sound, Imported
  <2>2. CASE journal[q.content] = Missing
    <3>1. journal' = [journal EXCEPT ![q.content] = q.own] /\ ImportGoes(i, "done")
      BY <1>3, <2>2 DEF RegisterAsset, Missing
    <3>2. /\ journal' \in [Contents -> Values] /\ journal'[q.content] = q.own
          /\ \A c \in Contents : journal[c] # Missing => journal'[c] = journal[c]
      BY <1>1, <2>1, <2>2, <3>1
    <3> QED BY <1>1, <2>1, <3>1, <3>2, Result
  <2>3. CASE journal[q.content] # Missing
    <3>1. UNCHANGED journal /\ \/ journal[q.content] = q.own /\ ImportGoes(i, "done")
                               \/ ImportGoes(i, "failed")
      BY <1>3, <2>3 DEF RegisterAsset, Missing
    <3> QED BY <1>1, <2>1, <3>1, Result, Ends
  <2> QED BY <2>2, <2>3
<1>4. CASE SaveRecord(i)
  <2>1. /\ q.pc = "record" /\ UNCHANGED journal /\ ImportGoes(i, "done")
        /\ records' = records \cup {q.content}
    BY <1>4 DEF SaveRecord, ImportAt
  <2>2. q.content \in Contents
    BY <1>1, <2>1 DEF Sound
  <2> QED BY <1>1, <2>1, <2>2, Result
<1> QED BY <1>2, <1>3, <1>4

LEMMA FailuresKeep ==
  ASSUME MediaInv, NEW i \in Imports,
         EncodeFails(i) \/ ImportFails(i) \/ ImportDies(i)
  PROVE  MediaInv'
<1> DEFINE q == import[i]
<1>1. q \in Imported /\ Sound(q, pairs, journal, records) /\ UNCHANGED <<pairs, journal, records>>
      /\ q.pc # "idle"
  BY ThisCall DEF EncodeFails, ImportFails, ImportDies
<1>2. CASE ImportGoes(i, "failed") \/ ImportGoes(i, "crashed")
  BY <1>1, <1>2, Ends
<1>3. CASE EncodeFails(i) /\ ImportGoes(i, "verify")
  <2> DEFINE r == [q EXCEPT !.pc = "verify"]
  <2>1. q.pc \in {"encode", "object"} /\ "verify" \in ImportPcs
    BY <1>3 DEF EncodeFails, ImportPcs
  <2>2. /\ r.pc = "verify" /\ r.undo = q.undo /\ r.content = q.content /\ r.kind = q.kind
        /\ r.store = q.store /\ r.own = q.own
    BY <1>1 DEF Imported
  <2> HIDE DEF r
  <2>3. Sound(r, pairs, journal, records) /\ ~Undoes(r)
    BY <1>1, <2>1, <2>2 DEF Sound, Undoes, InTheLibrary
  <2> QED BY <1>1, <1>3, <2>1, <2>3, PcMoves DEF r
<1> QED BY <1>2, <1>3 DEF EncodeFails, ImportFails, ImportDies

LEMMA MediaSteps == ASSUME MediaInv, ImportNext PROVE MediaInv'
BY CopySourceKeeps, LinkObjectKeeps, LinkMetadataKeeps, VerifyKeeps, RemoveKeeps,
   NormalizeKeeps, RegisterKeeps, FailuresKeep
DEF ImportNext

\* What an import has returned stays, for any number of imports, contents and encodings:
\* its object and metadata in the library, the asset and the journal entry of audio in one
\* encoding, the record of visual media; no failure, crash or clean-up of another import
\* takes any of it away (importProjectMedia and the stores it goes through).
THEOREM MediaImportsStay == ImportSpec => []ImportsStay
<1>1. MediaInv => ImportsStay
  <2> SUFFICES ASSUME MediaInv, NEW i \in Imports, import[i].pc = "done"
               PROVE  LET c == import[i].content
                      IN /\ pairs["library"][c] = [object |-> c, metadata |-> import[i].kind]
                         /\ import[i].kind = "audio" =>
                              /\ pairs["assets"][c] = [object |-> import[i].own, metadata |-> import[i].own]
                              /\ journal[c] = import[i].own
                         /\ import[i].kind = "visual" => c \in records
    BY DEF ImportsStay
  <2>1. Sound(import[i], pairs, journal, records)
    BY ThisCall
  <2> QED BY <2>1 DEF Sound, InTheLibrary, InTheAssets
<1>2. ImportInit => MediaInv
  BY MediaStarts
<1>3. MediaInv /\ [ImportNext]_importVars => MediaInv'
  <2> SUFFICES ASSUME MediaInv, [ImportNext]_importVars PROVE MediaInv'
    OBVIOUS
  <2>1. CASE UNCHANGED importVars
    BY <2>1 DEF MediaInv, MediaTypes, AllSound, OneUndoes, importVars
  <2> QED BY <2>1, MediaSteps
<1> QED
  BY <1>1, <1>2, <1>3, PTL DEF ImportSpec
=============================================================================
