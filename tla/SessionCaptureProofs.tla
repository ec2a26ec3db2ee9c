------------------------ MODULE SessionCaptureProofs ------------------------
(***************************************************************************)
(* A capture is never begun twice, every broker that listens can be closed, *)
(* what is sealed is whole and what is discarded is gone, for every number  *)
(* of servers, calls, brokers and crashes, if the client is orderly.  None  *)
(* is inductive.  TurnInv says which calls may be under way together, from  *)
(* which at most one is past the lock (OneRuns): so what a call read before *)
(* it starts a broker still holds when it starts one.  OnceInv says what it *)
(* read: the file says "ready" only while no capture began.  WholeInv says  *)
(* how the files, the broker that wrote them and the calls that read them   *)
(* agree: a summary says "stopped" only of the frames in the log.           *)
(***************************************************************************)
EXTENDS SessionProofs

Opening == {"create", "state"}
Starting == {"start", "wrap"}

InspectAlone ==
  \A c, d \in Calls : Active(c) /\ call[c].kind = "inspect" /\ Active(d) => c = d
CreateFirst ==
  ~Known => \A c \in Calls : Active(c) => call[c].kind = "create"

TurnInv == ActiveHasKind /\ OneCreate /\ InspectAlone /\ CreateFirst

\* Before the session is there, and while it is created, no broker was started.
NothingBefore ==
  /\ (\A c \in Calls : call[c].kind # "create") => broker = <<>>
  /\ \A c \in Calls : call[c].pc \in Opening => broker = <<>>
  /\ \A c \in Calls : call[c].pc = "state" => dir.root
NoRoot == ~dir.root => dir.phase # "ready"
StartsUnregistered == \A c \in Calls : call[c].pc \in Starting => Reg = 0

\* A capture that began is the only one that may go on, and nobody will start another.
OnlyCapture ==
  \A b \in DOMAIN broker : broker[b].phase # "ready" =>
    /\ dir.phase # "ready"
    /\ \A c \in Calls : call[c].pc # "start"
    /\ \A d \in DOMAIN broker : d # b => broker[d].phase = "ready" /\ ~broker[d].up

OnceInv == NothingBefore /\ NoRoot /\ StartsUnregistered /\ OnlyCapture /\ NoStrayBroker

TurnAndOnce == IInv /\ TurnInv /\ OnceInv

-----------------------------------------------------------------------------
(* Whose turn it is.                                                         *)

(* At most one call is past the lock.                                      *)
LEMMA OneRuns ==
  ASSUME IInv, TurnInv, NEW c \in Calls, NEW d \in Calls, Runs(c), Runs(d)
  PROVE  c = d
<1>1. /\ Active(c) /\ Active(d) /\ call[c].pc # "lock" /\ call[d].pc # "lock"
      /\ call[c].pc # "done" /\ call[d].pc # "done"
  BY DEF Runs, Running, Active
<1>2. call[c].kind \in CallKinds /\ call[d].kind \in CallKinds
  BY <1>1 DEF TurnInv, ActiveHasKind
<1>3. CASE call[c].kind = "inspect" \/ call[d].kind = "inspect"
  BY <1>1, <1>3 DEF TurnInv, InspectAlone
<1>4. CASE call[c].kind = "create" \/ call[d].kind = "create"
  <2>1. ~Known
    BY <1>1, <1>4 DEF TurnInv, OneCreate, Known
  <2>2. call[c].kind = "create" /\ call[d].kind = "create"
    BY <1>1, <2>1 DEF TurnInv, CreateFirst
  <2> QED BY <2>2 DEF TurnInv, OneCreate
<1>5. CASE call[c].kind \in Locked /\ call[d].kind \in Locked
  <2>1. c \in LockedCalls /\ d \in LockedCalls
    BY <1>1, <1>5 DEF LockedCalls
  <2> QED BY <1>1, <2>1 DEF IInv, QueueInv, HeadRuns
<1> QED BY <1>2, <1>3, <1>4, <1>5 DEF CallKinds, Locked

(* A step that begins no call and takes back no answer keeps the turns.    *)
LEMMA NobodyBegins ==
  ASSUME TurnInv, Known => Known',
         \A c \in Calls : /\ call'[c].kind = call[c].kind
                          /\ Active(c)' => Active(c)
  PROVE  TurnInv'
<1>1. ActiveHasKind' /\ OneCreate' /\ InspectAlone'
  BY DEF TurnInv, ActiveHasKind, OneCreate, InspectAlone
<1>2. CreateFirst'
  BY DEF TurnInv, CreateFirst
<1> QED BY <1>1, <1>2 DEF TurnInv

(* A call begins in its turn.                                              *)
LEMMA BeginTurn ==
  ASSUME IInv, TurnInv, Orderly, NEW c \in Calls, NEW kind \in CallKinds, Begin(c, kind)
  PROVE  TurnInv'
<1>1. /\ call \in [Calls -> Call] /\ call[c].pc = "idle"
      /\ IF kind = "create" THEN \A d \in Calls : call[d].kind # "create" ELSE Known
      /\ \A d \in Calls : Active(d) => "inspect" \notin {kind, call[d].kind}
  BY DEF IInv, TypeOK, Begin, At, InTurn
<1>2. /\ call'[c].kind = kind
      /\ \A d \in Calls : d # c => call'[d] = call[d]
  BY <1>1 DEF Begin, Call
<1>3. \A d \in Calls : d # c => (Active(d)' <=> Active(d))
  BY <1>2 DEF Active
<1>4. ActiveHasKind'
  BY <1>2, <1>3 DEF TurnInv, ActiveHasKind
<1>5. OneCreate'
  BY <1>1, <1>2 DEF TurnInv, OneCreate, Known
<1>6. InspectAlone'
  BY <1>1, <1>2, <1>3 DEF TurnInv, InspectAlone
<1>7. CreateFirst'
  <2>1. Known => Known'
    BY <1>1, <1>2 DEF Known
  <2> QED BY <1>1, <1>2, <1>3, <2>1 DEF TurnInv, CreateFirst
<1> QED BY <1>4, <1>5, <1>6, <1>7 DEF TurnInv

-----------------------------------------------------------------------------
(* Steps of a call that start and close no broker.                           *)

Quiet(c) ==
  /\ Runs(c) \/ call[c].pc = "lock"
  /\ \A d \in Calls : d # c => call'[d] = call[d]
  /\ call'[c].kind = call[c].kind
  /\ {call[c].pc, call'[c].pc} \cap (Opening \cup Starting) = {}
  /\ broker' = broker /\ Reg' = Reg
  /\ \/ dir'.phase = dir.phase /\ dir'.root = dir.root
     \/ Runs(c) /\ dir'.phase # "ready"

(* They keep what OnceInv says of the brokers and of the file.             *)
LEMMA QuietKeeps == ASSUME TurnAndOnce, NEW c \in Calls, Quiet(c) PROVE OnceInv'
<1>1. IInv /\ TurnInv /\ OnceInv
  BY DEF TurnAndOnce
<1>2. \A d \in Calls : call'[d].pc \in Opening \cup Starting => d # c /\ call'[d] = call[d]
  BY DEF Quiet
<1>3. NothingBefore'
  <2>1. (\A d \in Calls : call'[d].kind # "create") => broker' = <<>>
    BY <1>1 DEF Quiet, OnceInv, NothingBefore
  <2>2. \A d \in Calls : call'[d].pc \in Opening => broker' = <<>>
    BY <1>1, <1>2 DEF Quiet, OnceInv, NothingBefore
  <2>3. ASSUME NEW d \in Calls, call'[d].pc = "state" PROVE dir'.root
    <3>1. d # c /\ call[d].pc = "state" /\ Runs(d)
      BY <1>2, <2>3 DEF Opening, Runs, Running, Pcs
    <3>2. ~Runs(c)
      BY <1>1, <3>1, OneRuns
    <3> QED BY <1>1, <3>1, <3>2 DEF Quiet, OnceInv, NothingBefore
  <2> QED BY <2>1, <2>2, <2>3 DEF NothingBefore
<1>4. NoRoot'
  BY <1>1 DEF Quiet, OnceInv, NoRoot
<1>5. StartsUnregistered'
  BY <1>1, <1>2 DEF Quiet, OnceInv, StartsUnregistered
<1>6. OnlyCapture'
  BY <1>1, <1>2 DEF Quiet, OnceInv, OnlyCapture, Starting
<1>7. NoStrayBroker'
  <2>1. \A d \in Calls : call[d].pc = "wrap" => call'[d] = call[d]
    BY DEF Quiet, Starting
  <2> QED BY <1>1, <2>1 DEF Quiet, OnceInv, NoStrayBroker
<1> QED BY <1>3, <1>4, <1>5, <1>6, <1>7 DEF OnceInv

(* A call only reads, or ends, or goes where no broker is started.         *)
LEMMA ReadsQuietly ==
  ASSUME IInv, NEW c \in Calls, call[c].pc \notin Opening \cup Starting,
         Runs(c) \/ call[c].pc = "lock", UNCHANGED <<broker, home>>,
         \/ dir'.phase = dir.phase /\ dir'.root = dir.root
         \/ Runs(c) /\ dir'.phase # "ready",
         \/ \E pc : pc \notin Opening \cup Starting /\ Goto(c, pc) /\ server' = server
         \/ \E how \in {"done", "failed"} : End(c, how)
  PROVE  Quiet(c)
<1>1. CASE \E pc : pc \notin Opening \cup Starting /\ Goto(c, pc) /\ server' = server
  <2>1. PICK pc : pc \notin Opening \cup Starting /\ Goto(c, pc) /\ server' = server
    BY <1>1
  <2>2. /\ call'[c].pc = pc /\ call'[c].kind = call[c].kind
        /\ \A d \in Calls : d # c => call'[d] = call[d]
    BY <2>1, GotoMoves
  <2>3. Reg' = Reg
    BY <2>1 DEF Reg, Me
  <2> QED BY <2>1, <2>2, <2>3 DEF Quiet
<1>2. ASSUME NEW how \in {"done", "failed"}, End(c, how) PROVE Quiet(c)
  <2>1. how \notin Opening \cup Starting
    BY DEF Opening, Starting
  <2> QED BY <1>2, <2>1, EndMoves DEF Quiet
<1> QED BY <1>1, <1>2

(* The steps of a call that start and close no broker.                     *)
LEMMA QuietSteps ==
  ASSUME IInv, NEW c \in Calls,
         \/ Enter(c) \/ (Load(c) /\ call'[c].pc # "start") \/ UndoCreate(c)
         \/ MarkInterrupted(c) \/ LookForSummary(c) \/ WriteInterruptedSummary(c)
         \/ Inspect(c) \/ StampEvent(c) \/ CheckEvent(c) \/ SaveEvents(c)
         \/ CheckEvidence(c) \/ WriteSealed(c) \/ RemoveHelpers(c) \/ RemoveSession(c)
         \/ RenderEvidence(c) \/ RenderFault(c) \/ Publish(c)
         \/ \E file \in {"video", "manifest", "report"} : Rename(c, file)
  PROVE  Quiet(c)
<1>1. dir \in Dir /\ NoDir.phase = "none"
  BY DEF IInv, TypeOK, NoDir
<1>2. CASE Enter(c)
  <2>1. call[c].pc = "lock" /\ "load" \notin Opening \cup Starting
    BY <1>2 DEF Enter, At, Opening, Starting
  <2> QED BY <1>2, <2>1, ReadsQuietly DEF Enter, Opening, Starting
<1>3. CASE Load(c) /\ call'[c].pc # "start"
  <2>1. call[c].pc = "load" /\ {"close", "ensured", "mark"} \cap (Opening \cup Starting) = {}
    BY <1>3 DEF Load, At, Opening, Starting
  <2>2. \/ \E pc \in {"close", "ensured", "mark"} : Goto(c, pc) /\ server' = server
        \/ End(c, "failed") \/ End(c, "done")
    <3>1. Goto(c, "start") => call'[c].pc = "start"
      BY GotoMoves
    <3> QED BY <1>3, <3>1 DEF Load
  <2>3. Runs(c) /\ call[c].pc \notin Opening \cup Starting
    BY <2>1 DEF Runs, Running, Pcs, Opening, Starting
  <2>4. UNCHANGED <<dir, broker, home>>
    BY <1>3 DEF Load
  <2> QED BY <2>1, <2>2, <2>3, <2>4, ReadsQuietly
<1>4. CASE UndoCreate(c)
  <2>1. Runs(c) /\ call[c].pc \notin Opening \cup Starting
    BY <1>4 DEF UndoCreate, At, Runs, Running, Pcs, Opening, Starting
  <2> QED BY <1>1, <1>4, <2>1, ReadsQuietly DEF UndoCreate
<1>5. CASE MarkInterrupted(c)
  <2>1. Runs(c) /\ call[c].pc \notin Opening \cup Starting /\ "look" \notin Opening \cup Starting
    BY <1>5 DEF MarkInterrupted, At, Runs, Running, Pcs, Opening, Starting
  <2>2. dir' = dir \/ dir'.phase # "ready"
    BY <1>1, <1>5 DEF MarkInterrupted, Dir
  <2> QED BY <1>5, <2>1, <2>2, ReadsQuietly DEF MarkInterrupted
<1>6. CASE LookForSummary(c)
  <2>1. Runs(c) /\ call[c].pc \notin Opening \cup Starting /\ "explain" \notin Opening \cup Starting
    BY <1>6 DEF LookForSummary, At, Runs, Running, Pcs, Opening, Starting
  <2> QED BY <1>6, <2>1, ReadsQuietly DEF LookForSummary
<1>7. CASE WriteInterruptedSummary(c)
  <2>1. Runs(c) /\ call[c].pc \notin Opening \cup Starting
    BY <1>7 DEF WriteInterruptedSummary, At, Runs, Running, Pcs, Opening, Starting
  <2>2. dir'.phase = dir.phase /\ dir'.root = dir.root
    BY <1>1, <1>7 DEF WriteInterruptedSummary, Dir
  <2> QED BY <1>7, <2>1, <2>2, ReadsQuietly DEF WriteInterruptedSummary
<1>8. CASE Inspect(c)
  <2>1. Runs(c) /\ call[c].pc \notin Opening \cup Starting
    BY <1>8 DEF Inspect, At, Runs, Running, Pcs, Opening, Starting
  <2> QED BY <1>8, <2>1, ReadsQuietly DEF Inspect
<1>9. CASE StampEvent(c) \/ CheckEvent(c)
  <2>1. /\ Runs(c) /\ call[c].pc \notin Opening \cup Starting
        /\ {"append", "save"} \cap (Opening \cup Starting) = {}
        /\ UNCHANGED <<token, dir, broker, home, crashes>>
    BY <1>9 DEF StampEvent, CheckEvent, At, Runs, Running, Pcs, Opening, Starting
  <2>2. CASE End(c, "failed")
    BY <2>1, <2>2, ReadsQuietly
  <2>3. CASE ~End(c, "failed")
    <3>1. PICK pc, lines :
            /\ pc \in {"append", "save"} /\ server' = server
            /\ call' = [call EXCEPT ![c].pc = pc, ![c].lines = lines]
      BY <1>9, <2>3 DEF StampEvent, CheckEvent
    <3>2. /\ call'[c].pc = pc /\ call'[c].kind = call[c].kind
          /\ \A d \in Calls : d # c => call'[d] = call[d]
      BY <3>1 DEF IInv, TypeOK, Call
    <3>3. Reg' = Reg
      BY <2>1, <3>1 DEF Reg, Me
    <3>4. call'[c].pc \notin Opening \cup Starting
      BY <2>1, <3>1, <3>2
    <3> QED BY <2>1, <3>2, <3>3, <3>4 DEF Quiet
  <2> QED BY <2>2, <2>3
<1>10. CASE SaveEvents(c)
  <2>1. Runs(c) /\ call[c].pc \notin Opening \cup Starting
    BY <1>10 DEF SaveEvents, At, Runs, Running, Pcs, Opening, Starting
  <2>2. dir'.phase = dir.phase /\ dir'.root = dir.root
    BY <1>1, <1>10 DEF SaveEvents, Dir
  <2> QED BY <1>10, <2>1, <2>2, ReadsQuietly DEF SaveEvents
<1>11. CASE CheckEvidence(c)
  <2>1. Runs(c) /\ call[c].pc \notin Opening \cup Starting /\ "seal" \notin Opening \cup Starting
    BY <1>11 DEF CheckEvidence, At, Runs, Running, Pcs, Opening, Starting
  <2> QED BY <1>11, <2>1, ReadsQuietly DEF CheckEvidence
<1>12. CASE WriteSealed(c)
  <2>1. Runs(c) /\ call[c].pc \notin Opening \cup Starting /\ "close" \notin Opening \cup Starting
    BY <1>12 DEF WriteSealed, At, Runs, Running, Pcs, Opening, Starting
  <2>2. dir'.phase = dir.phase /\ dir'.root = dir.root
    BY <1>1, <1>12 DEF WriteSealed, Dir
  <2> QED BY <1>12, <2>1, <2>2, ReadsQuietly DEF WriteSealed
<1>13. CASE RemoveHelpers(c)
  <2>1. Runs(c) /\ call[c].pc \notin Opening \cup Starting /\ "remove" \notin Opening \cup Starting
    BY <1>13 DEF RemoveHelpers, At, Runs, Running, Pcs, Opening, Starting
  <2>2. dir'.phase = dir.phase /\ dir'.root = dir.root
    BY <1>1, <1>13 DEF RemoveHelpers, Dir
  <2> QED BY <1>13, <2>1, <2>2, ReadsQuietly DEF RemoveHelpers
<1>14. CASE RemoveSession(c)
  <2>1. Runs(c) /\ call[c].pc \notin Opening \cup Starting
    BY <1>14 DEF RemoveSession, At, Runs, Running, Pcs, Opening, Starting
  <2>2. dir'.phase # "ready"
    BY <1>14 DEF RemoveSession, NoDir
  <2> QED BY <1>14, <2>1, <2>2, ReadsQuietly DEF RemoveSession
<1>15. CASE RenderEvidence(c)
  <2>1. Runs(c) /\ call[c].pc \notin Opening \cup Starting /\ "publish" \notin Opening \cup Starting
    BY <1>15 DEF RenderEvidence, At, Runs, Running, Pcs, Opening, Starting
  <2> QED BY <1>15, <2>1, ReadsQuietly DEF RenderEvidence
<1>16. CASE RenderFault(c)
  <2>1. Runs(c) /\ call[c].pc \notin Opening \cup Starting
    BY <1>16 DEF RenderFault, At, Runs, Running, Pcs, Opening, Starting
  <2> QED BY <1>16, <2>1, ReadsQuietly DEF RenderFault
<1>17. CASE Publish(c)
  <2>1. Runs(c) /\ call[c].pc \notin Opening \cup Starting /\ "video" \notin Opening \cup Starting
    BY <1>17 DEF Publish, At, Runs, Running, Pcs, Opening, Starting
  <2>2. dir'.phase = dir.phase /\ dir'.root = dir.root
    BY <1>1, <1>17 DEF Publish, Dir
  <2> QED BY <1>17, <2>1, <2>2, ReadsQuietly DEF Publish
<1>18. ASSUME NEW file \in {"video", "manifest", "report"}, Rename(c, file) PROVE Quiet(c)
  <2>1. /\ Runs(c) /\ call[c].pc \notin Opening \cup Starting
        /\ {"manifest", "report"} \cap (Opening \cup Starting) = {}
    BY <1>18 DEF Rename, At, Runs, Running, Pcs, Opening, Starting
  <2>2. dir'.phase = dir.phase /\ dir'.root = dir.root
    BY <1>1, <1>18 DEF Rename, Dir
  <2> QED BY <1>18, <2>1, <2>2, ReadsQuietly DEF Rename
<1> QED BY <1>2, <1>3, <1>4, <1>5, <1>6, <1>7, <1>8, <1>9, <1>10, <1>11, <1>12, <1>13,
           <1>14, <1>15, <1>16, <1>17, <1>18

-----------------------------------------------------------------------------
(* Steps of a call that start or close a broker.                             *)

(* While a call runs, nobody else is where a broker is started.            *)
LEMMA AloneThere ==
  ASSUME TurnAndOnce, NEW c \in Calls, Runs(c), NEW d \in Calls, d # c
  PROVE  call[d].pc \notin Opening \cup Starting
<1>1. Opening \cup Starting \subseteq Running
  BY DEF Opening, Starting, Running, Pcs
<1> QED BY <1>1, OneRuns DEF TurnAndOnce, Runs

(* The broker that listens while a call runs: the registered one, or the   *)
(* one this call is starting.                                              *)
LEMMA WhoListens ==
  ASSUME TurnAndOnce, NEW c \in Calls, Runs(c), NEW b \in DOMAIN broker, broker[b].up
  PROVE  Reg = b \/ (call[c].pc = "wrap" /\ call[c].broker = b)
<1>1. \A d \in Calls : d # c => call[d].pc # "wrap"
  BY AloneThere DEF Starting
<1> QED BY <1>1 DEF TurnAndOnce, OnceInv, NoStrayBroker

(* The session's directory is made before any broker.                      *)
LEMMA CreateOnce == ASSUME TurnAndOnce, NEW c \in Calls, Create(c) PROVE OnceInv'
<1>1. /\ call[c].pc = "create" /\ Runs(c) /\ broker = <<>> /\ broker' = broker /\ Reg' = Reg
      /\ call'[c].pc = "state" /\ call'[c].kind = call[c].kind
      /\ \A d \in Calls : d # c => call'[d] = call[d]
      /\ dir'.root /\ dir'.phase = "none"
  <2>1. call[c].pc = "create" /\ Runs(c)
    BY DEF Create, At, Runs, Running, Pcs
  <2>2. broker = <<>>
    BY <2>1 DEF TurnAndOnce, OnceInv, NothingBefore, Opening
  <2>3. dir'.root /\ dir'.phase = "none" /\ broker' = broker /\ Reg' = Reg
    BY DEF Create, NoDir, Reg, Me
  <2> QED BY <2>1, <2>2, <2>3, GotoMoves DEF TurnAndOnce, Create
<1>2. DOMAIN broker' = {}
  BY <1>1
<1>3. \A d \in Calls : call'[d].pc \notin Starting
  BY <1>1, AloneThere DEF Starting
<1> QED BY <1>1, <1>2, <1>3
    DEF OnceInv, NothingBefore, NoRoot, StartsUnregistered, OnlyCapture, NoStrayBroker

(* The file says "ready" before any broker is started.                     *)
LEMMA ReadyOnce ==
  ASSUME TurnAndOnce, NEW c \in Calls, WriteReady(c), dir \in Dir PROVE OnceInv'
<1>1. /\ call[c].pc = "state" /\ Runs(c) /\ broker = <<>> /\ dir.root
  BY DEF WriteReady, At, Runs, Running, Pcs, TurnAndOnce, OnceInv, NothingBefore, Opening
<1>2. /\ broker' = broker /\ Reg' = Reg
      /\ call'[c].pc = "start" /\ call'[c].kind = call[c].kind
      /\ \A d \in Calls : d # c => call'[d] = call[d]
  BY GotoMoves DEF TurnAndOnce, WriteReady, Reg, Me
<1>3. dir'.root
  BY <1>1 DEF WriteReady, Dir
<1>4. \A d \in Calls : call'[d].pc \notin Opening
  BY <1>1, <1>2, AloneThere DEF Opening
<1>5. DOMAIN broker' = {}
  BY <1>1, <1>2
<1>6. StartsUnregistered'
  <2>1. Reg = 0
    <3>1. Reg \in 0..MaxBrokers /\ Reg <= Len(broker)
      BY DEF TurnAndOnce, IInv, TypeOK, BrokersExist, Process, Reg, Me
    <3>2. Len(broker) = 0
      BY <1>1
    <3> QED BY <3>1, <3>2, LifecycleConstants
  <2> QED BY <1>2, <2>1 DEF StartsUnregistered
<1> QED BY <1>1, <1>2, <1>3, <1>4, <1>5, <1>6
    DEF OnceInv, NothingBefore, NoRoot, OnlyCapture, NoStrayBroker

(* A call decides to start a broker: the file says "ready", so no capture  *)
(* began.                                                                  *)
LEMMA LoadOnce ==
  ASSUME TurnAndOnce, NEW c \in Calls, Load(c), call'[c].pc = "start" PROVE OnceInv'
<1>1. /\ call[c].pc = "load" /\ Runs(c)
  BY DEF Load, At, Runs, Running, Pcs
<1>2. ~End(c, "failed") /\ ~End(c, "done")
  BY EndMoves DEF TurnAndOnce, Load
<1>3. /\ Goto(c, "start") /\ server' = server /\ Reg = 0 /\ dir.phase = "ready" /\ Owned
      /\ UNCHANGED <<token, dir, broker, home, crashes>>
  <2>1. PICK pc \in {"close", "ensured", "start", "mark"} :
          /\ Goto(c, pc) /\ server' = server
          /\ pc = "start" => Reg = 0 /\ dir.phase = "ready" /\ Owned
    BY <1>2 DEF Load, Replaceable
  <2>2. pc = "start"
    BY <2>1, GotoMoves DEF TurnAndOnce
  <2> QED BY <2>1, <2>2 DEF Load
<1>4. /\ call'[c].kind = call[c].kind /\ Reg' = Reg
      /\ \A d \in Calls : d # c => call'[d] = call[d]
  BY <1>3, GotoMoves DEF TurnAndOnce, Reg, Me
<1>5. \A b \in DOMAIN broker : broker[b].phase = "ready" /\ ~broker[b].up
  <2>1. 0 \notin DOMAIN broker
    BY LenProperties DEF TurnAndOnce, IInv, TypeOK
  <2> QED BY <1>1, <1>3, <2>1, WhoListens DEF TurnAndOnce, OnceInv, OnlyCapture
<1>6. \A d \in Calls : call'[d].pc \notin Opening
  BY <1>1, <1>4, AloneThere DEF Opening
<1>7. (\A d \in Calls : call'[d].kind # "create") => broker' = <<>>
  BY <1>3, <1>4 DEF TurnAndOnce, OnceInv, NothingBefore
<1>8. \A d \in Calls : call'[d].pc # "state"
  BY <1>6 DEF Opening
<1>9. NothingBefore'
  BY <1>6, <1>7, <1>8 DEF NothingBefore
<1>10. NoRoot' /\ StartsUnregistered'
  BY <1>3, <1>4 DEF Owned, NoRoot, StartsUnregistered
<1>11. OnlyCapture' /\ NoStrayBroker'
  BY <1>3, <1>5 DEF OnlyCapture, NoStrayBroker
<1> QED BY <1>9, <1>10, <1>11 DEF OnceInv

(* A broker starts where no capture began and none listens.                *)
LEMMA StartOnce == ASSUME TurnAndOnce, NEW c \in Calls, StartBroker(c) PROVE OnceInv'
<1> DEFINE n == Len(broker)
<1>1. /\ call[c].pc = "start" /\ Runs(c) /\ Reg = 0
      /\ broker \in Seq(Broker) /\ n \in Nat /\ DOMAIN broker = 1..n /\ dir \in Dir
  BY LenProperties DEF StartBroker, At, Runs, Running, Pcs, TurnAndOnce, IInv, TypeOK, OnceInv,
     StartsUnregistered, Starting
<1>2. \A b \in 1..n : broker[b].phase = "ready" /\ ~broker[b].up
  BY <1>1, WhoListens DEF TurnAndOnce, OnceInv, OnlyCapture
<1>3. /\ DOMAIN broker' = 1..(n + 1)
      /\ \A b \in 1..n : broker'[b] = broker[b]
      /\ broker'[n + 1].phase = "ready"
  <2> DEFINE new == [up |-> TRUE, phase |-> "ready", frames |-> 0, owes |-> FALSE]
  <2>1. new \in Broker
    BY LifecycleConstants DEF Broker, BrokerPhases
  <2>2. broker' = Append(broker, new)
    BY DEF StartBroker
  <2>3. new.phase = "ready"
    OBVIOUS
  <2> HIDE DEF new
  <2> QED BY <1>1, <2>1, <2>2, <2>3, AppendProperties, LenProperties
<1>4. \A b \in 1..(n + 1) : b \in 1..n \/ b = n + 1
  BY <1>1
<1>5. /\ call'[c].pc = "wrap" /\ call'[c].broker = n + 1 /\ call'[c].kind = call[c].kind
      /\ \A d \in Calls : d # c => call'[d] = call[d]
      /\ Reg' = Reg
  BY DEF TurnAndOnce, IInv, TypeOK, Call, StartBroker, Reg, Me
<1>6. dir'.root
  BY <1>1 DEF StartBroker, Dir
<1>7. \A b \in DOMAIN broker' : broker'[b].phase = "ready"
  BY <1>2, <1>3, <1>4
<1>8. OnlyCapture' /\ NoRoot' /\ StartsUnregistered'
  BY <1>1, <1>5, <1>6, <1>7 DEF OnlyCapture, NoRoot, StartsUnregistered
<1>9. NoStrayBroker'
  BY <1>2, <1>3, <1>4, <1>5 DEF NoStrayBroker
<1>10. NothingBefore'
  <2>1. \A d \in Calls : call'[d].pc \notin Opening
    BY <1>1, <1>5, AloneThere DEF Opening
  <2>2. \E d \in Calls : call[d].kind = "create"
    <3>1. Active(c) /\ call[c].kind \in CallKinds
      BY <1>1 DEF Active, TurnAndOnce, TurnInv, ActiveHasKind
    <3> QED BY <3>1 DEF TurnAndOnce, TurnInv, CreateFirst, Known
  <2>3. \E d \in Calls : call'[d].kind = "create"
    BY <1>5, <2>2
  <2> QED BY <2>1, <2>3 DEF NothingBefore, Opening
<1> QED BY <1>8, <1>9, <1>10 DEF OnceInv

(* A broker that could not be started does not listen any more.            *)
LEMMA FaultOnce == ASSUME TurnAndOnce, NEW c \in Calls, BrokerFault(c) PROVE OnceInv'
<1>1. /\ call[c].pc \in Starting /\ Runs(c) /\ dir' = dir /\ home' = home
  BY DEF BrokerFault, At, Runs, Running, Pcs, Starting
<1>2. /\ call'[c].pc \in {"undo", "failed"} /\ call'[c].kind = call[c].kind /\ Reg' = Reg
      /\ \A d \in Calls : d # c => call'[d] = call[d]
  <2>1. CASE call[c].kind = "create"
    BY <1>1, <2>1, GotoMoves DEF TurnAndOnce, BrokerFault, Reg, Me
  <2>2. CASE call[c].kind # "create"
    BY <1>1, <2>2, EndMoves DEF TurnAndOnce, BrokerFault
  <2> QED BY <2>1, <2>2
<1>3. \A d \in Calls : call'[d].pc \notin Opening \cup Starting
  BY <1>1, <1>2, AloneThere DEF Opening, Starting
<1>4. broker \in Seq(Broker) /\ DOMAIN broker = 1..Len(broker) /\ Len(broker) \in Nat
  BY LenProperties DEF TurnAndOnce, IInv, TypeOK
<1>5. /\ DOMAIN broker' = DOMAIN broker
      /\ \A b \in DOMAIN broker : /\ broker'[b].phase = broker[b].phase
                                  /\ broker'[b].up => broker[b].up
                                  /\ b = call[c].broker => ~broker'[b].up
  <2>1. \A b \in DOMAIN broker : broker[b] \in Broker
    BY <1>4
  <2>2. 0 \notin DOMAIN broker
    BY <1>4
  <2> QED BY <2>1, <2>2 DEF BrokerFault, Broker
<1>6. NothingBefore'
  <2>1. broker = <<>> => broker' = <<>>
    BY <1>4 DEF BrokerFault
  <2> QED BY <1>2, <1>3, <2>1 DEF TurnAndOnce, OnceInv, NothingBefore, Opening
<1>7. NoRoot' /\ StartsUnregistered'
  BY <1>1, <1>3 DEF TurnAndOnce, OnceInv, NoRoot, StartsUnregistered
<1>8. OnlyCapture'
  <2> SUFFICES ASSUME NEW b \in DOMAIN broker, broker'[b].phase # "ready"
               PROVE  /\ dir'.phase # "ready"
                      /\ \A d \in DOMAIN broker :
                           d # b => broker'[d].phase = "ready" /\ ~broker'[d].up
    BY <1>3, <1>5 DEF OnlyCapture, Starting
  <2>1. broker[b].phase # "ready"
    BY <1>5
  <2> QED BY <1>1, <1>5, <2>1 DEF TurnAndOnce, OnceInv, OnlyCapture
<1>9. NoStrayBroker'
  <2> SUFFICES ASSUME NEW b \in DOMAIN broker, broker'[b].up PROVE Reg' = b
    BY <1>5 DEF NoStrayBroker
  <2>1. broker[b].up /\ b # call[c].broker
    BY <1>5
  <2> QED BY <1>1, <1>2, <2>1, WhoListens
<1> QED BY <1>6, <1>7, <1>8, <1>9 DEF OnceInv

(* The registry names the broker its call has started.                     *)
LEMMA WrapOnce == ASSUME TurnAndOnce, NEW c \in Calls, WriteWrappers(c) PROVE OnceInv'
<1>1. /\ call[c].pc = "wrap" /\ Runs(c) /\ Reg = 0
      /\ UNCHANGED <<token, broker, home, crashes>>
      /\ dir'.phase = dir.phase /\ dir'.root = dir.root
  BY DEF WriteWrappers, At, Runs, Running, Pcs, TurnAndOnce, OnceInv, StartsUnregistered,
     Starting, IInv, TypeOK, Dir
<1>2. /\ call'[c].pc \in {"done", "ensured"} /\ call'[c].kind = call[c].kind
      /\ \A d \in Calls : d # c => call'[d] = call[d]
  <2>1. CASE call[c].kind = "create"
    BY <2>1 DEF TurnAndOnce, IInv, TypeOK, WriteWrappers, NoCall
  <2>2. CASE call[c].kind # "create"
    BY <2>2, GotoMoves DEF TurnAndOnce, WriteWrappers
  <2> QED BY <2>1, <2>2
<1>3. Reg' = call[c].broker
  BY <1>1 DEF TurnAndOnce, IInv, TypeOK, Process, WriteWrappers, Reg, Me
<1>4. \A d \in Calls : call'[d].pc \notin Opening \cup Starting
  BY <1>1, <1>2, AloneThere DEF Opening, Starting
<1>5. 0 \notin DOMAIN broker
  BY LenProperties DEF TurnAndOnce, IInv, TypeOK
<1>6. NothingBefore'
  BY <1>1, <1>2, <1>4 DEF TurnAndOnce, OnceInv, NothingBefore, Opening
<1>7. NoRoot' /\ StartsUnregistered' /\ OnlyCapture'
  BY <1>1, <1>4 DEF TurnAndOnce, OnceInv, NoRoot, StartsUnregistered, OnlyCapture, Starting
<1>8. NoStrayBroker'
  BY <1>1, <1>3, <1>5, WhoListens DEF NoStrayBroker
<1> QED BY <1>6, <1>7, <1>8 DEF OnceInv

(* The registry forgets the broker that is closed.                         *)
LEMMA CloseOnce == ASSUME TurnAndOnce, NEW c \in Calls, CloseBroker(c) PROVE OnceInv'
<1>1. call[c].pc = "close" /\ Runs(c) /\ home' = home /\ dir \in Dir
  BY DEF CloseBroker, At, Runs, Running, Pcs, TurnAndOnce, IInv, TypeOK
<1>2. /\ call'[c].pc \in {"discard", "render"} /\ call'[c].kind = call[c].kind
      /\ \A d \in Calls : d # c => call'[d] = call[d]
  BY GotoMoves DEF TurnAndOnce, CloseBroker
<1>3. \A d \in Calls : call'[d].pc \notin Opening \cup Starting
  BY <1>1, <1>2, AloneThere DEF Opening, Starting
<1>4. broker \in Seq(Broker) /\ DOMAIN broker = 1..Len(broker) /\ Len(broker) \in Nat
  BY LenProperties DEF TurnAndOnce, IInv, TypeOK
<1>5. /\ DOMAIN broker' = DOMAIN broker
      /\ \A b \in DOMAIN broker : /\ broker'[b].phase = "ready" <=> broker[b].phase = "ready"
                                  /\ broker'[b].up => broker[b].up /\ b # Reg
  <2>1. \A b \in DOMAIN broker : broker[b] \in Broker
    BY <1>4
  <2>2. 0 \notin DOMAIN broker
    BY <1>4
  <2> QED BY <2>1, <2>2 DEF CloseBroker, Broker
<1>6. dir'.root = dir.root /\ (dir'.phase = "ready" => dir.phase = "ready")
  BY <1>1 DEF CloseBroker, Dir
<1>7. NothingBefore'
  <2>1. broker = <<>> => broker' = <<>>
    BY <1>4 DEF CloseBroker
  <2> QED BY <1>2, <1>3, <2>1 DEF TurnAndOnce, OnceInv, NothingBefore, Opening
<1>8. NoRoot' /\ StartsUnregistered'
  BY <1>3, <1>6 DEF TurnAndOnce, OnceInv, NoRoot, StartsUnregistered
<1>9. OnlyCapture'
  <2> SUFFICES ASSUME NEW b \in DOMAIN broker, broker'[b].phase # "ready"
               PROVE  /\ dir'.phase # "ready"
                      /\ \A d \in DOMAIN broker :
                           d # b => broker'[d].phase = "ready" /\ ~broker'[d].up
    BY <1>3, <1>5 DEF OnlyCapture, Starting
  <2>1. broker[b].phase # "ready"
    BY <1>5
  <2> QED BY <1>5, <1>6, <2>1 DEF TurnAndOnce, OnceInv, OnlyCapture
<1>10. NoStrayBroker'
  <2> SUFFICES ASSUME NEW b \in DOMAIN broker, broker'[b].up PROVE FALSE
    BY <1>5 DEF NoStrayBroker
  <2>1. broker[b].up /\ b # Reg
    BY <1>5
  <2> QED BY <1>1, <2>1, WhoListens
<1> QED BY <1>7, <1>8, <1>9, <1>10 DEF OnceInv

(* Every step of a call.                                                   *)
LEMMA CallOnce == ASSUME TurnAndOnce, NEW c \in Calls, CallStep(c) PROVE OnceInv'
<1>1. IInv /\ dir \in Dir
  BY DEF TurnAndOnce, IInv, TypeOK
<1>2. CASE \/ Enter(c) \/ (Load(c) /\ call'[c].pc # "start") \/ UndoCreate(c)
           \/ MarkInterrupted(c) \/ LookForSummary(c) \/ WriteInterruptedSummary(c)
           \/ Inspect(c) \/ StampEvent(c) \/ CheckEvent(c) \/ SaveEvents(c)
           \/ CheckEvidence(c) \/ WriteSealed(c) \/ RemoveHelpers(c) \/ RemoveSession(c)
           \/ RenderEvidence(c) \/ RenderFault(c) \/ Publish(c)
           \/ \E file \in {"video", "manifest", "report"} : Rename(c, file)
  <2>1. Quiet(c)
    BY <1>1, <1>2, QuietSteps
  <2> QED BY <2>1, QuietKeeps
<1>3. CASE \/ Create(c) \/ WriteReady(c) \/ (Load(c) /\ call'[c].pc = "start") \/ StartBroker(c)
           \/ BrokerFault(c) \/ WriteWrappers(c) \/ CloseBroker(c)
  BY <1>1, <1>3, CreateOnce, ReadyOnce, LoadOnce, StartOnce, FaultOnce, WrapOnce, CloseOnce
<1> QED BY <1>2, <1>3 DEF CallStep

(* A call's own step keeps the turns: it changes no other call, and done   *)
(* is where a call stays.                                                  *)
LEMMA CallTurn == ASSUME TurnAndOnce, NEW c \in Calls, CallStep(c) PROVE TurnInv'
<1>1. /\ Active(c) /\ call'[c].kind = call[c].kind
      /\ \A d \in Calls : d # c => call'[d] = call[d]
  BY CallMoves DEF TurnAndOnce
<1>2. \A d \in Calls : call'[d].kind = call[d].kind /\ (Active(d)' => Active(d))
  BY <1>1 DEF Active
<1>3. Known => Known'
  BY <1>1 DEF Known, Active
<1> QED BY <1>2, <1>3, NobodyBegins DEF TurnAndOnce

-----------------------------------------------------------------------------
(* Calls that begin, the capture itself, boots and crashes.                  *)

(* A call that begins starts no broker yet.                                *)
LEMMA BeginOnce ==
  ASSUME TurnAndOnce, NEW c \in Calls, NEW kind \in CallKinds, Begin(c, kind) PROVE OnceInv'
<1>1. /\ call \in [Calls -> Call] /\ call[c].pc = "idle"
      /\ kind = "create" => \A d \in Calls : call[d].kind # "create"
      /\ kind # "create" => Known
      /\ UNCHANGED <<token, dir, broker, home, crashes>>
  BY DEF TurnAndOnce, IInv, TypeOK, Begin, At
<1>2. /\ call'[c].kind = kind /\ call'[c].pc \in {"create", "lock", "load"}
      /\ call'[c].pc = "create" => kind = "create"
      /\ \A d \in Calls : d # c => call'[d] = call[d]
  BY <1>1 DEF Begin, Call
<1>3. Reg' = Reg
  BY <1>1 DEF TurnAndOnce, IInv, TypeOK, Process, Begin, Reg, Me
<1>4. NothingBefore'
  <2>1. call'[c].pc \in Opening => broker' = <<>>
    BY <1>1, <1>2 DEF TurnAndOnce, OnceInv, NothingBefore, Opening
  <2>2. \A d \in Calls : call'[d].pc \in Opening => broker' = <<>>
    BY <1>1, <1>2, <2>1 DEF TurnAndOnce, OnceInv, NothingBefore
  <2>3. \A d \in Calls : call'[d].pc = "state" => dir'.root
    BY <1>1, <1>2 DEF TurnAndOnce, OnceInv, NothingBefore
  <2>4. (\A d \in Calls : call'[d].kind # "create") => broker' = <<>>
    BY <1>1, <1>2 DEF Known
  <2> QED BY <2>2, <2>3, <2>4 DEF NothingBefore
<1>5. NoRoot' /\ StartsUnregistered' /\ OnlyCapture'
  BY <1>1, <1>2, <1>3 DEF TurnAndOnce, OnceInv, NoRoot, StartsUnregistered, OnlyCapture, Starting
<1>6. NoStrayBroker'
  <2>1. \A d \in Calls : call[d].pc = "wrap" => call'[d] = call[d]
    BY <1>1, <1>2
  <2> QED BY <1>1, <1>3, <2>1 DEF TurnAndOnce, OnceInv, NoStrayBroker
<1> QED BY <1>4, <1>5, <1>6 DEF OnceInv

(* One broker listens, and while it does no call is about to start one.    *)
LEMMA OneListens ==
  ASSUME TurnAndOnce, NEW b \in DOMAIN broker, broker[b].up
  PROVE  /\ \A d \in DOMAIN broker : broker[d].up => d = b
         /\ \A c \in Calls : call[c].pc # "start"
<1>1. 0 \notin DOMAIN broker
  BY LenProperties DEF TurnAndOnce, IInv, TypeOK
<1>2. \A c \in Calls : call[c].pc \in Starting => Runs(c)
  BY DEF Starting, Runs, Running, Pcs
<1>3. CASE Reg = b
  <2>1. \A c \in Calls : call[c].pc \notin Starting
    BY <1>1, <1>3 DEF TurnAndOnce, OnceInv, StartsUnregistered
  <2> QED BY <1>3, <2>1 DEF TurnAndOnce, OnceInv, NoStrayBroker, Starting
<1>4. CASE Reg # b
  <2>1. PICK c \in Calls : call[c].pc = "wrap" /\ call[c].broker = b
    BY <1>4 DEF TurnAndOnce, OnceInv, NoStrayBroker
  <2>2. Reg = 0 /\ Runs(c)
    BY <1>2, <2>1 DEF TurnAndOnce, OnceInv, StartsUnregistered, Starting
  <2>3. \A d \in DOMAIN broker : broker[d].up => d = b
    BY <1>1, <2>1, <2>2, WhoListens
  <2>4. \A d \in Calls : call[d].pc # "start"
    BY <2>1, <2>2, AloneThere DEF Starting
  <2> QED BY <2>3, <2>4
<1> QED BY <1>3, <1>4

(* The capture goes on: what was claimed is not "ready" in the file.       *)
LEMMA CaptureOnce == ASSUME TurnAndOnce, NEW b \in BrokerIds, Capture(b) PROVE OnceInv'
<1>1. b \in DOMAIN broker /\ broker[b].up /\ UNCHANGED <<token, server, call, home, crashes>>
  BY DEF Capture, Claim, Frame, StopCapture, FailCapture, WriteSummary, Enters
<1>2. broker \in Seq(Broker) /\ dir \in Dir /\ DOMAIN broker = 1..Len(broker)
  BY LenProperties DEF TurnAndOnce, IInv, TypeOK
<1>3. broker[b] \in Broker
  BY <1>1, <1>2
<1>4. broker[b].owes => broker[b].phase # "ready"
  BY <1>1 DEF TurnAndOnce, IInv, BrokersExist, Owing
<1>5. /\ DOMAIN broker' = DOMAIN broker
      /\ \A d \in DOMAIN broker : d # b => broker'[d] = broker[d]
      /\ broker'[b].up
  BY <1>1, <1>3 DEF Capture, Claim, Frame, StopCapture, FailCapture, WriteSummary, Broker
<1>6. \A d \in DOMAIN broker : d # b => broker[d].phase = "ready" /\ ~broker[d].up
  <2>1. \A d \in DOMAIN broker : d # b => ~broker[d].up
    BY <1>1, OneListens
  <2> QED BY <1>1, <2>1 DEF TurnAndOnce, OnceInv, OnlyCapture
<1>7. dir'.root = dir.root
  BY <1>2 DEF Capture, Claim, Frame, StopCapture, FailCapture, WriteSummary, Enters, SavePhase, Dir
<1>8. dir'.phase # "ready"
  <2>1. CASE ~dir.root
    BY <2>1 DEF TurnAndOnce, OnceInv, NoRoot, Capture, Claim, Frame, StopCapture, FailCapture,
      WriteSummary, Enters, SavePhase
  <2>2. CASE dir.root /\ WriteSummary(b)
    <3>1. dir.phase # "ready"
      BY <1>1, <1>4, <2>2 DEF TurnAndOnce, OnceInv, OnlyCapture, WriteSummary
    <3> QED BY <1>2, <2>2, <3>1 DEF WriteSummary, Dir
  <2>3. CASE dir.root /\ ~WriteSummary(b)
    BY <1>2, <2>3 DEF Capture, Claim, Frame, StopCapture, FailCapture, Enters, SavePhase, Dir
  <2> QED BY <2>1, <2>2, <2>3
<1>9. NothingBefore'
  <2>1. broker # <<>>
    BY <1>1
  <2>2. \A c \in Calls : call[c].pc # "state"
    BY <2>1 DEF TurnAndOnce, OnceInv, NothingBefore, Opening
  <2> QED BY <1>1, <2>1, <2>2 DEF TurnAndOnce, OnceInv, NothingBefore
<1>10. Reg' = Reg
  BY <1>1 DEF Reg, Me
<1>11. NoRoot' /\ StartsUnregistered'
  BY <1>1, <1>8, <1>10 DEF TurnAndOnce, OnceInv, NoRoot, StartsUnregistered
<1>12. OnlyCapture'
  <2>1. \A c \in Calls : call'[c].pc # "start"
    BY <1>1, OneListens
  <2>2. \A d \in DOMAIN broker : d # b => broker'[d].phase = "ready" /\ ~broker'[d].up
    BY <1>5, <1>6
  <2>3. \A d \in DOMAIN broker : broker'[d].phase # "ready" => d = b
    BY <2>2
  <2> QED BY <1>5, <1>8, <2>1, <2>2, <2>3 DEF OnlyCapture
<1>13. NoStrayBroker'
  <2>1. \A d \in DOMAIN broker : broker'[d].up => broker[d].up
    BY <1>1, <1>5
  <2> QED BY <1>1, <1>5, <1>10, <2>1 DEF TurnAndOnce, OnceInv, NoStrayBroker
<1> QED BY <1>9, <1>11, <1>12, <1>13 DEF OnceInv

(* A boot touches neither calls nor brokers.                               *)
LEMMA BootOnce == ASSUME TurnAndOnce, NEW s \in Servers, Boot(s) PROVE OnceInv' /\ TurnInv'
<1>1. UNCHANGED <<dir, broker, call, home, crashes>>
  BY DEF Boot, BootRead, BootLink
<1>2. Reg' = Reg
  <2>1. server \in [Servers -> Process] /\ home \in Servers
    BY DEF TurnAndOnce, IInv, TypeOK
  <2>2. PICK x : server' = [server EXCEPT ![s] = x] /\ x.reg = server[s].reg
    <3>1. server[s].reg \in 0..MaxBrokers
      BY <2>1 DEF Process
    <3>2. CASE BootRead(s)
      <4>1. CASE token = None
        <5> DEFINE x == [server[s] EXCEPT !.pc = "link"]
        <5>1. server' = [server EXCEPT ![s] = x]
          BY <2>1, <3>2, <4>1 DEF BootRead
        <5>2. x.reg = server[s].reg
          BY <2>1 DEF Process
        <5> QED BY <5>1, <5>2
      <4>2. CASE token # None
        <5> DEFINE x == [server[s] EXCEPT !.pc = "up", !.token = token]
        <5>1. server' = [server EXCEPT ![s] = x]
          BY <2>1, <3>2, <4>2 DEF BootRead
        <5>2. x.reg = server[s].reg
          BY <2>1 DEF Process
        <5> QED BY <5>1, <5>2
      <4> QED BY <4>1, <4>2
    <3>3. CASE BootLink(s)
      BY <2>1, <3>3 DEF BootLink, Process
    <3> QED BY <3>2, <3>3 DEF Boot
  <2> QED BY <1>1, <2>1, <2>2 DEF Reg, Me
<1>3. OnceInv'
  BY <1>1, <1>2 DEF TurnAndOnce, OnceInv, NothingBefore, NoRoot, StartsUnregistered,
     OnlyCapture, NoStrayBroker
<1>4. TurnInv'
  BY <1>1, NobodyBegins DEF TurnAndOnce, Active, Known
<1> QED BY <1>3, <1>4

(* A crash of the home ends every call and every broker.                   *)
LEMMA CrashOnce == ASSUME TurnAndOnce, NEW s \in Servers, Crash(s) PROVE OnceInv' /\ TurnInv'
<1>1. /\ dir' = dir /\ server \in [Servers -> Process] /\ call \in [Calls -> Call]
      /\ broker \in Seq(Broker) /\ DOMAIN broker = 1..Len(broker) /\ Len(broker) \in Nat
  BY LenProperties DEF Crash, TurnAndOnce, IInv, TypeOK
<1>2. CASE s # home
  <2>1. UNCHANGED <<dir, broker, call, home>>
    BY <1>2 DEF Crash
  <2>2. Reg' = Reg
    BY <1>1, <1>2, <2>1 DEF Crash, Reg, Me
  <2>3. OnceInv'
    BY <2>1, <2>2 DEF TurnAndOnce, OnceInv, NothingBefore, NoRoot, StartsUnregistered,
       OnlyCapture, NoStrayBroker
  <2>4. TurnInv'
    BY <2>1, NobodyBegins DEF TurnAndOnce, Active, Known
  <2> QED BY <2>3, <2>4
<1>3. CASE s = home
  <2>1. /\ broker' = [b \in DOMAIN broker |-> [broker[b] EXCEPT !.up = FALSE]]
        /\ call' = [c \in Calls |-> IF call[c].pc \in {"idle", "done"} THEN call[c]
                                    ELSE [NoCall EXCEPT !.kind = call[c].kind, !.pc = "failed"]]
    BY <1>3 DEF Crash
  <2>2. \A c \in Calls : /\ call'[c].kind = call[c].kind
                         /\ call'[c].pc \in {"idle", "done", "failed"}
                         /\ call[c].pc = "done" => call'[c].pc = "done"
    BY <1>1, <2>1 DEF NoCall
  <2>3. TurnInv'
    <3>1. \A c \in Calls : ~Active(c)'
      BY <2>2 DEF Active
    <3>2. Known => Known'
      BY <2>2 DEF Known
    <3> QED BY <2>2, <3>1, <3>2, NobodyBegins DEF TurnAndOnce
  <2>4. \A b \in DOMAIN broker : broker[b] \in Broker
    BY <1>1
  <2>5. /\ DOMAIN broker' = DOMAIN broker
        /\ \A b \in DOMAIN broker : broker'[b].phase = broker[b].phase /\ ~broker'[b].up
    BY <2>1, <2>4 DEF Broker
  <2>6. \A c \in Calls : call'[c].pc \notin Opening \cup Starting
    BY <2>2 DEF Opening, Starting
  <2>7. NothingBefore'
    <3>1. broker = <<>> => broker' = <<>>
      <4>1. broker' \in Seq(Broker)
        BY CrashKeeps DEF TurnAndOnce, IInv, TypeOK
      <4>2. DOMAIN broker' = 1..Len(broker')
        BY <4>1, LenProperties
      <4>3. broker' # <<>> => Len(broker') \in Nat \ {0}
        BY <4>1, EmptySeq
      <4>4. broker = <<>> => DOMAIN broker' = {}
        BY <2>5
      <4> QED BY <4>2, <4>3, <4>4
    <3> QED BY <2>2, <2>6, <3>1 DEF TurnAndOnce, OnceInv, NothingBefore, Opening
  <2>8. NoRoot' /\ StartsUnregistered' /\ NoStrayBroker'
    BY <1>1, <2>5, <2>6 DEF TurnAndOnce, OnceInv, NoRoot, StartsUnregistered, NoStrayBroker
  <2>9. OnlyCapture'
    BY <1>1, <2>5, <2>6 DEF TurnAndOnce, OnceInv, OnlyCapture, Starting
  <2> QED BY <2>3, <2>7, <2>8, <2>9 DEF OnceInv
<1> QED BY <1>2, <1>3

-----------------------------------------------------------------------------
(* The theorems.                                                             *)

(* At first there is no call and no broker.                                *)
LEMMA TurnAndOnceInit == Init => TurnAndOnce
<1> SUFFICES ASSUME Init PROVE TurnAndOnce
  OBVIOUS
<1>1. IInv
  BY InitKeeps
<1>2. /\ \A c \in Calls : call[c].pc = "idle" /\ call[c].kind = "none"
      /\ broker = <<>> /\ dir.phase = "none"
  BY DEF Init, NoCall, NoDir
<1>3. TurnInv
  BY <1>2 DEF TurnInv, ActiveHasKind, OneCreate, InspectAlone, CreateFirst, Active
<1>4. DOMAIN broker = {}
  BY <1>2
<1>5. OnceInv
  BY <1>2, <1>4 DEF OnceInv, NothingBefore, NoRoot, StartsUnregistered, OnlyCapture,
    NoStrayBroker, Opening, Starting
<1> QED BY <1>1, <1>3, <1>5 DEF TurnAndOnce

(* Every step keeps the turns and the capture.                             *)
LEMMA TurnAndOnceNext ==
  ASSUME Orderly, TurnAndOnce, [Next]_vars PROVE TurnAndOnce'
<1>1. IInv /\ TurnInv /\ OnceInv
  BY DEF TurnAndOnce
<1>2. IInv'
  BY <1>1, NextKeeps
<1>3. TurnInv' /\ OnceInv'
  <2>1. ASSUME NEW s \in Servers, Boot(s) \/ Crash(s) PROVE TurnInv' /\ OnceInv'
    BY <2>1, BootOnce, CrashOnce
  <2>2. ASSUME NEW c \in Calls, CallStep(c) PROVE TurnInv' /\ OnceInv'
    BY <2>2, CallTurn, CallOnce
  <2>3. ASSUME NEW c \in Calls, NEW kind \in CallKinds, Begin(c, kind)
        PROVE  TurnInv' /\ OnceInv'
    BY <1>1, <2>3, BeginTurn, BeginOnce
  <2>4. ASSUME NEW b \in BrokerIds, Capture(b) PROVE TurnInv' /\ OnceInv'
    <3>1. call' = call
      BY <2>4 DEF Capture, Claim, Frame, StopCapture, FailCapture, WriteSummary, Enters
    <3>2. TurnInv'
      BY <1>1, <3>1, NobodyBegins DEF Active, Known
    <3> QED BY <2>4, <3>2, CaptureOnce
  <2>5. CASE UNCHANGED vars
    <3>1. UNCHANGED <<dir, server, broker, call, home>>
      BY <2>5 DEF vars
    <3>2. TurnInv'
      BY <1>1, <3>1, NobodyBegins DEF Active, Known
    <3>3. OnceInv'
      BY <1>1, <3>1 DEF OnceInv, NothingBefore, NoRoot, StartsUnregistered, OnlyCapture,
        NoStrayBroker, Reg, Me
    <3> QED BY <3>2, <3>3
  <2> QED BY <2>1, <2>2, <2>3, <2>4, <2>5 DEF Next
<1> QED BY <1>2, <1>3 DEF TurnAndOnce

(* Whose turn it is and what a call read before it starts a broker, in     *)
(* every state of an orderly client.                                       *)
THEOREM OrderlyInvariant == ASSUME Orderly PROVE Spec => []TurnAndOnce
<1>1. TurnAndOnce /\ [Next]_vars => TurnAndOnce'
  BY TurnAndOnceNext
<1> QED BY <1>1, TurnAndOnceInit, PTL DEF Spec

(* At most one of the session's brokers was ever claimed: a capture that   *)
(* began is not begun again, whatever crashes and whoever asks             *)
(* (ensureBroker in session-store-broker.ts).                              *)
THEOREM CaptureBegunOnce == ASSUME Orderly PROVE Spec => []CaptureNotRetried
<1>1. TurnAndOnce => CaptureNotRetried
  <2> SUFFICES ASSUME TurnAndOnce PROVE CaptureNotRetried
    OBVIOUS
  <2> DEFINE begun == {b \in DOMAIN broker : broker[b].phase # "ready"}
  <2>1. \A b, d \in begun : b = d
    BY DEF TurnAndOnce, OnceInv, OnlyCapture
  <2>2. CASE begun = {}
    BY <2>2, FS_EmptySet DEF CaptureNotRetried
  <2>3. CASE begun # {}
    <3>1. PICK b \in begun : begun = {b}
      BY <2>1, <2>3
    <3>2. Cardinality(begun) = 1
      BY <3>1, FS_Singleton
    <3> QED BY <3>2 DEF CaptureNotRetried
  <2> QED BY <2>2, <2>3
<1> QED BY <1>1, OrderlyInvariant, PTL

(* Every broker that listens is named by the registry or by the call that  *)
(* is starting it, so it can be closed (session-store-broker.ts).          *)
THEOREM NoBrokerStrays == ASSUME Orderly PROVE Spec => []NoStrayBroker
<1>1. TurnAndOnce => NoStrayBroker
  BY DEF TurnAndOnce, OnceInv
<1> QED BY <1>1, OrderlyInvariant, PTL

-----------------------------------------------------------------------------
(* What is sealed is one whole capture, and what is discarded is gone.       *)

NoneListens == \A b \in DOMAIN broker : ~broker[b].up

\* Where a call stands once no broker listens any more.
Silent == {"mark", "look", "explain", "undo", "discard", "remove", "render", "publish",
           "video", "manifest", "report"}
SilentCalls == \A c \in Calls : call[c].pc \in Silent => NoneListens

\* What the calls that seal and explain have read of the summary.
KnowsSummary(c) ==
  /\ call[c].pc = "seal" => dir.summary.status = "stopped" /\ dir.summary.frames > 0
  /\ call[c].pc = "explain" => dir.summary.status = "none"

ListensInRoot == \A b \in DOMAIN broker : broker[b].up => dir.root

\* The evidence is what the broker that listens has logged.
EvidenceOf(b) ==
  Len(dir.evidence) = broker[b].frames /\ \A i \in DOMAIN dir.evidence : dir.evidence[i] = b
LoggedWhole ==
  /\ (\A b \in DOMAIN broker : broker[b].phase = "ready") => dir.evidence = <<>>
  /\ \A b \in DOMAIN broker : broker[b].up => EvidenceOf(b)
  /\ \A b \in DOMAIN broker : broker[b].phase = "ready" => broker[b].frames = 0

\* A summary of a stopped capture is of the broker that stopped it, and is told once.
StoppedWhole ==
  dir.summary.status = "stopped" =>
    /\ dir.summary.by \in DOMAIN broker /\ broker[dir.summary.by].phase = "stopped"
    /\ ~broker[dir.summary.by].owes
    /\ Whole(dir.evidence, dir.summary)
SealedStopped == dir.meta = "sealed" => dir.summary.status = "stopped" /\ dir.summary.frames > 0

\* After an answered discard nothing is left, and no call gets past its first checks.
Discarded == \E c \in Calls : call[c].kind = "discard" /\ call[c].pc = "done"
DiscardedStays ==
  Discarded => dir = NoDir /\ NoneListens /\ \A c \in Calls : Runs(c) => call[c].pc = "load"

Stored == ListensInRoot /\ LoggedWhole /\ StoppedWhole /\ SealedStopped
Asked == SilentCalls /\ \A c \in Calls : KnowsSummary(c)
WholeInv == Stored /\ Asked /\ DiscardedStays

SessionInv == TurnAndOnce /\ ContractInv /\ WholeInv

\* The brokers stay as they are, but may stop listening.
BrokersRest ==
  /\ DOMAIN broker' = DOMAIN broker
  /\ \A b \in DOMAIN broker :
       /\ broker'[b].phase = broker[b].phase /\ broker'[b].frames = broker[b].frames
       /\ broker'[b].owes = broker[b].owes /\ (broker'[b].up => broker[b].up)

-----------------------------------------------------------------------------
(* Steps that leave the brokers and the evidence alone.                      *)

(* What is stored stays, if nothing is sealed but a stopped capture.       *)
LEMMA StoredRests ==
  ASSUME Stored, BrokersRest, dir'.root = dir.root, dir'.summary = dir.summary,
         dir'.evidence = dir.evidence,
         dir'.meta = "sealed" =>
           dir.meta = "sealed" \/ (dir.summary.status = "stopped" /\ dir.summary.frames > 0)
  PROVE  Stored'
<1>1. ListensInRoot'
  BY DEF Stored, BrokersRest, ListensInRoot
<1>2. LoggedWhole'
  BY DEF Stored, BrokersRest, LoggedWhole, EvidenceOf
<1>3. StoppedWhole'
  BY DEF Stored, BrokersRest, StoppedWhole, Whole
<1>4. SealedStopped'
  BY DEF Stored, SealedStopped
<1> QED BY <1>1, <1>2, <1>3, <1>4 DEF Stored

(* While a call runs no other is past the lock, so only what it knows      *)
(* itself matters.                                                         *)
LEMMA AskedAlone ==
  ASSUME TurnAndOnce, NEW c \in Calls, Runs(c), \A d \in Calls : d # c => call'[d] = call[d],
         call'[c].pc \in Silent => NoneListens', KnowsSummary(c)'
  PROVE  Asked'
<1>1. \A d \in Calls : d # c => ~Runs(d)
  BY OneRuns DEF TurnAndOnce
<1>2. \A d \in Calls : d # c => call'[d].pc \notin Silent \cup {"seal", "explain"}
  BY <1>1 DEF Runs, Running, Pcs, Silent
<1>3. SilentCalls'
  BY <1>2 DEF SilentCalls
<1>4. \A d \in Calls : KnowsSummary(d)'
  BY <1>2 DEF KnowsSummary
<1> QED BY <1>3, <1>4 DEF Asked

(* Only the call that removed the session answers a discard.               *)
LEMMA DiscardAnswered ==
  ASSUME IInv, WhoActs, NEW c \in Calls, CallStep(c), call[c].kind = "discard",
         call'[c].pc = "done"
  PROVE  RemoveSession(c)
<1>1. /\ \A pc : Goto(c, pc) => call'[c].pc = pc
      /\ home' = home => \A how : End(c, how) => call'[c].pc = how
  BY GotoMoves, EndMoves
<1>2. /\ call[c].pc \notin {"append", "save", "create", "state", "undo"}
      /\ call[c].pc \notin {"seal", "render", "publish", "video", "manifest", "report"}
  BY DEF WhoActs, Fits
<1>3. CASE WriteWrappers(c)
  BY <1>3, WrapMoves
<1>4. CASE StartBroker(c)
  BY <1>4 DEF StartBroker, IInv, TypeOK, Call
<1>5. CASE \/ Enter(c) \/ Load(c) \/ BrokerFault(c) \/ MarkInterrupted(c) \/ LookForSummary(c)
           \/ WriteInterruptedSummary(c) \/ CloseBroker(c) \/ RemoveHelpers(c)
  BY <1>1, <1>5 DEF Enter, Load, BrokerFault, MarkInterrupted, LookForSummary,
    WriteInterruptedSummary, CloseBroker, RemoveHelpers
<1>6. CASE Inspect(c) \/ StampEvent(c) \/ CheckEvidence(c)
  BY <1>6 DEF Inspect, StampEvent, CheckEvidence
<1>7. CASE \/ Create(c) \/ WriteReady(c) \/ UndoCreate(c) \/ CheckEvent(c) \/ SaveEvents(c)
           \/ WriteSealed(c) \/ RenderEvidence(c) \/ RenderFault(c) \/ Publish(c)
           \/ \E file \in {"video", "manifest", "report"} : Rename(c, file)
  BY <1>2, <1>7 DEF Create, WriteReady, UndoCreate, CheckEvent, SaveEvents, WriteSealed,
    RenderEvidence, RenderFault, Publish, Rename, At
<1> QED BY <1>3, <1>4, <1>5, <1>6, <1>7 DEF CallStep

(* The steps of a call that leave the brokers, the root and the evidence.  *)
CalmStep(c) ==
  \/ WriteReady(c) \/ Load(c) \/ WriteWrappers(c) \/ MarkInterrupted(c)
  \/ LookForSummary(c) \/ Inspect(c) \/ StampEvent(c) \/ CheckEvent(c) \/ SaveEvents(c)
  \/ CheckEvidence(c) \/ WriteSealed(c) \/ RemoveHelpers(c) \/ RenderEvidence(c)
  \/ RenderFault(c) \/ Publish(c) \/ \E file \in {"video", "manifest", "report"} : Rename(c, file)

LEMMA CalmMoves ==
  ASSUME IInv, NEW c \in Calls, CalmStep(c)
  PROVE  /\ Runs(c) /\ CallStep(c) /\ broker' = broker /\ home' = home
         /\ dir'.root = dir.root /\ dir'.summary = dir.summary /\ dir'.evidence = dir.evidence
         /\ dir'.meta = "sealed" => dir.meta = "sealed" \/ call[c].pc = "seal"
<1>1. Runs(c) /\ CallStep(c)
  BY DEF CalmStep, CallStep, WriteReady, Load, WriteWrappers, MarkInterrupted, LookForSummary,
    Inspect, StampEvent, CheckEvent, SaveEvents, CheckEvidence, WriteSealed, RemoveHelpers,
    RenderEvidence, RenderFault, Publish, Rename, At, Runs, Running, Pcs
<1>2. dir \in Dir
  BY DEF IInv, TypeOK
<1>3. /\ broker' = broker /\ home' = home
      /\ dir'.root = dir.root /\ dir'.summary = dir.summary /\ dir'.evidence = dir.evidence
      /\ dir'.meta = "sealed" => dir.meta = "sealed" \/ call[c].pc = "seal"
  BY <1>2 DEF CalmStep, WriteReady, Load, WriteWrappers, MarkInterrupted, LookForSummary,
    Inspect, StampEvent, CheckEvent, SaveEvents, CheckEvidence, WriteSealed, RemoveHelpers,
    RenderEvidence, RenderFault, Publish, Rename, At, Dir
<1> QED BY <1>1, <1>3

(* Where such a step leads: none listens where a call becomes silent, and  *)
(* what it knows of the summary it has just read.                          *)
LEMMA CalmKnows ==
  ASSUME IInv, NEW c \in Calls, CalmStep(c)
  PROVE  /\ call'[c].pc \in Silent => call[c].pc \in Silent \/ (Load(c) /\ Reg = 0)
         /\ KnowsSummary(c)'
<1>1. /\ \A pc : Goto(c, pc) => call'[c].pc = pc
      /\ home' = home => \A how : End(c, how) => call'[c].pc = how
  BY GotoMoves, EndMoves
<1>2. home' = home /\ dir'.summary = dir.summary
  BY CalmMoves
<1>3. {"failed", "done"} \cap (Silent \cup {"seal", "explain"}) = {}
  BY DEF Silent
<1>4. CASE WriteReady(c)
  <2>1. call'[c].pc = "start"
    BY <1>1, <1>4 DEF WriteReady
  <2> QED BY <2>1 DEF Silent, KnowsSummary
<1>5. CASE Load(c)
  <2>1. \/ call'[c].pc \in {"failed", "done", "close", "ensured", "start"}
        \/ call'[c].pc = "mark" /\ Reg = 0
    BY <1>1, <1>5 DEF Load
  <2> QED BY <1>5, <2>1 DEF Silent, KnowsSummary
<1>6. CASE WriteWrappers(c)
  BY <1>6, WrapMoves DEF Silent, KnowsSummary
<1>7. CASE MarkInterrupted(c)
  <2>1. call[c].pc = "mark" /\ call'[c].pc \in {"look", "failed"}
    BY <1>1, <1>7 DEF MarkInterrupted, At
  <2> QED BY <2>1 DEF Silent, KnowsSummary
<1>8. CASE LookForSummary(c)
  <2>1. /\ call[c].pc = "look" /\ call'[c].pc \in {"explain", "failed"}
        /\ call'[c].pc = "explain" => dir.summary.status = "none"
    BY <1>1, <1>8 DEF LookForSummary, At
  <2> QED BY <1>2, <2>1 DEF Silent, KnowsSummary
<1>9. CASE Inspect(c) \/ SaveEvents(c) \/ RenderFault(c)
  <2>1. call'[c].pc \in {"done", "failed"}
    BY <1>1, <1>2, <1>9 DEF Inspect, SaveEvents, RenderFault
  <2> QED BY <1>3, <2>1 DEF KnowsSummary
<1>10. CASE StampEvent(c) \/ CheckEvent(c)
  <2>1. call'[c].pc \in {"failed", "append", "save"}
    BY <1>1, <1>2, <1>10 DEF StampEvent, CheckEvent, IInv, TypeOK, Call
  <2> QED BY <2>1 DEF Silent, KnowsSummary
<1>11. CASE CheckEvidence(c)
  <2>1. \/ call'[c].pc = "failed"
        \/ call'[c].pc = "seal" /\ dir.summary.status = "stopped" /\ dir.summary.frames > 0
    BY <1>1, <1>2, <1>11 DEF CheckEvidence
  <2> QED BY <1>2, <2>1 DEF Silent, KnowsSummary
<1>12. CASE WriteSealed(c)
  <2>1. call'[c].pc \in {"failed", "close"}
    BY <1>1, <1>2, <1>12 DEF WriteSealed
  <2> QED BY <2>1 DEF Silent, KnowsSummary
<1>13. CASE RemoveHelpers(c) \/ RenderEvidence(c) \/ Publish(c)
  <2>1. /\ call[c].pc \in {"discard", "render", "publish"}
        /\ call'[c].pc \in {"failed", "remove", "publish", "video"}
    BY <1>1, <1>2, <1>13 DEF RemoveHelpers, RenderEvidence, Publish, At
  <2> QED BY <2>1 DEF Silent, KnowsSummary
<1>14. CASE \E file \in {"video", "manifest", "report"} : Rename(c, file)
  <2>1. /\ call[c].pc \in {"video", "manifest", "report"}
        /\ call'[c].pc \in {"failed", "done", "manifest", "report"}
    BY <1>1, <1>2, <1>14 DEF Rename, At
  <2> QED BY <2>1 DEF Silent, KnowsSummary
<1> QED BY <1>4, <1>5, <1>6, <1>7, <1>8, <1>9, <1>10, <1>11, <1>12, <1>13, <1>14 DEF CalmStep

(* They keep what is stored and what calls know.                           *)
LEMMA CalmWhole ==
  ASSUME SessionInv, NEW c \in Calls, CalmStep(c) PROVE Stored' /\ Asked'
<1>1. IInv /\ TurnAndOnce /\ Stored /\ Asked
  BY DEF SessionInv, TurnAndOnce, WholeInv
<1>2. /\ Runs(c) /\ CallStep(c) /\ broker' = broker
      /\ \A d \in Calls : d # c => call'[d] = call[d]
  BY <1>1, CalmMoves, CallMoves
<1>3. Stored'
  <2>1. BrokersRest
    BY <1>2 DEF BrokersRest
  <2>2. call[c].pc = "seal" => dir.summary.status = "stopped" /\ dir.summary.frames > 0
    BY <1>1 DEF Asked, KnowsSummary
  <2> QED BY <1>1, <2>1, <2>2, CalmMoves, StoredRests
<1>4. call'[c].pc \in Silent => NoneListens'
  <2>1. CASE call[c].pc \in Silent
    BY <1>1, <1>2, <2>1 DEF Asked, SilentCalls, NoneListens
  <2>2. CASE Load(c) /\ Reg = 0
    <3>1. 0 \notin DOMAIN broker
      BY <1>1, LenProperties DEF IInv, TypeOK
    <3>2. call[c].pc # "wrap"
      BY <2>2 DEF Load, At
    <3> QED BY <1>1, <1>2, <2>2, <3>1, <3>2, WhoListens DEF NoneListens
  <2> QED BY <1>1, <2>1, <2>2, CalmKnows
<1>5. Asked'
  BY <1>1, <1>2, <1>4, CalmKnows, AskedAlone
<1> QED BY <1>3, <1>5

-----------------------------------------------------------------------------
(* Steps that write the brokers, or the evidence.                            *)

(* A call that waited enters: it knows nothing yet.                        *)
LEMMA EnterWhole == ASSUME SessionInv, NEW c \in Calls, Enter(c) PROVE Stored' /\ Asked'
<1>1. IInv /\ Stored /\ Asked
  BY DEF SessionInv, TurnAndOnce, WholeInv
<1>2. /\ UNCHANGED <<dir, broker>> /\ call'[c].pc = "load"
      /\ \A d \in Calls : d # c => call'[d] = call[d]
  BY <1>1, GotoMoves DEF Enter
<1>3. Stored'
  BY <1>1, <1>2, StoredRests DEF BrokersRest
<1>4. SilentCalls'
  BY <1>1, <1>2 DEF Asked, SilentCalls, NoneListens, Silent
<1>5. \A d \in Calls : KnowsSummary(d)'
  BY <1>1, <1>2 DEF Asked, KnowsSummary
<1> QED BY <1>3, <1>4, <1>5 DEF Asked

(* A broker that could not be started stops listening: it is the only one. *)
LEMMA FaultWhole == ASSUME SessionInv, NEW c \in Calls, BrokerFault(c) PROVE Stored' /\ Asked'
<1>1. IInv /\ TurnAndOnce /\ Stored /\ Asked
  BY DEF SessionInv, TurnAndOnce, WholeInv
<1>2. /\ Runs(c) /\ CallStep(c) /\ dir' = dir /\ call[c].pc \in Starting
      /\ \A d \in Calls : d # c => call'[d] = call[d]
  BY <1>1, CallMoves
     DEF BrokerFault, CallStep, At, Runs, Running, Pcs, Starting
<1>3. broker \in Seq(Broker) /\ 0 \notin DOMAIN broker
  BY <1>1, LenProperties DEF IInv, TypeOK
<1>4. /\ BrokersRest
      /\ \A b \in DOMAIN broker : b = call[c].broker => ~broker'[b].up
  <2>1. \A b \in DOMAIN broker : broker[b] \in Broker
    BY <1>3
  <2> QED BY <1>3, <2>1 DEF BrokerFault, Broker, BrokersRest
<1>5. Stored'
  BY <1>1, <1>2, <1>4, StoredRests
<1>6. NoneListens'
  <2>1. Reg = 0
    BY <1>1, <1>2 DEF TurnAndOnce, OnceInv, StartsUnregistered
  <2>2. \A b \in DOMAIN broker : broker[b].up => b = call[c].broker
    BY <1>1, <1>2, <1>3, <2>1, WhoListens
  <2> QED BY <1>4, <2>2 DEF NoneListens, BrokersRest
<1>7. KnowsSummary(c)'
  <2>1. call'[c].pc \in {"undo", "failed"}
    BY <1>1, GotoMoves, EndMoves DEF BrokerFault
  <2> QED BY <2>1 DEF KnowsSummary
<1> QED BY <1>1, <1>2, <1>5, <1>6, <1>7, AskedAlone

(* The broker that is closed is the only one that listens; what it fails   *)
(* was not sealed.                                                         *)
LEMMA CloseWhole == ASSUME SessionInv, NEW c \in Calls, CloseBroker(c) PROVE Stored' /\ Asked'
<1>1. IInv /\ TurnAndOnce /\ Stored /\ Asked
  BY DEF SessionInv, TurnAndOnce, WholeInv
<1>2. /\ Runs(c) /\ CallStep(c) /\ call[c].pc = "close"
      /\ \A d \in Calls : d # c => call'[d] = call[d]
  BY <1>1, CallMoves DEF CloseBroker, CallStep, At, Runs, Running, Pcs
<1>3. broker \in Seq(Broker) /\ 0 \notin DOMAIN broker /\ dir \in Dir
  BY <1>1, LenProperties DEF IInv, TypeOK
<1>4. \A b \in DOMAIN broker : broker[b].up => b = Reg
  BY <1>1, <1>2, WhoListens
<1>5. \A b \in DOMAIN broker : broker[b] \in Broker
  BY <1>3
<1>6. /\ DOMAIN broker' = DOMAIN broker
      /\ \A b \in DOMAIN broker : ~broker'[b].up
  <2>1. /\ DOMAIN broker' = DOMAIN broker
        /\ \A b \in DOMAIN broker : broker'[b].up => broker[b].up /\ b # Reg
    BY <1>3, <1>5 DEF CloseBroker, Broker
  <2> QED BY <1>4, <2>1
<1>7. NoneListens'
  BY <1>6 DEF NoneListens
<1>8. KnowsSummary(c)'
  <2>1. call'[c].pc \in {"discard", "render"}
    BY <1>1, GotoMoves DEF CloseBroker
  <2> QED BY <2>1 DEF KnowsSummary
<1>9. Asked'
  BY <1>1, <1>2, <1>7, <1>8, AskedAlone
<1>10. CASE Reg \in DOMAIN broker /\ broker[Reg].phase \in {"claimed", "running"}
  <2>1. /\ broker' = [broker EXCEPT ![Reg].up = FALSE, ![Reg].phase = "failed",
                                    ![Reg].owes = FALSE]
        /\ dir' = [dir EXCEPT !.phase = "failed",
                     !.summary = [status |-> "failed", by |-> Reg, frames |-> broker[Reg].frames]]
    BY <1>3, <1>10 DEF CloseBroker
  <2>2. dir'.summary.status = "failed" /\ dir'.meta = dir.meta /\ dir'.evidence = dir.evidence
    BY <1>3, <2>1 DEF Dir
  <2>3. dir.summary.status # "stopped"
    BY <1>1, <1>10 DEF TurnAndOnce, OnceInv, OnlyCapture, Stored, StoppedWhole
  <2>4. broker'[Reg].phase = "failed" /\ \A b \in DOMAIN broker : b # Reg => broker'[b] = broker[b]
    BY <1>10, <1>5, <2>1 DEF Broker
  <2>5. LoggedWhole'
    BY <1>1, <1>6, <1>10, <2>2, <2>4 DEF Stored, LoggedWhole
  <2>6. ListensInRoot' /\ StoppedWhole' /\ SealedStopped'
    BY <1>1, <1>6, <2>2, <2>3
       DEF Stored, ListensInRoot, StoppedWhole, SealedStopped
  <2> QED BY <1>9, <2>5, <2>6 DEF Stored
<1>11. CASE ~(Reg \in DOMAIN broker /\ broker[Reg].phase \in {"claimed", "running"})
  <2>1. Reg = 0 \/ Reg \in DOMAIN broker
    <3>1. Reg \in 0..MaxBrokers /\ Reg <= Len(broker)
      BY <1>1 DEF IInv, TypeOK, BrokersExist, Process, Reg, Me
    <3>2. DOMAIN broker = 1..Len(broker) /\ Len(broker) \in Nat
      BY <1>3, LenProperties
    <3> QED BY <3>1, <3>2, LifecycleConstants
  <2>2. dir' = dir /\ (broker' = broker \/ broker' = [broker EXCEPT ![Reg].up = FALSE])
    BY <1>11, <2>1 DEF CloseBroker
  <2>3. BrokersRest
    BY <1>5, <1>6, <2>2 DEF BrokersRest, Broker
  <2> QED BY <1>1, <1>9, <2>2, <2>3, StoredRests
<1> QED BY <1>10, <1>11

(* A broker starts on no evidence: none was claimed before.                *)
LEMMA StartWhole == ASSUME SessionInv, NEW c \in Calls, StartBroker(c) PROVE Stored' /\ Asked'
<1> DEFINE n == Len(broker)
           new == [up |-> TRUE, phase |-> "ready", frames |-> 0, owes |-> FALSE]
<1>1. IInv /\ TurnAndOnce /\ Stored /\ Asked
  BY DEF SessionInv, TurnAndOnce, WholeInv
<1>2. /\ Runs(c) /\ CallStep(c) /\ call[c].pc = "start"
      /\ \A d \in Calls : d # c => call'[d] = call[d]
  BY <1>1, CallMoves DEF StartBroker, CallStep, At, Runs, Running, Pcs
<1>3. /\ broker \in Seq(Broker) /\ n \in Nat /\ DOMAIN broker = 1..n /\ dir \in Dir
  BY <1>1, LenProperties DEF IInv, TypeOK
<1>4. \A b \in 1..n : broker[b].phase = "ready" /\ ~broker[b].up
  <2>1. Reg = 0
    BY <1>1, <1>2 DEF TurnAndOnce, OnceInv, StartsUnregistered, Starting
  <2> QED BY <1>1, <1>2, <1>3, <2>1, WhoListens DEF TurnAndOnce, OnceInv, OnlyCapture
<1>5. /\ DOMAIN broker' = 1..(n + 1)
      /\ \A b \in 1..n : broker'[b] = broker[b]
      /\ broker'[n + 1].phase = "ready" /\ broker'[n + 1].frames = 0
  <2>1. new \in Broker
    BY LifecycleConstants DEF Broker, BrokerPhases
  <2>2. broker' = Append(broker, new)
    BY DEF StartBroker
  <2>3. new.phase = "ready" /\ new.frames = 0
    OBVIOUS
  <2> HIDE DEF new
  <2> QED BY <1>3, <2>1, <2>2, <2>3, AppendProperties, LenProperties
<1>6. \A b \in 1..(n + 1) : b \in 1..n \/ b = n + 1
  BY <1>3
<1>7. /\ dir'.root /\ dir'.evidence = dir.evidence /\ dir'.summary = dir.summary
      /\ dir'.meta = dir.meta
  BY <1>3 DEF StartBroker, Dir
<1>8. dir.evidence = <<>> /\ dir.summary.status # "stopped"
  BY <1>1, <1>3, <1>4 DEF Stored, LoggedWhole, StoppedWhole
<1>9. LoggedWhole'
  <2>1. \A b \in DOMAIN broker' : broker'[b].up => b = n + 1
    BY <1>4, <1>5, <1>6
  <2>2. \A b \in DOMAIN broker' : broker'[b].up => EvidenceOf(b)'
    BY <1>5, <1>7, <1>8, <2>1 DEF EvidenceOf
  <2>3. \A b \in DOMAIN broker' : broker'[b].phase = "ready" => broker'[b].frames = 0
    BY <1>1, <1>3, <1>5, <1>6 DEF Stored, LoggedWhole
  <2> QED BY <1>7, <1>8, <2>2, <2>3 DEF LoggedWhole
<1>10. ListensInRoot' /\ StoppedWhole' /\ SealedStopped'
  BY <1>1, <1>7, <1>8 DEF Stored, ListensInRoot, StoppedWhole, SealedStopped
<1>11. call'[c].pc = "wrap"
  BY <1>1 DEF StartBroker, IInv, TypeOK, Call
<1>12. Asked'
  BY <1>1, <1>2, <1>11, AskedAlone DEF Silent, KnowsSummary
<1> QED BY <1>9, <1>10, <1>12 DEF Stored

(* The session's directory is made before any broker, and removed when     *)
(* none listens.                                                           *)
LEMMA ClearWhole ==
  ASSUME SessionInv, NEW c \in Calls, Create(c) \/ UndoCreate(c) \/ RemoveSession(c)
  PROVE  Stored' /\ Asked'
<1>1. IInv /\ TurnAndOnce /\ Stored /\ Asked
  BY DEF SessionInv, TurnAndOnce, WholeInv
<1>2. /\ Runs(c) /\ CallStep(c) /\ broker' = broker
      /\ \A d \in Calls : d # c => call'[d] = call[d]
  BY <1>1, CallMoves DEF Create, UndoCreate, RemoveSession, CallStep, At, Runs, Running, Pcs
<1>3. NoneListens
  <2>1. CASE Create(c)
    <3>1. broker = <<>>
      BY <1>1, <2>1 DEF Create, At, TurnAndOnce, OnceInv, NothingBefore, Opening
    <3> QED BY <3>1 DEF NoneListens
  <2>2. CASE UndoCreate(c) \/ RemoveSession(c)
    BY <1>1, <2>2 DEF UndoCreate, RemoveSession, At, Asked, SilentCalls, Silent
  <2> QED BY <2>1, <2>2
<1>4. dir'.evidence = <<>> /\ dir'.summary.status = "none" /\ dir'.meta # "sealed"
  <2>1. CASE Create(c)
    BY <2>1 DEF Create, NoDir, NoSummary
  <2>2. CASE (UndoCreate(c) \/ RemoveSession(c)) /\ ~Create(c)
    BY <2>2 DEF UndoCreate, RemoveSession, NoDir, NoSummary
  <2> QED BY <2>1, <2>2
<1>5. Stored'
  BY <1>1, <1>2, <1>3, <1>4
     DEF Stored, NoneListens, ListensInRoot, LoggedWhole, StoppedWhole, SealedStopped
<1>6. KnowsSummary(c)'
  <2>1. call'[c].pc \in {"state", "failed", "done"}
    BY <1>1, GotoMoves, EndMoves DEF Create, UndoCreate, RemoveSession
  <2> QED BY <2>1 DEF KnowsSummary
<1> QED BY <1>1, <1>2, <1>3, <1>5, <1>6, AskedAlone DEF NoneListens

(* What is explained had no summary, so it was not sealed.                 *)
LEMMA ExplainWhole ==
  ASSUME SessionInv, NEW c \in Calls, WriteInterruptedSummary(c) PROVE Stored' /\ Asked'
<1>1. IInv /\ TurnAndOnce /\ Stored /\ Asked /\ dir \in Dir
  BY DEF SessionInv, TurnAndOnce, WholeInv, IInv, TypeOK
<1>2. /\ Runs(c) /\ CallStep(c) /\ broker' = broker /\ call[c].pc = "explain"
      /\ \A d \in Calls : d # c => call'[d] = call[d]
  BY <1>1, CallMoves DEF WriteInterruptedSummary, CallStep, At, Runs, Running, Pcs
<1>3. NoneListens /\ dir.summary.status = "none"
  BY <1>1, <1>2 DEF Asked, SilentCalls, Silent, KnowsSummary
<1>4. /\ dir'.evidence = dir.evidence /\ dir'.meta = dir.meta /\ dir'.root = dir.root
      /\ dir'.summary.status # "stopped"
  <2>1. CASE dir.root
    BY <1>1, <2>1 DEF WriteInterruptedSummary, Dir, NoSummary
  <2>2. CASE ~dir.root
    BY <1>3, <2>2 DEF WriteInterruptedSummary
  <2> QED BY <2>1, <2>2
<1>5. Stored'
  BY <1>1, <1>2, <1>3, <1>4
     DEF Stored, NoneListens, ListensInRoot, LoggedWhole, StoppedWhole, SealedStopped
<1>6. call'[c].pc = "failed"
  BY <1>1, EndMoves DEF WriteInterruptedSummary
<1> QED BY <1>1, <1>2, <1>5, <1>6, AskedAlone DEF Silent, KnowsSummary

(* The broker that listens logs one line a frame, and tells the summary of *)
(* a stopped capture once.                                                 *)
LEMMA CaptureWhole == ASSUME SessionInv, NEW b \in BrokerIds, Capture(b) PROVE Stored' /\ Asked'
<1>1. IInv /\ TurnAndOnce /\ Stored /\ Asked
  BY DEF SessionInv, TurnAndOnce, WholeInv
<1>2. /\ b \in DOMAIN broker /\ broker[b].up /\ call' = call
      /\ broker[b].phase \in {"ready", "claimed", "running"} \/ broker[b].owes
  BY DEF Capture, Claim, Frame, StopCapture, FailCapture, WriteSummary, Enters
<1>3. /\ broker \in Seq(Broker) /\ dir \in Dir /\ broker[b] \in Broker
      /\ broker[b].owes => broker[b].phase \in {"stopped", "failed"}
  <2>1. broker \in Seq(Broker) /\ dir \in Dir
    BY <1>1 DEF IInv, TypeOK
  <2> QED BY <1>1, <1>2, <2>1 DEF IInv, BrokersExist, Owing
<1>4. dir.root /\ EvidenceOf(b)
  BY <1>1, <1>2 DEF Stored, ListensInRoot, LoggedWhole
<1>5. dir.summary.status # "stopped"
  <2>1. SUFFICES ASSUME dir.summary.status = "stopped" PROVE FALSE
    OBVIOUS
  <2>2. dir.summary.by = b
    BY <1>1, <1>2, <2>1 DEF Stored, StoppedWhole, TurnAndOnce, OnceInv, OnlyCapture
  <2> QED BY <1>1, <1>2, <2>1, <2>2 DEF Stored, StoppedWhole
<1>6. dir.meta # "sealed"
  BY <1>1, <1>5 DEF Stored, SealedStopped
<1>7. Asked'
  <2>1. \A c \in Calls : call[c].pc \notin Silent \cup {"seal", "explain"}
    BY <1>1, <1>2, <1>5 DEF Asked, SilentCalls, NoneListens, KnowsSummary, Silent
  <2> QED BY <1>2, <2>1 DEF Asked, SilentCalls, KnowsSummary
<1>8. /\ DOMAIN broker' = DOMAIN broker
      /\ \A d \in DOMAIN broker : d # b => broker'[d] = broker[d]
  BY <1>2 DEF Capture, Claim, Frame, StopCapture, FailCapture, WriteSummary
<1>9. \A d \in DOMAIN broker : d # b => ~broker[d].up
  BY <1>1, <1>2, OneListens
<1>10. /\ dir'.root = dir.root /\ dir'.meta = dir.meta
       /\ broker'[b].phase # "ready"
       /\ EvidenceOf(b)'
  <2>1. CASE Claim(b) \/ StopCapture(b) \/ FailCapture(b)
    <3>1. /\ dir'.root = dir.root /\ dir'.meta = dir.meta /\ dir'.evidence = dir.evidence
      BY <1>3, <1>4, <2>1 DEF Claim, StopCapture, FailCapture, Enters, SavePhase, Dir
    <3>2. broker'[b].phase # "ready" /\ broker'[b].frames = broker[b].frames
      <4>1. CASE Claim(b) \/ StopCapture(b)
        BY <1>2, <1>3, <4>1 DEF Claim, StopCapture, Broker
      <4>2. CASE FailCapture(b)
        <5>1. PICK owes \in BOOLEAN :
                broker' = [broker EXCEPT ![b].phase = "failed", ![b].owes = owes]
          BY <4>2 DEF FailCapture
        <5> QED BY <1>2, <1>3, <5>1 DEF Broker
      <4> QED BY <2>1, <4>1, <4>2
    <3> QED BY <1>4, <3>1, <3>2 DEF EvidenceOf
  <2>2. CASE WriteSummary(b)
    <3>1. /\ dir'.root = dir.root /\ dir'.meta = dir.meta /\ dir'.evidence = dir.evidence
      BY <1>3, <1>4, <2>2 DEF WriteSummary, Dir
    <3>2. broker'[b].phase # "ready" /\ broker'[b].frames = broker[b].frames
      BY <1>2, <1>3, <2>2 DEF WriteSummary, Broker
    <3> QED BY <1>4, <3>1, <3>2 DEF EvidenceOf
  <2>3. CASE Frame(b)
    <3> DEFINE log == dir.evidence
    <3>1. log \in Seq(BrokerIds)
      BY <1>3 DEF Dir
    <3>2. /\ dir'.root = dir.root /\ dir'.meta = dir.meta /\ dir'.evidence = Append(log, b)
      BY <1>3, <1>4, <2>3 DEF Frame, Dir
    <3>3. broker'[b].phase = "running" /\ broker'[b].frames = broker[b].frames + 1
      BY <1>2, <1>3, <2>3 DEF Frame, Broker
    <3>4. /\ DOMAIN log = 1..Len(log) /\ Len(log) \in Nat
          /\ DOMAIN Append(log, b) = 1..(Len(log) + 1) /\ Len(Append(log, b)) = Len(log) + 1
          /\ \A i \in 1..Len(log) : Append(log, b)[i] = log[i]
          /\ Append(log, b)[Len(log) + 1] = b
      BY <3>1, AppendProperties, LenProperties
    <3>5. \A i \in 1..(Len(log) + 1) : i \in 1..Len(log) \/ i = Len(log) + 1
      BY <3>4
    <3> QED BY <1>4, <3>2, <3>3, <3>4, <3>5 DEF EvidenceOf
  <2> QED BY <2>1, <2>2, <2>3 DEF Capture
<1>11. ListensInRoot' /\ SealedStopped'
  BY <1>4, <1>6, <1>10 DEF ListensInRoot, SealedStopped
<1>12. LoggedWhole'
  <2>1. \A d \in DOMAIN broker' : broker'[d].up => EvidenceOf(d)'
    BY <1>8, <1>9, <1>10
  <2> QED BY <1>1, <1>2, <1>8, <1>10, <2>1 DEF Stored, LoggedWhole
<1>13. StoppedWhole'
  <2>1. CASE WriteSummary(b)
    <3>1. /\ broker'[b].phase = broker[b].phase /\ ~broker'[b].owes
          /\ broker'[b].frames = broker[b].frames
      BY <1>2, <1>3, <2>1 DEF WriteSummary, Broker
    <3>2. dir'.summary = [status |-> broker[b].phase, by |-> b, frames |-> broker[b].frames]
      BY <1>3, <1>4, <2>1 DEF WriteSummary, Dir
    <3>3. /\ dir'.summary.status = broker[b].phase /\ dir'.summary.by = b
          /\ dir'.summary.frames = broker'[b].frames
      BY <3>1, <3>2
    <3> QED BY <1>2, <1>8, <1>10, <3>1, <3>3 DEF StoppedWhole, Whole, EvidenceOf
  <2>2. CASE ~WriteSummary(b)
    <3>1. dir'.summary = dir.summary
      BY <1>3, <1>4, <2>2 DEF Capture, Claim, Frame, StopCapture, FailCapture, Enters,
        SavePhase, Dir
    <3> QED BY <1>5, <3>1 DEF StoppedWhole
  <2> QED BY <2>1, <2>2
<1> QED BY <1>7, <1>11, <1>12, <1>13 DEF Stored

(* Boots, crashes and calls that begin write nothing.                      *)
LEMMA ElsewhereWhole ==
  ASSUME SessionInv, \/ \E s \in Servers : Boot(s) \/ Crash(s)
                     \/ \E c \in Calls, kind \in CallKinds : Begin(c, kind)
                     \/ UNCHANGED vars
  PROVE  Stored' /\ Asked'
<1>1. IInv /\ TurnAndOnce /\ Stored /\ Asked
  BY DEF SessionInv, TurnAndOnce, WholeInv
<1>2. dir' = dir
  BY DEF Boot, BootRead, BootLink, Crash, Begin, vars
<1>3. BrokersRest
  <2>1. CASE broker' = broker
    BY <2>1 DEF BrokersRest
  <2>2. CASE broker' = [b \in DOMAIN broker |-> [broker[b] EXCEPT !.up = FALSE]]
    <3>1. \A b \in DOMAIN broker : broker[b] \in Broker
      <4>1. broker \in Seq(Broker)
        BY <1>1 DEF IInv, TypeOK
      <4> QED BY <4>1
    <3> QED BY <2>2, <3>1 DEF BrokersRest, Broker
  <2> QED BY <2>1, <2>2 DEF Boot, BootRead, BootLink, Crash, Begin, vars
<1>4. \A d \in Calls : \/ call'[d].pc = call[d].pc
                       \/ call'[d].pc \notin Silent \cup {"seal", "explain"}
  <2>1. CASE call' = call
    BY <2>1
  <2>2. ASSUME NEW c \in Calls, NEW kind \in CallKinds, Begin(c, kind), NEW d \in Calls
        PROVE  \/ call'[d].pc = call[d].pc
               \/ call'[d].pc \notin Silent \cup {"seal", "explain"}
    <3>1. /\ d # c => call'[d] = call[d]
          /\ call'[c].pc \in {"create", "lock", "load"}
      BY <1>1, <2>2 DEF Begin, IInv, TypeOK, Call
    <3> QED BY <3>1 DEF Silent
  <2>3. ASSUME NEW s \in Servers, Crash(s), NEW d \in Calls
        PROVE  \/ call'[d].pc = call[d].pc
               \/ call'[d].pc \notin Silent \cup {"seal", "explain"}
    <3>1. call'[d].pc = call[d].pc \/ call'[d].pc = "failed"
      BY <2>3 DEF Crash, NoCall
    <3> QED BY <3>1 DEF Silent
  <2> QED BY <2>1, <2>2, <2>3 DEF Boot, BootRead, BootLink, vars
<1>5. NoneListens => NoneListens'
  BY <1>3 DEF NoneListens, BrokersRest
<1>6. SilentCalls' /\ \A d \in Calls : KnowsSummary(d)'
  BY <1>1, <1>2, <1>4, <1>5 DEF Asked, SilentCalls, KnowsSummary
<1> QED BY <1>1, <1>2, <1>3, <1>6, StoredRests DEF Asked

(* Every step keeps what is stored and what calls know of it.              *)
LEMMA NextWhole == ASSUME SessionInv, [Next]_vars PROVE Stored' /\ Asked'
<1>1. ASSUME NEW c \in Calls, CallStep(c) PROVE Stored' /\ Asked'
  BY <1>1, EnterWhole, FaultWhole, CloseWhole, StartWhole, ClearWhole, ExplainWhole, CalmWhole
     DEF CallStep, CalmStep
<1> QED BY <1>1, CaptureWhole, ElsewhereWhole DEF Next

-----------------------------------------------------------------------------
(* Nothing comes back after a discard.                                       *)

(* Once a discard is answered, every call that still runs fails.           *)
LEMMA NothingComesBack ==
  ASSUME SessionInv, Discarded, [Next]_vars PROVE DiscardedStays'
<1>1. /\ IInv /\ TurnAndOnce /\ WhoActs /\ dir = NoDir /\ NoneListens
      /\ \A c \in Calls : Runs(c) => call[c].pc = "load"
      /\ call \in [Calls -> Call]
  BY DEF SessionInv, ContractInv, TurnAndOnce, WholeInv, DiscardedStays, IInv, TypeOK
<1>2. ASSUME NEW s \in Servers, Boot(s) PROVE DiscardedStays'
  BY <1>1, <1>2 DEF Boot, BootRead, BootLink, DiscardedStays, NoneListens, Runs
<1>3. ASSUME NEW s \in Servers, Crash(s) PROVE DiscardedStays'
  <2>1. dir' = dir /\ NoneListens'
    <3>1. \A b \in DOMAIN broker : broker[b] \in Broker
      <4>1. broker \in Seq(Broker)
        BY <1>1 DEF IInv, TypeOK
      <4> QED BY <4>1
    <3>2. CASE broker' = broker
      BY <1>1, <1>3, <3>2 DEF Crash, NoneListens
    <3>3. CASE broker' = [b \in DOMAIN broker |-> [broker[b] EXCEPT !.up = FALSE]]
      BY <1>3, <3>1, <3>3 DEF Crash, NoneListens, Broker
    <3> QED BY <1>3, <3>2, <3>3 DEF Crash
  <2>2. \A c \in Calls : call'[c].pc = call[c].pc \/ call'[c].pc = "failed"
    BY <1>3 DEF Crash, NoCall
  <2> QED BY <1>1, <2>1, <2>2 DEF DiscardedStays, Runs, Running
<1>4. ASSUME NEW c \in Calls, CallStep(c) PROVE DiscardedStays'
  <2>1. call[c].pc \in {"lock", "load"} /\ \A d \in Calls : d # c => call'[d] = call[d]
    <3>1. Active(c) /\ call[c].pc # "idle" /\ call[c].pc \in Pcs
      BY <1>1, <1>4, CallMoves DEF Call
    <3> QED BY <1>1, <1>4, <3>1, CallMoves DEF Active, Runs, Running
  <2>2. Enter(c) \/ Load(c)
    BY <1>4, <2>1 DEF CallStep, Create, WriteReady, StartBroker, BrokerFault, WriteWrappers,
      UndoCreate, MarkInterrupted, LookForSummary, WriteInterruptedSummary, Inspect, StampEvent,
      CheckEvent, SaveEvents, CheckEvidence, WriteSealed, CloseBroker, RemoveHelpers,
      RemoveSession, RenderEvidence, RenderFault, Publish, Rename, At
  <2>3. ~Owned
    BY <1>1 DEF Owned, NoDir
  <2>4. /\ UNCHANGED <<dir, broker>> /\ call'[c].pc \in {"load", "failed"}
    BY <1>1, <2>2, <2>3, GotoMoves, EndMoves DEF Enter, Load
  <2> QED BY <1>1, <2>1, <2>4 DEF DiscardedStays, NoneListens, Runs, Running
<1>5. ASSUME NEW c \in Calls, NEW kind \in CallKinds, Begin(c, kind) PROVE DiscardedStays'
  <2>1. Known
    BY <1>1 DEF Discarded, WhoActs, KnownFirst
  <2>2. kind # "create"
    BY <1>5, <2>1 DEF Begin, Known
  <2>3. /\ UNCHANGED <<dir, broker>> /\ call'[c].pc \in {"lock", "load"}
        /\ \A d \in Calls : d # c => call'[d] = call[d]
    BY <1>1, <1>5, <2>2 DEF Begin, Call
  <2> QED BY <1>1, <2>3 DEF DiscardedStays, NoneListens, Runs, Running
<1>6. ASSUME NEW b \in BrokerIds, Capture(b) PROVE FALSE
  BY <1>1, <1>6 DEF NoneListens, Capture, Claim, Frame, StopCapture, FailCapture, WriteSummary,
    Enters
<1>7. CASE UNCHANGED vars
  BY <1>1, <1>7 DEF vars, DiscardedStays, NoneListens, Runs
<1> QED BY <1>2, <1>3, <1>4, <1>5, <1>6, <1>7 DEF Next

(* The call that answers a discard leaves nothing, and nobody else runs.   *)
LEMMA DiscardLeavesNothing ==
  ASSUME SessionInv, ~Discarded, [Next]_vars PROVE DiscardedStays'
<1>1. /\ IInv /\ TurnAndOnce /\ WhoActs /\ Asked /\ Sound /\ call \in [Calls -> Call]
  BY DEF SessionInv, ContractInv, TurnAndOnce, WholeInv, IInv, TypeOK
<1>2. SUFFICES ASSUME Discarded'
               PROVE  /\ dir' = NoDir /\ NoneListens'
                      /\ \A d \in Calls : call'[d].pc \notin Running
  BY DEF DiscardedStays, Runs
<1>3. PICK c \in Calls : call'[c].kind = "discard" /\ call'[c].pc = "done"
  BY <1>2 DEF Discarded
<1>4. call'[c] # call[c]
  BY <1>3 DEF Discarded
<1>5. CallStep(c)
  <2>1. ASSUME NEW s \in Servers, Boot(s) \/ Crash(s) PROVE FALSE
    BY <1>3, <1>4, <2>1 DEF Boot, BootRead, BootLink, Crash, NoCall
  <2>2. ASSUME NEW d \in Calls, CallStep(d) PROVE CallStep(c)
    BY <1>1, <1>4, <2>2, CallMoves
  <2>3. ASSUME NEW d \in Calls, NEW kind \in CallKinds, Begin(d, kind) PROVE FALSE
    <3>1. d # c => call'[c] = call[c]
      BY <1>1, <2>3 DEF Begin
    <3>2. call'[d].pc \in {"create", "lock", "load"}
      BY <1>1, <2>3 DEF Begin, Call
    <3> QED BY <1>3, <1>4, <3>1, <3>2
  <2>4. ASSUME NEW b \in BrokerIds, Capture(b) PROVE FALSE
    BY <1>4, <2>4 DEF Capture, Claim, Frame, StopCapture, FailCapture, WriteSummary, Enters
  <2>5. CASE UNCHANGED vars
    BY <1>4, <2>5 DEF vars
  <2> QED BY <2>1, <2>2, <2>3, <2>4, <2>5 DEF Next
<1>6. RemoveSession(c)
  BY <1>1, <1>3, <1>5, CallMoves, DiscardAnswered
<1>7. Runs(c) /\ call[c].pc = "remove"
  BY <1>6 DEF RemoveSession, At, Runs, Running, Pcs
<1>8. dir' = NoDir
  <2>1. dir.helpers = FALSE
    BY <1>1, <1>7 DEF Sound, StillThere, Knows, IInv, TypeOK, Dir
  <2> QED BY <1>6, <2>1 DEF RemoveSession, NoDir
<1>9. NoneListens'
  BY <1>1, <1>6, <1>7 DEF Asked, SilentCalls, Silent, NoneListens, RemoveSession
<1>10. \A d \in Calls : call'[d].pc \notin Running
  <2>1. \A d \in Calls : d # c => ~Runs(d) /\ call'[d] = call[d]
    BY <1>1, <1>5, <1>7, OneRuns, CallMoves DEF TurnAndOnce
  <2> QED BY <1>3, <2>1 DEF Runs, Running
<1> QED BY <1>8, <1>9, <1>10

-----------------------------------------------------------------------------
(* The theorems on what is stored.                                           *)

(* At first nothing is stored.                                             *)
LEMMA WholeInit == Init => WholeInv
<1> SUFFICES ASSUME Init PROVE WholeInv
  OBVIOUS
<1>1. /\ \A c \in Calls : call[c].pc = "idle" /\ call[c].kind = "none"
      /\ broker = <<>> /\ dir = NoDir /\ DOMAIN broker = {}
  BY DEF Init, NoCall
<1>2. /\ dir.evidence = <<>> /\ dir.summary.status = "none" /\ dir.meta = "none"
  BY <1>1 DEF NoDir, NoSummary
<1>3. Stored
  BY <1>1, <1>2 DEF Stored, ListensInRoot, LoggedWhole, StoppedWhole, SealedStopped
<1>4. Asked
  BY <1>1 DEF Asked, SilentCalls, Silent, KnowsSummary
<1>5. DiscardedStays
  BY <1>1 DEF DiscardedStays, Discarded
<1> QED BY <1>3, <1>4, <1>5 DEF WholeInv

(* What is stored, what calls know of it, and what a discard leaves, in    *)
(* every state of an orderly client.                                       *)
THEOREM StoredInvariant == ASSUME Orderly PROVE Spec => []SessionInv
<1>1. Init => WholeInv
  BY WholeInit
<1>2. TurnAndOnce /\ TurnAndOnce' /\ ContractInv /\ ContractInv' /\ WholeInv /\ [Next]_vars
        => WholeInv'
  <2> SUFFICES ASSUME TurnAndOnce, ContractInv, WholeInv, [Next]_vars PROVE WholeInv'
    OBVIOUS
  <2>1. SessionInv
    BY DEF SessionInv
  <2> QED BY <2>1, NextWhole, NothingComesBack, DiscardLeavesNothing DEF WholeInv
<1> QED BY <1>1, <1>2, OrderlyInvariant, ContractInvariant, PTL DEF Spec, SessionInv

(* What is sealed is one whole successful capture, and stays so: no later  *)
(* failure, no second broker, no recovery and no crash replaces its        *)
(* summary or adds to its frames (seal in src/session/index.ts, the        *)
(* broker's state file and summary in mcp/capture-broker.ts).              *)
THEOREM SealedStaysWhole == ASSUME Orderly PROVE Spec => []SealedIsWhole
<1>1. SessionInv => SealedIsWhole
  BY DEF SessionInv, WholeInv, Stored, SealedStopped, StoppedWhole, SealedIsWhole
<1> QED BY <1>1, StoredInvariant, PTL

(* After an answered discard no file of the session is left and no broker  *)
(* listens, and nothing comes back (discard in src/session/index.ts and    *)
(* session-store-service.ts).                                              *)
THEOREM DiscardLeavesNone == ASSUME Orderly PROVE Spec => []DiscardIsFinal
<1>1. SessionInv => DiscardIsFinal
  BY DEF SessionInv, WholeInv, DiscardedStays, Discarded, NoneListens, DiscardIsFinal
<1> QED BY <1>1, StoredInvariant, PTL
=============================================================================
