------------------------------ MODULE Timeline ------------------------------
(***************************************************************************)
(* The two timelines a recording is given.  The compiler lays the frames   *)
(* of a session's event stream on a constant frame rate, picks the zooms   *)
(* and judges the result (src/compiler, src/timeline).  The renderer of a  *)
(* sealed session lays the broker's frames on one by their receipts and    *)
(* looks in the video for the visible result of every observed action      *)
(* (src/render/sealed-session.ts).                                         *)
(*                                                                         *)
(* Time is counted in ticks, Second of them to a second.  An image is a    *)
(* number; two images differ visibly when they are ChangeThreshold apart.  *)
(***************************************************************************)
EXTENDS FrameTime, Sequences, FiniteSets, SequencesExt

CONSTANTS Fps,              \* output frames to the second
          Separation,       \* minSeparationUs of two zooms
          CadenceGap,       \* cadenceGapUs
          PreWindow, ResultWindow, FinalHold,
          ChangeThreshold,  \* VISIBLE_CHANGE_THRESHOLD
          Streams,          \* [events, hashes]: the event streams to compile
          Captures,         \* [frames, actions]: the captures to render
          Collation         \* where localeCompare puts the id of an event's number

VARIABLES recording,        \* what is laid on a timeline
          timeline          \* the result; its state is "none" before

timelineVars == <<recording, timeline>>

Absent == -1    \* a slot without a frame, a frame without a receipt

Rising(s) == \A i \in 2..Len(s) : s[i - 1] < s[i]
Times(s) == [i \in DOMAIN s |-> s[i].at]
RefusedInput == [state |-> "refused"]

(* The events of a session and the frames of a capture are typed, and the  *)
(* ids of two events differ when their numbers do.                         *)
StreamTyped(events) ==
  /\ events \in Seq(ToSet(events))
  /\ \A e \in ToSet(events) :
       e.seq \in DOMAIN Collation /\ e.at \in Nat /\ (e.type = "frame" => e.id \in Nat)

CaptureTyped(frames, actions) ==
  /\ frames \in Seq([at : Nat \cup {Absent}, image : Nat])
  /\ actions \in Seq(Nat)

ASSUME TimelineConstants ==
  /\ {Fps, ChangeThreshold} \subseteq Nat \ {0}
  /\ {Separation, CadenceGap, PreWindow, ResultWindow, FinalHold} \subseteq Nat
  /\ \A m \in DOMAIN Collation : m \in Nat /\ Collation[m] \in Nat
  /\ \A m, n \in DOMAIN Collation : Collation[m] = Collation[n] => m = n
  /\ \A s \in Streams : StreamTyped(s.events)
  /\ \A c \in Captures : CaptureTyped(c.frames, c.actions)

(***************************************************************************)
(* normalizeFrameGrid: a slot shows the last frame at or before its time.  *)
(***************************************************************************)
SlotTime(i) == ((i - 1) * Second) \div Fps

(* The number of frames at or before a moment, which is the active index.  *)
ActiveIndex_Before(frames, t) == Cardinality({k \in DOMAIN frames : frames[k].at < t})
ActiveIndex(frames, t) == Cardinality({k \in DOMAIN frames : frames[k].at <= t})

FrameGrid(frames, duration) ==
  [i \in 1..((duration * Fps + Second - 1) \div Second) |->
     LET active == ActiveIndex(frames, SlotTime(i))
     IN  [at       |-> SlotTime(i),
          frame    |-> IF active = 0 THEN Absent ELSE frames[active].id,
          distinct |-> active > 0 /\ (i = 1 \/ ActiveIndex(frames, SlotTime(i - 1)) # active)]]

CadenceGaps(frames) ==
  {i \in 2..Len(frames) : frames[i].at - frames[i - 1].at > CadenceGap}

(***************************************************************************)
(* selectZoomCandidates: by score, then by the text of the identifier; a   *)
(* candidate too near one already selected loses to the first such.        *)
(***************************************************************************)
Score == [marker |-> 4, click |-> 3, scroll |-> 1]

(* A marker has a place only once the cursor is known, from a pointer or a *)
(* click before it.                                                        *)
ZoomCandidates(events) ==
  LET Known(i) == \E k \in 1..(i - 1) : events[k].type \in {"pointer", "click"}
  IN  {[seq |-> events[i].seq, at |-> events[i].at, kind |-> events[i].type] :
         i \in {k \in DOMAIN events : \/ events[k].type \in {"click", "scroll"}
                                      \/ events[k].type = "marker" /\ Known(k)}}

Outranks_Lowest(c, d) ==
  Score[c.kind] < Score[d.kind] \/ (Score[c.kind] = Score[d.kind] /\ Collation[c.seq] < Collation[d.seq])

Outranks(c, d) ==
  Score[c.kind] > Score[d.kind] \/ (Score[c.kind] = Score[d.kind] /\ Collation[c.seq] < Collation[d.seq])

Ranked(candidates) ==
  [i \in 1..Cardinality(candidates) |->
     CHOOSE c \in candidates : Cardinality({b \in candidates : Outranks(b, c)}) = i - 1]

Near(c, d) == Abs(c.at - d.at) < Separation

Consider(selected, c) ==
  LET rivals == {j \in DOMAIN selected : Near(selected[j].zoom, c)}
      first  == CHOOSE j \in rivals : \A k \in rivals : j <= k
  IN  IF rivals = {} THEN Append(selected, [zoom |-> c, wonAgainst |-> {}])
      ELSE [selected EXCEPT ![first].wonAgainst = @ \cup {c}]

Selected(ranked) ==
  LET upTo[i \in 0..Len(ranked)] == IF i = 0 THEN <<>> ELSE Consider(upTo[i - 1], ranked[i])
  IN  upTo[Len(ranked)]

SelectZooms(candidates) == ToSet(Selected(Ranked(candidates)))

(***************************************************************************)
(* compileRecording: every hash matches exactly one frame event, every     *)
(* navigation is to an approved origin, and the verdict is "blocked" when  *)
(* a slot has no frame or the capture was unhealthy.                       *)
(***************************************************************************)
Places(events, kind) == {i \in DOMAIN events : events[i].type = kind}
OfType(events, kind) ==
  [n \in 1..Cardinality(Places(events, kind)) |->
     events[CHOOSE i \in Places(events, kind) :
              Cardinality({j \in Places(events, kind) : j < i}) = n - 1]]

StreamFits(events, hashes) ==
  LET frames == OfType(events, "frame")
  IN  /\ events # <<>> /\ hashes # {}
      /\ \A g, h \in hashes : g.id = h.id => g = h
      /\ Rising([i \in DOMAIN events |-> events[i].seq])
      /\ \A i \in 2..Len(events) : events[i - 1].at <= events[i].at
      /\ {[id |-> frames[i].id, image |-> frames[i].image] : i \in DOMAIN frames} = hashes
      /\ Cardinality(hashes) = Len(frames)
      /\ \A i \in DOMAIN events : events[i].type = "navigation" => events[i].approved
      /\ Rising(Times(frames))

Verdict(events, slots) ==
  LET health == OfType(events, "capture_health")
  IN  IF \/ \E i \in DOMAIN slots : slots[i].frame = Absent
         \/ \E i \in DOMAIN health : health[i].overload
        THEN "blocked" ELSE "ready"

Compile ==
  /\ timeline.state = "none"
  /\ recording.kind = "stream"
  /\ LET events == recording.events
         frames == OfType(events, "frame")
         slots  == FrameGrid(frames, Last(events).at + 1)
     IN  timeline' = IF ~StreamFits(events, recording.hashes) THEN RefusedInput
                     ELSE [state  |-> "compiled",
                           slots  |-> slots,
                           zooms  |-> SelectZooms(ZoomCandidates(events)),
                           gaps   |-> CadenceGaps(frames),
                           status |-> Verdict(events, slots)]
  /\ UNCHANGED recording

(***************************************************************************)
(* cfrFrames: a slot shows the frame received nearest to its time, the     *)
(* earlier one of two; the last frame gets a slot of its own if it has     *)
(* none.  Captures without receipts give every frame one slot.             *)
(***************************************************************************)
Nearest(frames, t) ==
  CHOOSE i \in DOMAIN frames : \A k \in DOMAIN frames :
     \/ Abs(frames[i].at - t) < Abs(frames[k].at - t)
     \/ Abs(frames[i].at - t) = Abs(frames[k].at - t) /\ i <= k

ReceiptSlots(frames) ==
  LET count == (Last(frames).at * Fps) \div Second + 1
      slots == [i \in 1..count |-> [at    |-> Round((i - 1) * Second, Fps),
                                    frame |-> Nearest(frames, Round((i - 1) * Second, Fps))]]
  IN  IF slots[count].frame = Len(frames) THEN slots
      ELSE Append(slots, [at |-> Round(count * Second, Fps), frame |-> Len(frames)])

OrderedSlots(frames) ==
  [i \in DOMAIN frames |-> [at |-> Round((i - 1) * Second, Fps), frame |-> i]]

(***************************************************************************)
(* assessActionAlignment: from the last slot before the action, the first  *)
(* slot after it, and after the slot nearest to it, that shows a visibly   *)
(* different image within the window and long enough before the end.       *)
(***************************************************************************)
NearestSlot(slots, t) ==
  CHOOSE i \in DOMAIN slots : \A k \in DOMAIN slots :
     \/ Abs(slots[i].at - t) < Abs(slots[k].at - t)
     \/ Abs(slots[i].at - t) = Abs(slots[k].at - t) /\ i <= k

PreSlots(slots, action) == {i \in DOMAIN slots : slots[i].at < action /\ slots[i].at >= action - PreWindow}

PreSlot_First(slots, action) ==
  CHOOSE i \in PreSlots(slots, action) : \A k \in PreSlots(slots, action) : i <= k

PreSlot(slots, action) ==
  CHOOSE i \in PreSlots(slots, action) : \A k \in PreSlots(slots, action) : k <= i

ResultSlots(frames, slots, action) ==
  LET before == frames[slots[PreSlot(slots, action)].frame].image
  IN  {i \in (NearestSlot(slots, action) + 1)..Len(slots) :
         /\ slots[i].at > action /\ slots[i].at <= action + ResultWindow
         /\ Abs(frames[slots[i].frame].image - before) >= ChangeThreshold}

Assessment(frames, slots, action) ==
  IF PreSlots(slots, action) = {} \/ ResultSlots(frames, slots, action) = {}
    THEN [action |-> action, status |-> "fail"]
    ELSE LET results == ResultSlots(frames, slots, action)
             result  == CHOOSE i \in results : \A k \in results : i <= k
         IN  [action |-> action, pre |-> PreSlot(slots, action), result |-> result,
              status |-> IF Last(slots).at - slots[result].at >= FinalHold THEN "pass" ELSE "fail"]

(* Either every frame has a receipt or none has; receipts begin at zero.   *)
FramesFit(frames) ==
  /\ frames # <<>>
  /\ \/ \A i \in DOMAIN frames : frames[i].at = Absent
     \/ /\ \A i \in DOMAIN frames : frames[i].at # Absent
        /\ frames[1].at = 0
        /\ Rising(Times(frames))

ActionsFit(actions) == Rising(actions)

RenderSealed ==
  /\ timeline.state = "none"
  /\ recording.kind = "capture"
  /\ LET frames  == recording.frames
         actions == recording.actions
         timed   == frames[1].at # Absent
         slots   == IF timed THEN ReceiptSlots(frames) ELSE OrderedSlots(frames)
         found   == IF timed THEN [i \in DOMAIN actions |-> Assessment(frames, slots, actions[i])] ELSE <<>>
     IN  timeline' = IF ~(FramesFit(frames) /\ ActionsFit(actions)) THEN RefusedInput
                     ELSE [state     |-> "rendered",
                           slots     |-> slots,
                           found     |-> found,
                           alignment |-> IF /\ actions # <<>> /\ Len(found) = Len(actions)
                                            /\ \A i \in DOMAIN found : found[i].status = "pass"
                                           THEN "pass" ELSE "fail"]
  /\ UNCHANGED recording

TimelineInit ==
  /\ \/ \E s \in Streams : recording = [kind |-> "stream", events |-> s.events, hashes |-> s.hashes]
     \/ \E c \in Captures : recording = [kind |-> "capture", frames |-> c.frames, actions |-> c.actions]
  /\ timeline = [state |-> "none"]

TimelineNext == Compile \/ RenderSealed

TimelineSpec == TimelineInit /\ [][TimelineNext]_timelineVars

(***************************************************************************)
(* The properties.                                                         *)
(***************************************************************************)

(* No slot of a compiled timeline is late or early: it shows a frame that  *)
(* was there, and none that was there came later; each frame shown is      *)
(* counted as distinct once; a timeline is ready only if it shows frames   *)
(* from its first slot on.                                                 *)
GridFaithful ==
  timeline.state = "compiled" =>
     LET frames == OfType(recording.events, "frame")
         slots  == timeline.slots
         Frame(i) == CHOOSE k \in DOMAIN frames : frames[k].id = slots[i].frame
     IN  /\ Last(slots).at <= Last(recording.events).at
         /\ Last(recording.events).at * Fps < Last(slots).at * Fps + Fps + Second
         /\ \A i \in DOMAIN slots :
              IF slots[i].frame = Absent
                THEN timeline.status = "blocked" /\ \A k \in DOMAIN frames : frames[k].at > slots[i].at
                ELSE /\ frames[Frame(i)].at <= slots[i].at
                     /\ \A k \in DOMAIN frames : frames[k].at <= slots[i].at => frames[k].at <= frames[Frame(i)].at
         /\ Cardinality({i \in DOMAIN slots : slots[i].distinct})
              = Cardinality({slots[i].frame : i \in DOMAIN slots} \ {Absent})

(* Two zooms are never closer than the separation, and a candidate that    *)
(* was dropped lost to exactly one zoom near it that ranks above it.       *)
ZoomsRanked ==
  timeline.state = "compiled" =>
     LET zooms == timeline.zooms
     IN  /\ \A z, w \in zooms : z # w => Abs(z.zoom.at - w.zoom.at) >= Separation
         /\ \A c \in ZoomCandidates(recording.events) :
              \/ \E z \in zooms : z.zoom = c
              \/ Cardinality({z \in zooms : c \in z.wonAgainst}) = 1
         /\ \A z \in zooms : \A c \in z.wonAgainst :
              /\ Abs(z.zoom.at - c.at) < Separation
              /\ Score[z.zoom.kind] >= Score[c.kind]

(* A rendered capture begins with its first frame, ends with its last and  *)
(* never goes back; a slot is at most half the gap of its frames away.     *)
SlotsInOrder ==
  timeline.state = "rendered" =>
     LET slots == timeline.slots
     IN  /\ slots[1].frame = 1
         /\ Last(slots).frame = Len(recording.frames)
         /\ \A i \in 2..Len(slots) : slots[i - 1].frame <= slots[i].frame

(* The proof an aligned video gives of an action is not older than the     *)
(* action: the frame it shows as the result was received after the last    *)
(* slot before the action, so at most one output frame before it.  It may  *)
(* have been received long after it, for the window is one of slots.       *)
ResultFollowsAction ==
  timeline.state = "rendered" /\ timeline.alignment = "pass" =>
     \A i \in DOMAIN recording.actions :
        LET proof == timeline.found[i]
            result == recording.frames[timeline.slots[proof.result].frame]
        IN  /\ result.at > timeline.slots[proof.pre].at
            /\ (recording.actions[i] - result.at) * Fps <= Second + Fps

(* What a reader of either timeline relies on.                             *)
TimelineFaithful == GridFaithful /\ ZoomsRanked /\ SlotsInOrder /\ ResultFollowsAction
=============================================================================
