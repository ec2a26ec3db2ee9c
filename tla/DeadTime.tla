------------------------------ MODULE DeadTime ------------------------------
(***************************************************************************)
(* The activity analysis that proposes what may be trimmed from a capture  *)
(* (src/analysis/dead-time.ts): the boundaries of the samples cut the      *)
(* capture into intervals, each interval is classified by its actions and  *)
(* by the pair of frames around it, and compatible neighbours are merged.  *)
(*                                                                         *)
(* A visual change is a small number; Unscored is a sample without one,    *)
(* whose change is read from the two digests.  Confidences are left out.   *)
(***************************************************************************)
EXTENDS Integers, Sequences, FiniteSets, SequencesExt

CONSTANTS Inputs,     \* [length, frames, actions, config]: the analyses asked for
          Unscored,
          FullChange  \* the score of two frames with different digests

(* The times and limits of an analysis are counted, from nothing up.       *)
Config == [opening : Nat, ending : Nat, action : Nat, click : Nat, static : Nat, reading : Nat,
           idleReview : Nat, readingReview : Nat, mergeGap : Nat]

ASSUME InputsAreTimed == \A input \in Inputs : input.length \in Nat /\ input.config \in Config

VARIABLES sampled,    \* the input
          activity    \* [state, intervals]: the result

activityVars == <<sampled, activity>>

Least(a, b) == IF a < b THEN a ELSE b
Most(a, b) == IF a < b THEN b ELSE a

config == sampled.config
ActionSet == {sampled.actions[i] : i \in DOMAIN sampled.actions}
OpeningEnd == Least(config.opening, sampled.length)
EndingStart == Most(0, sampled.length - config.ending)

Context(action) == IF action.kind \in {"click", "navigation"} THEN config.click ELSE config.action
Discrete(action) == action.kind \in {"click", "key", "navigation"}

(* Every sample lies in the capture and the samples of a list follow one   *)
(* another.                                                                *)
Follow(samples) ==
  /\ \A i \in DOMAIN samples : samples[i].at \in 0..sampled.length
  /\ \A i \in 2..Len(samples) : samples[i - 1].at < samples[i].at

InputFits ==
  /\ sampled.length >= 1
  /\ sampled.frames # <<>>
  /\ Follow(sampled.frames) /\ Follow(sampled.actions)
  /\ config.static < config.reading

(***************************************************************************)
(* buildIntervals: the intervals lie between neighbouring boundaries.      *)
(***************************************************************************)
Boundaries ==
  {0, sampled.length, OpeningEnd, EndingStart}
  \cup {sampled.frames[i].at : i \in DOMAIN sampled.frames}
  \cup {Most(0, a.at - Context(a)) : a \in ActionSet}
  \cup {Least(sampled.length, a.at + Context(a)) : a \in ActionSet}

(* scoreForWindow: the last frame at or before the start, the first after. *)
Before(start) == {i \in DOMAIN sampled.frames : sampled.frames[i].at <= start}
Bracketed(start) == Before(start) # {} /\ Before(start) # DOMAIN sampled.frames

ChangeFrom(start) ==
  LET prior == sampled.frames[Cardinality(Before(start))]
      next  == sampled.frames[Cardinality(Before(start)) + 1]
  IN  IF ~Bracketed(start) THEN 0
      ELSE IF next.change # Unscored THEN next.change
      ELSE IF prior.image = next.image THEN 0 ELSE FullChange

(* actionOverlaps: its context reaches into the interval. *)
ActionOverlaps_Itself(action, start, end) == action.at > start /\ action.at < end

ActionOverlaps(action, start, end) ==
  action.at + Context(action) > start /\ action.at - Context(action) < end

(* Evidence as the proposal counts it: samples in the interval, and a pair *)
(* of frames that did not change.                                          *)
Interval(start, end) ==
  LET protected == start < OpeningEnd \/ end > EndingStart
      matching  == {a \in ActionSet : ActionOverlaps(a, start, end)}
      change    == ChangeFrom(start)
      class     == IF \/ protected
                      \/ \E a \in matching : Discrete(a)
                      \/ change > config.reading THEN "active"
                   ELSE IF matching # {} \/ change > config.static THEN "static-reading"
                   ELSE "idle"
      enough    == IF class = "idle" THEN config.idleReview ELSE config.readingReview
  IN  [start |-> start, end |-> end, class |-> class,
       static |-> IF Bracketed(start) /\ change <= config.static THEN 1 ELSE 0,
       action |-> IF class # "active" /\ Bracketed(start) /\ end - start >= enough
                    THEN "review-trim" ELSE "keep",
       protected |-> protected, supported |-> Bracketed(start)]

BuildIntervals ==
  LET Cut(i) == CHOOSE b \in Boundaries : Cardinality({c \in Boundaries : c < b}) = i
  IN  [i \in 1..(Cardinality(Boundaries) - 1) |-> Interval(Cut(i - 1), Cut(i))]

(***************************************************************************)
(* mergeCompatibleIntervals.                                               *)
(***************************************************************************)
Compatible(a, b) ==
  /\ a.class = b.class /\ a.action = b.action /\ a.supported = b.supported
  /\ b.start - a.end <= config.mergeGap
  /\ ~a.protected /\ ~b.protected

Merge(merged, next) ==
  IF merged # <<>> /\ Compatible(Last(merged), next)
  THEN Append(Front(merged), [Last(merged) EXCEPT !.end = next.end, !.static = @ + next.static])
  ELSE Append(merged, next)

Merged(intervals) ==
  LET upTo[i \in 0..Len(intervals)] ==
        IF i = 0 THEN <<>> ELSE Merge(upTo[i - 1], intervals[i])
  IN  upTo[Len(intervals)]

Analyze ==
  /\ activity.state = "none"
  /\ activity' = IF InputFits
                   THEN [state |-> "analysed", intervals |-> Merged(BuildIntervals)]
                   ELSE [state |-> "refused", intervals |-> <<>>]
  /\ UNCHANGED sampled

ActivityInit ==
  /\ sampled \in Inputs
  /\ activity = [state |-> "none", intervals |-> <<>>]

ActivityNext == Analyze

ActivitySpec == ActivityInit /\ [][ActivityNext]_activityVars

(***************************************************************************)
(* The intervals leave no moment of the capture out and none in two, and   *)
(* no moment proposed for a trim is one a viewer needs: it is not in the   *)
(* opening or the ending, not in the context of a click, a key or a        *)
(* navigation, not between frames that differ, and frames bracket it.      *)
(***************************************************************************)
Needed(t) ==
  \/ t < OpeningEnd \/ t >= EndingStart
  \/ \E a \in ActionSet : Discrete(a) /\ t >= a.at - Context(a) /\ t < a.at + Context(a)
  \/ ~Bracketed(t)
  \/ ChangeFrom(t) > config.reading

TrimsSpareTheActive ==
  activity.state = "analysed" =>
     LET found == activity.intervals
     IN  /\ \A t \in 0..(sampled.length - 1) :
              Cardinality({i \in DOMAIN found : found[i].start <= t /\ t < found[i].end}) = 1
         /\ \A i \in DOMAIN found : found[i].action = "review-trim" =>
              /\ \A t \in found[i].start..(found[i].end - 1) : ~Needed(t)
              /\ found[i].end - found[i].start >= Least(config.idleReview, config.readingReview)
=============================================================================
