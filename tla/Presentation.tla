---------------------------- MODULE Presentation ----------------------------
(***************************************************************************)
(* How a composition plan becomes frames: the parts a clip's speed regions *)
(* cut it into, the schedule of the clips on the presentation's clock with *)
(* the overlap of each crossfade, and the generator that walks the         *)
(* schedule clip by clip, frame by frame (src/render/timeline-mapping.ts,  *)
(* src/render/raster-compositor.ts).                                       *)
(*                                                                         *)
(* Time is counted in ticks, Second of them to a second.  A rate is a      *)
(* number of halves (2 is real time) and a part lasts whole ticks: ramps,  *)
(* which need a logarithm, and fractions of a tick are left out.  Pixels   *)
(* are left out: a frame is the pair of clip times it shows.               *)
(***************************************************************************)
EXTENDS FrameTime, Sequences

CONSTANT Plans       \* [fps, length, clips, tracks]: the plans to render

VARIABLES plan,      \* the plan
          schedule,  \* the clips on the presentation's clock
          shown,     \* the frames yielded so far
          render     \* [state, clip, frame]: where the generator stands

presentationVars == <<plan, schedule, shown, render>>

(* A part of a clip plays at one rate; between two regions in real time.   *)
Part(start, end, rate) == [start |-> start, end |-> end, rate |-> rate]
PartType == [start : Nat, end : Nat, rate : Nat \ {0}]
Gap(start, end) == IF end > start THEN <<Part(start, end, 2)>> ELSE <<>>

(* Plans are typed, have a clip, and frames no shorter than a tick; the    *)
(* regions of a clip are in order and apart, as the stored project's are.  *)
PlanTyped(p) ==
  /\ p.fps \in 1..Second
  /\ p.clips # <<>>
  /\ p.clips \in Seq([start : Nat, end : Nat, regions : Seq(PartType), fade : Nat])
  /\ \A c \in DOMAIN p.clips : \A i \in 2..Len(p.clips[c].regions) :
       p.clips[c].regions[i - 1].end <= p.clips[c].regions[i].start

ASSUME PlansAreTyped == \A p \in Plans : PlanTyped(p)

RateParts(clip) ==
  LET Cursor(i) == IF i = 0 THEN clip.start ELSE clip.regions[i].end
      upTo[i \in 0..Len(clip.regions)] ==
        IF i = 0 THEN <<>>
        ELSE (upTo[i - 1] \o Gap(Cursor(i - 1), clip.regions[i].start)) \o <<clip.regions[i]>>
  IN  upTo[Len(clip.regions)] \o Gap(Cursor(Len(clip.regions)), clip.end)

PartDuration(part) == ((part.end - part.start) * 2) \div part.rate

(* How long the first parts play.                                          *)
Elapsed(parts) ==
  LET upTo[i \in 0..Len(parts)] == IF i = 0 THEN 0 ELSE upTo[i - 1] + PartDuration(parts[i])
  IN  upTo

RenderedDuration(clip) == Elapsed(RateParts(clip))[Len(RateParts(clip))]

(* Every whole part before the moment counts, and the begun part up to it. *)
Begun(part, source) ==
  [part EXCEPT !.end = IF source <= part.start THEN part.start
                       ELSE IF source < part.end THEN source ELSE part.end]

PresentationTime(clip, source) ==
  LET parts == RateParts(clip)
  IN  Elapsed([i \in DOMAIN parts |-> Begun(parts[i], source)])[Len(parts)]

(* The code also holds the result to the end of the part, which it cannot  *)
(* pass: the moment is within the part's duration.                         *)
SourceTime(clip, local) ==
  LET parts   == RateParts(clip)
      reached == {i \in DOMAIN parts : local <= Elapsed(parts)[i]}
      first   == CHOOSE i \in reached : \A k \in reached : i <= k
  IN  IF reached = {} THEN clip.end
      ELSE parts[first].start + Round((local - Elapsed(parts)[first - 1]) * parts[first].rate, 2)

(***************************************************************************)
(* The plan and its schedule.                                              *)
(***************************************************************************)
ClipFits(clip) ==
  /\ 0 <= clip.start /\ clip.start < clip.end /\ clip.end <= plan.length
  /\ \A i \in DOMAIN clip.regions :
       /\ clip.start <= clip.regions[i].start /\ clip.regions[i].end <= clip.end
       /\ clip.regions[i].start < clip.regions[i].end

(* The crossfade into a clip is the one its predecessor declares.          *)
Incoming(i) == IF i > 1 THEN plan.clips[i - 1].fade ELSE 0

FadeFits(i) ==
  LET fade == plan.clips[i].fade
  IN  fade > 0 => /\ i < Len(plan.clips)
                  /\ fade <= RenderedDuration(plan.clips[i])
                  /\ fade <= RenderedDuration(plan.clips[i + 1])
                  /\ fade * plan.fps >= Second

ClipSchedule ==
  LET begins[i \in DOMAIN plan.clips] ==
        IF i = 1 THEN 0
        ELSE begins[i - 1] + RenderedDuration(plan.clips[i - 1]) - plan.clips[i - 1].fade
  IN  [i \in DOMAIN plan.clips |-> [start    |-> begins[i],
                                    duration |-> RenderedDuration(plan.clips[i]),
                                    incoming |-> Incoming(i)]]

Schedule ==
  /\ render.state = "planned"
  /\ IF \A i \in DOMAIN plan.clips : ClipFits(plan.clips[i]) /\ FadeFits(i)
       THEN /\ schedule' = ClipSchedule
            /\ render' = [render EXCEPT !.state = "rendering"]
       ELSE /\ render' = [render EXCEPT !.state = "refused"]
            /\ UNCHANGED schedule
  /\ UNCHANGED <<plan, shown>>

(***************************************************************************)
(* The frames of one clip: what is left of it after the transition into    *)
(* it, rounded to whole frames, one at least.                              *)
(***************************************************************************)
FrameCount_WholeClip(i) == Round(schedule[i].duration * plan.fps, Second)

FrameCount(i) ==
  LET rounded == Round((schedule[i].duration - schedule[i].incoming) * plan.fps, Second)
  IN  IF rounded > 0 THEN rounded ELSE 1

LocalTime_FromStart(i, frame) == Round(frame * Second, plan.fps)

LocalTime(i, frame) == schedule[i].incoming + Round(frame * Second, plan.fps)

(* A crossfade shows the next clip from its start beside this one's end.   *)
Fading(i, local) ==
  /\ i < Len(plan.clips) /\ plan.clips[i].fade > 0
  /\ local >= schedule[i].duration - plan.clips[i].fade

NextLocal(i, local) == local - (schedule[i].duration - plan.clips[i].fade)

(* A visual track shows while the source is inside its range; with the     *)
(* sync of the source its media runs as the source, else as the output.    *)
Visible(track, i, local) ==
  LET relative == SourceTime(plan.clips[i], local) - plan.clips[i].start
  IN  track.clip = i /\ track.start <= relative /\ relative <= track.end

MediaTime(track, i, local) ==
  LET clip == plan.clips[i]
  IN  track.from + (IF track.sync = "source-time"
                      THEN SourceTime(clip, local) - clip.start - track.start
                      ELSE local - PresentationTime(clip, clip.start + track.start))

TracksFit(i, local) ==
  \A track \in plan.tracks : Visible(track, i, local) =>
     /\ MediaTime(track, i, local) >= track.from
     /\ MediaTime(track, i, local) <= track.to

(* What a frame shows: each clip on it, at its own local and source time.  *)
Scene(i, local) == [clip |-> i, local |-> local, source |-> SourceTime(plan.clips[i], local)]

Scenes(i, local) ==
  <<Scene(i, local)>> \o
  (IF Fading(i, local) THEN <<Scene(i + 1, NextLocal(i, local))>> ELSE <<>>)

(* A track whose media would be asked for a time outside its trim stops    *)
(* the whole render.                                                       *)
FailFrame ==
  /\ render.state = "rendering"
  /\ \E j \in DOMAIN Scenes(render.clip, LocalTime(render.clip, render.frame)) :
       LET scene == Scenes(render.clip, LocalTime(render.clip, render.frame))[j]
       IN  ~TracksFit(scene.clip, scene.local)
  /\ render' = [render EXCEPT !.state = "refused"]
  /\ UNCHANGED <<plan, schedule, shown>>

YieldFrame ==
  LET local  == LocalTime(render.clip, render.frame)
      scenes == Scenes(render.clip, local)
  IN  /\ render.state = "rendering"
      /\ \A j \in DOMAIN scenes : TracksFit(scenes[j].clip, scenes[j].local)
      /\ shown' = Append(shown, [time |-> schedule[render.clip].start + local, scenes |-> scenes])
      /\ render' = IF render.frame + 1 < FrameCount(render.clip)
                     THEN [render EXCEPT !.frame = @ + 1]
                     ELSE IF render.clip < Len(plan.clips)
                            THEN [render EXCEPT !.clip = @ + 1, !.frame = 0]
                            ELSE [render EXCEPT !.state = "rendered"]
      /\ UNCHANGED <<plan, schedule>>

PresentationInit ==
  /\ plan \in Plans
  /\ schedule = <<>>
  /\ shown = <<>>
  /\ render = [state |-> "planned", clip |-> 1, frame |-> 0]

PresentationNext == Schedule \/ FailFrame \/ YieldFrame

PresentationSpec == PresentationInit /\ [][PresentationNext]_presentationVars

(***************************************************************************)
(* The properties.                                                         *)
(***************************************************************************)
(* The picture keeps step with the sound, which is placed by presentation  *)
(* time: the n-th frame shows a time less than one frame away from its own *)
(* place for every clip begun, however the clips' lengths round.           *)
InStep ==
  \A n \in DOMAIN shown :
     Abs(shown[n].time * plan.fps - (n - 1) * Second)
       <= shown[n].scenes[1].clip * Second

(* No clip ever runs backwards: from the first frame that fades it in to   *)
(* the last that fades it out its own clock never steps back, and its      *)
(* source times stay inside its trim and map back to where it stands, up to*)
(* the tick a source time is rounded to.                                   *)
ClipsRunForward ==
  \A n \in DOMAIN shown : \A a \in DOMAIN shown[n].scenes :
     LET here == shown[n].scenes[a]
         clip == plan.clips[here.clip]
     IN  /\ clip.start <= here.source /\ here.source <= clip.end
         /\ Abs(PresentationTime(clip, here.source)
                   - (IF here.local < RenderedDuration(clip) THEN here.local
                      ELSE RenderedDuration(clip))) <= 1
         /\ n > 1 => \A b \in DOMAIN shown[n - 1].scenes :
              shown[n - 1].scenes[b].clip = here.clip => shown[n - 1].scenes[b].local <= here.local

(* A clip that fades in over two frames or more does so from its start: it *)
(* is shown for the first time at most one frame into it, if the clip      *)
(* before has room for both of its own transitions.                        *)
FadesFromStart ==
  \A n \in DOMAIN shown : \A a \in DOMAIN shown[n].scenes :
     LET i == shown[n].scenes[a].clip
         First == \A k \in 1..(n - 1) : \A b \in DOMAIN shown[k].scenes : shown[k].scenes[b].clip # i
         Roomy == schedule[i - 1].incoming + schedule[i].incoming <= schedule[i - 1].duration
     IN  First /\ i > 1 /\ Roomy /\ schedule[i].incoming * plan.fps >= 2 * Second
         => shown[n].scenes[a].local * plan.fps <= Second

(* What a viewer relies on: the picture in step with the sound, clips that *)
(* run forward, and fades that start where the next clip does.             *)
PresentationInStep == InStep /\ ClipsRunForward /\ FadesFromStart
=============================================================================
