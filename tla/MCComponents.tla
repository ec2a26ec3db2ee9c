---------------------------- MODULE MCComponents ----------------------------
(***************************************************************************)
(* Small instances of the components that keep state of their own, checked *)
(* side by side: a behaviour is one component's, the part, and the others  *)
(* rest in their initial states or with empty variables.                   *)
(***************************************************************************)
EXTENDS SessionLifecycle, MediaProcess, CaptureAdapter, BrowserCapture, CaptureMailbox,
  PrivateMedia, ProfileStore, RasterReader, BrowserObserver, DeadTime,
  EditorialProposal, ProjectDocument, Timeline, Presentation, TLC

CONSTANT Parts   \* the components to check

VARIABLE part    \* the component of the behaviour

\* The calls of a session, the media jobs and the calls of a profile store differ in
\* nothing but the order in which they begin: they begin in the order of their numbers.
Numbered(begun, calls) == \A c, d \in calls : c < d /\ d \in begun => c \in begun

(***************************************************************************)
(* Editing: one capture of twelve seconds, whole or cut in two clips that  *)
(* overlap, up to two events near the moments where clips and zooms end.   *)
(***************************************************************************)
Sec == 1000000

ReviewedProjects ==
  {[sources |-> <<12 * Sec>>, clips |-> clips, zooms |-> zooms,
    revision |-> 0, automated |-> 0, limit |-> 1] :
     clips \in {<<[id |-> 1, source |-> 1, start |-> 0, end |-> 12 * Sec]>>,
                <<[id |-> 1, source |-> 1, start |-> 0, end |-> 4 * Sec],
                  [id |-> 2, source |-> 1, start |-> 3 * Sec, end |-> 12 * Sec]>>},
     zooms \in {{}, {[clip |-> 1, start |-> 2 * Sec, end |-> 2500000]}}}

Clicks ==
  LET Click(i, t) == [id |-> i, source |-> 1, at |-> t, kind |-> "click"]
      times == {0, 750000, 1500000, 3200000, 11 * Sec, 12 * Sec}
  IN  {{}} \cup {{Click(1, t)} : t \in times}
        \cup {{Click(1, 750000), Click(2, t)} : t \in times \ {0}}
        \cup {{Click(1, t), Click(2, 11 * Sec)} : t \in times \ {12 * Sec}}

StillIntervals ==
  {<<{i}>> : i \in {[start |-> s, end |-> 10 * Sec, action |-> a, static |-> n] :
                      s \in {0, 4 * Sec}, a \in {"keep", "review-trim"}, n \in {0, 1}}}

ByHand == {-1000000, 500000}

(***************************************************************************)
(* Project documents: one clip or two joined by a crossfade, an overlay,   *)
(* audio that reuses an asset or its identifier, and a picture in picture. *)
(***************************************************************************)
JoinedBy(d) == [kind |-> IF d = 0 THEN "cut" ELSE "crossfade", duration |-> d]
DocumentClip(id, s, e, zooms, d) ==
  [id |-> id, source |-> "s1", trim |-> [start |-> s, end |-> e],
   speeds |-> <<>>, zooms |-> zooms, after |-> JoinedBy(d)]
Audio(id, a, d, s, e) ==
  [id |-> id, asset |-> [id |-> <<a>>, digest |-> d], trim |-> [start |-> s, end |-> e]]
Pip(id, a, d) ==
  [id |-> id, asset |-> [id |-> <<a>>, digest |-> d], clip |-> "c1", start |-> 1, end |-> 4]

OpeningDocuments ==
  {[version |-> 1, revision |-> 0, policy |-> [limit |-> 1, count |-> 0],
    sources |-> <<[id |-> "s1", duration |-> 60]>>, clips |-> clips,
    overlays |-> <<[id |-> "o1", clip |-> "c1", start |-> 0, end |-> 5]>>,
    audio |-> audio, pips |-> pips, preview |-> [status |-> "not-requested", revision |-> 0],
    profile |-> <<>>, media |-> <<>>, visuals |-> <<>>, transitions |-> <<>>, mix |-> <<>>] :
     clips \in {<<DocumentClip("c1", 0, 30, <<[start |-> 2, end |-> 8]>>, 0)>>,
                <<DocumentClip("c1", 0, 10, <<>>, 3), DocumentClip("c2", 5, 40, <<>>, 0)>>},
     audio \in {<<>>, <<Audio("t1", "a1", "d1", 0, 4)>>} \cup
               {<<Audio("t1", "a1", "d1", 0, 4), Audio("t2", a, d, 2, e)>> :
                  a \in {"a1", "a2"}, d \in {"d1", "d2"}, e \in {9, 864001}},
     pips \in {<<>>, <<Pip("p1", "i1", "d3")>>, <<Pip("p1", "a1", "d1")>>}}

ProfileOf(format, family, duration, role, fadeIn, fadeOut, ducking) ==
  [format |-> format, family |-> family, duration |-> duration, role |-> role,
   fadeIn |-> fadeIn, fadeOut |-> fadeOut, ducking |-> ducking]
CleanProfile == ProfileOf("mp4", "cut", 0, "primary", 0, 0, "none")
AppliedProfiles ==
  {CleanProfile,
   ProfileOf("mp4", "crossfade", 3, "bed", 2, 3, "against-primary"),
   ProfileOf("gif", "dip-to-color", 3, "effect", 1, 1, "against-primary"),
   ProfileOf("mp4", "wipe-left", 2, "effect", 1, 1, "against-primary")}

(***************************************************************************)
(* Plans of three clips: whole or trimmed, slowed and sped up, joined by   *)
(* cuts, short crossfades and crossfades as long as a clip, with a video   *)
(* on the first; a second of twelve ticks at three and at five frames.     *)
(***************************************************************************)
PlanClip(s, e, regions, fade) == [start |-> s, end |-> e, regions |-> regions, fade |-> fade]
Speeds == <<[start |-> 4, end |-> 8, rate |-> 1], [start |-> 8, end |-> 16, rate |-> 4]>>
PlanClips ==
  {PlanClip(0, 24, <<>>, 0), PlanClip(0, 24, <<>>, 12), PlanClip(4, 16, <<>>, 6),
   PlanClip(4, 16, <<>>, 12), PlanClip(0, 16, Speeds, 5), PlanClip(4, 9, <<>>, 0)}
MediaTracks ==
  {{}} \cup {{[clip |-> 1, start |-> 2, end |-> 8, from |-> 0, to |-> 6, sync |-> sync]} :
               sync \in {"source-time", "output-time"}}
RenderPlans ==
  {[fps |-> fps, length |-> 24, clips |-> <<a, b, [c EXCEPT !.fade = 0]>>, tracks |-> tracks] :
     fps \in {3, 5}, a \in PlanClips, b \in PlanClips, c \in PlanClips, tracks \in MediaTracks}

(***************************************************************************)
(* Event streams of five events, whose numbers pass from one digit to two, *)
(* and captures of four frames around one or two actions; a second of      *)
(* twelve ticks at five frames.                                            *)
(***************************************************************************)
FrameEvent(id, s, t) == [type |-> "frame", seq |-> s, at |-> t, id |-> id, image |-> id]
OtherEvent(kind, s, t) ==
  [type |-> kind, seq |-> s, at |-> t, overload |-> t > 4, approved |-> t < 16]
EventStreams ==
  {[events |-> <<FrameEvent(1, 8, a), OtherEvent(k, 9, b), OtherEvent(l, 10, c),
                 FrameEvent(2, 11, d), OtherEvent(m, 12, d)>>,
    hashes |-> {[id |-> i, image |-> i] : i \in 1..n}] :
     a \in {0, 2}, b \in {2, 3, 4}, c \in {4, 5, 8}, d \in {9, 10, 16},
     k \in {"pointer", "click", "scroll"}, l \in {"click", "marker", "capture_health"},
     m \in {"marker", "scroll", "navigation"}, n \in {1, 2}}

\* The ids of the first 99 events compare as texts: 10 comes before 2.
AsTexts == [n \in 1..99 |-> IF n < 10 THEN 11 * n ELSE 11 * (n \div 10) + (n % 10) + 1]

ReceivedAction(t, i) == [at |-> t, image |-> i]
ReceivedCaptures ==
  {[frames |-> <<ReceivedAction(0, 0), ReceivedAction(a, j), ReceivedAction(b, 2), ReceivedAction(c, i)>>,
    actions |-> actions] :
     a \in {2, 3, 5, 6}, b \in {9, 16}, c \in {17, 20}, j \in {1, 2}, i \in {0, 2},
     actions \in {<<>>, <<4>>, <<6>>, <<8>>, <<5, 8>>}}
  \cup {[frames |-> <<ReceivedAction(Absent, 0), ReceivedAction(Absent, 1)>>, actions |-> <<2>>]}

(***************************************************************************)
(* Captures of sixteen ticks: four frames, scored or not, one or two       *)
(* actions, with contexts of nothing and of four ticks.                    *)
(***************************************************************************)
Sample(t, image, change) == [at |-> t, image |-> image, change |-> change]
Act(t, kind) == [at |-> t, kind |-> kind]
SampledCaptures ==
  {[length |-> 16,
    frames |-> <<Sample(0, 1, Unscored), Sample(a, 1, x), Sample(b, y, Unscored), Sample(15, 2, z)>>,
    actions |-> actions,
    config |-> [opening |-> 2, ending |-> 2, action |-> 1, click |-> context, static |-> 0,
                reading |-> 1, idleReview |-> 3, readingReview |-> 4, mergeGap |-> gap]] :
     a \in {2, 4, 5}, b \in {5, 9}, x \in {0, 2, Unscored}, y \in {1, 2}, z \in {1, Unscored},
     gap \in {0, 1}, context \in {0, 4},
     actions \in {<<>>, <<Act(6, "scroll"), Act(11, "navigation")>>}
                   \cup {<<Act(t, kind)>> : t \in {3, 7}, kind \in {"click", "pointer", "key"}}}

(***************************************************************************)
(* One component at a time.                                                *)
(***************************************************************************)
ComponentsInit ==
  /\ part \in Parts
  /\ Init /\ MediaInit /\ AdapterInit /\ BrowserInit /\ MailInit /\ ImportInit /\ ProfileInit
  /\ RasterInit /\ ObserverInit
  /\ part # "session" => home = CHOOSE s \in Servers : TRUE
  /\ IF part = "review" THEN ReviewInit
     ELSE /\ edited = CHOOSE project \in Projects : TRUE
          /\ observed = {} /\ analysed = 0 /\ offered = NoProposal
  /\ DocumentInit
  /\ IF part = "film" THEN PresentationInit
     ELSE plan = 0 /\ schedule = <<>> /\ shown = <<>> /\ render = 0
  /\ IF part = "timeline" THEN TimelineInit
     ELSE recording = [kind |-> "none"] /\ timeline = [state |-> "none"]
  /\ IF part = "activity" THEN ActivityInit
     ELSE sampled = 0 /\ activity = [state |-> "none", intervals |-> <<>>]

ComponentsNext ==
  /\ UNCHANGED part
  /\ IF part = "session" 
     THEN Next /\ Numbered({c \in Calls : call'[c].kind # "none"}, Calls)
     ELSE UNCHANGED vars
  /\ IF part = "media"
     THEN MediaNext /\ Numbered({j \in Jobs : job'[j] # NewJob}, Jobs)
     ELSE UNCHANGED mediaVars
  /\ IF part = "adapter" THEN AdapterNext ELSE UNCHANGED adapterVars
  /\ IF part = "browser" THEN BrowserNext ELSE UNCHANGED browserVars
  /\ IF part = "mailbox" THEN MailNext ELSE UNCHANGED mailVars
  /\ IF part = "observer" THEN ObserverNext ELSE UNCHANGED observerVars
  /\ IF part = "review" THEN ReviewNext ELSE UNCHANGED reviewVars
  /\ IF part = "library" THEN ImportNext ELSE UNCHANGED importVars
  /\ IF part = "profiles"
     THEN /\ ProfileNext
          /\ \A calls \in {Creates, Updates} :
               Numbered({c \in calls : errand'[c] # NewErrand}, calls)
     ELSE UNCHANGED profileVars
  /\ IF part = "raster" THEN RasterNext ELSE UNCHANGED rasterVars
  /\ IF part = "document" THEN DocumentNext ELSE UNCHANGED documentVars
  /\ IF part = "film" THEN PresentationNext ELSE UNCHANGED presentationVars
  /\ IF part = "timeline" THEN TimelineNext ELSE UNCHANGED timelineVars
  /\ IF part = "activity" THEN ActivityNext ELSE UNCHANGED activityVars

ComponentsVars ==
  <<part, vars, mediaVars, adapterVars, browserVars, mailVars, importVars, profileVars,
    observerVars, reviewVars, rasterVars, documentVars,
    presentationVars, timelineVars, activityVars>>

ComponentsSpec == ComponentsInit /\ [][ComponentsNext]_ComponentsVars

(***************************************************************************)
(* What the run checks besides the properties of the modules extended:     *)
(* each is stated, with the code it is about, in its own component's       *)
(* module.                                                                 *)
(***************************************************************************)

(* Every component's variables have their types.                           *)
TypesOK ==
  /\ TypeOK
  /\ MediaTypeOK /\ AdapterTypeOK /\ BrowserTypeOK /\ MailTypeOK
  /\ ImportTypeOK /\ ProfileTypeOK /\ RasterTypeOK
=============================================================================
