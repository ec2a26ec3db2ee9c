--------------------------- MODULE ProjectDocument ---------------------------
(***************************************************************************)
(* The project document: what src/src/project/recording-project.ts and     *)
(* project-sections.ts accept, how a first-version document migrates, how  *)
(* a revision is taken, and how recording-profile.ts applies a profile.    *)
(*                                                                         *)
(* Only what the checks relate is kept: ids, references, intervals in      *)
(* units of 100 ms, digests, kinds.  Texts, colours, geometry and the      *)
(* choice among fixed literals are checked one by one in the code and      *)
(* depend on nothing else.  A media id is the tuple of its parts, for      *)
(* migration makes some up; version-2 fields of a version-1 document are   *)
(* empty.                                                                  *)
(***************************************************************************)
EXTENDS Integers, FiniteSets, Sequences, SequencesExt

CONSTANTS
  Openings,      \* the version-1 documents a project may begin with
  Profiles,      \* the snapshots of the profiles that can be applied
  Clean,         \* the profile a migrated document has
  Trims,         \* audio trims and clip ends a sent revision may set
  MaxRevisions,  \* bound on the revisions of one run
  NoProject      \* what is stored before the project is created

VARIABLES
  document,   \* the stored project
  opening,    \* the project at its first revision
  automatic   \* automated revisions taken so far

documentVars == <<document, opening, automatic>>

LongestMedia == 864000      \* 24 hours
LongestFade == 20
LongestTransition == 20
MaxAutomatedRevisions == 16

Larger(m, n) == IF m > n THEN m ELSE n
IdsOf(s) == [i \in DOMAIN s |-> s[i].id]
Unique(s) == IsInjective(s)
Find(s, id) == CHOOSE x \in ToSet(s) : x.id = id
Knows(s, id) == \E x \in ToSet(s) : x.id = id

-----------------------------------------------------------------------------
(* What a parsed project holds. *)

TimeRange == [start : Int, end : Int]
MediaIds == Seq(STRING) \cup {"legacy"} \X {"audio", "image"} \X STRING
TransitionFamilies ==
  {"cut", "crossfade", "dip-to-color", "wipe-left", "wipe-right", "slide-left", "slide-right"}
Roles == {"primary", "bed", "effect"}
Duckings == {"none", "against-primary"}

\* validateRecordingProfileSnapshot: what a profile says of transitions and audio.
SnapshotType ==
  [format : {"mp4", "gif"}, family : TransitionFamilies, duration : 0..LongestTransition,
   role : Roles, fadeIn : 0..LongestFade, fadeOut : 0..LongestFade, ducking : Duckings]

SnapshotOK(profile) ==
  /\ profile \in SnapshotType
  /\ (profile.family = "cut") <=> (profile.duration = 0)
  /\ profile.role = "primary" => profile.ducking = "none"

AssetType == [id : MediaIds, digest : STRING]
SourceType == [id : STRING, duration : Int]
ClipType ==
  [id : STRING, source : STRING, trim : TimeRange, speeds : Seq(TimeRange), zooms : Seq(TimeRange),
   after : [kind : {"cut", "crossfade"}, duration : Int]]
OverlayType == [id : STRING, clip : STRING, start : Int, end : Int]
TrackType == [id : STRING, asset : AssetType, trim : TimeRange]
PipType == [id : STRING, asset : AssetType, clip : STRING, start : Int, end : Int]
MediaType == [id : MediaIds, digest : STRING, kind : {"audio", "image", "video"}, duration : Int]
VisualType ==
  [id : STRING, clip : STRING, start : Int, end : Int, media : MediaIds, trim : TimeRange,
   sync : {"source-time", "output-time"}]
TransitionType == [id : STRING, family : TransitionFamilies, duration : Int]
MixType ==
  [id : STRING, media : MediaIds, role : Roles, fadeIn : Int, fadeOut : Int, ducking : Duckings]

PreviewType == [status : {"not-requested", "ready", "stale", "rendered"}, revision : Int]

ProjectType ==
  [version : {1, 2}, revision : Nat, policy : [limit : Int, count : Int],
   sources : Seq(SourceType), clips : Seq(ClipType), overlays : Seq(OverlayType),
   audio : Seq(TrackType), pips : Seq(PipType), preview : PreviewType,
   profile : Seq(SnapshotType), media : Seq(MediaType), visuals : Seq(VisualType),
   transitions : Seq(TransitionType), mix : Seq(MixType)]

ASSUME DocumentConstants ==
  /\ Openings \subseteq ProjectType
  /\ \A profile \in Profiles \cup {Clean} : SnapshotOK(profile)
  /\ Trims \subseteq Nat
  /\ NoProject \notin ProjectType

-----------------------------------------------------------------------------
(* Sections of both versions. *)

InRange(i, minimum, maximum) == minimum <= i.start /\ i.start < i.end /\ i.end <= maximum

\* Regions are ordered and do not overlap.
NoOverlaps(regions) == \A i \in 2..Len(regions) : regions[i - 1].end <= regions[i].start

SourcesOK(sources) ==
  /\ Len(sources) \in 1..8 /\ Unique(IdsOf(sources))
  /\ \A s \in ToSet(sources) : s.duration >= 1

ClipOK(clip, sources) ==
  /\ Knows(sources, clip.source)
  /\ InRange(clip.trim, 0, Find(sources, clip.source).duration)
  /\ \A r \in ToSet(clip.speeds) \cup ToSet(clip.zooms) : InRange(r, clip.trim.start, clip.trim.end)
  /\ NoOverlaps(clip.speeds) /\ NoOverlaps(clip.zooms)
  /\ clip.after.duration \in 0..LongestTransition
  /\ (clip.after.kind = "cut") <=> (clip.after.duration = 0)

TimelineOK(p) ==
  /\ Len(p.clips) \in 1..32 /\ Unique(IdsOf(p.clips))
  /\ \A c \in ToSet(p.clips) : ClipOK(c, p.sources)

ClipLength(p, id) == LET trim == Find(p.clips, id).trim IN trim.end - trim.start
OnClip(p, item) == Knows(p.clips, item.clip) /\ InRange(item, 0, ClipLength(p, item.clip))

OverlaysOK(p) == Unique(IdsOf(p.overlays)) /\ \A o \in ToSet(p.overlays) : OnClip(p, o)

TracksOK(p) ==
  /\ Len(p.audio) <= 16 /\ Unique(IdsOf(p.audio))
  /\ \A t \in ToSet(p.audio) : 0 <= t.trim.start /\ t.trim.start < t.trim.end
  /\ Len(p.pips) <= 8 /\ Unique(IdsOf(p.pips))
  /\ \A t \in ToSet(p.pips) : OnClip(p, t)

PreviewOK(p) == p.preview.status # "not-requested" => p.preview.revision <= p.revision

PolicyOK(policy) ==
  policy.limit \in 0..MaxAutomatedRevisions /\ policy.count \in 0..policy.limit

BaseOK(p) ==
  /\ PolicyOK(p.policy) /\ SourcesOK(p.sources) /\ TimelineOK(p)
  /\ OverlaysOK(p) /\ TracksOK(p) /\ PreviewOK(p)

-----------------------------------------------------------------------------
(* Sections of version 2. *)

MediaOK(media) ==
  /\ Len(media) <= 32 /\ Unique(IdsOf(media))
  /\ \A m \in ToSet(media) : m.duration \in 1..LongestMedia

HasMedia(p, id, kinds) == Knows(p.media, id) /\ Find(p.media, id).kind \in kinds

AssetOK(p, asset, kind) ==
  HasMedia(p, asset.id, {kind}) /\ Find(p.media, asset.id).digest = asset.digest

VisualOK(p, track) ==
  /\ OnClip(p, track)
  /\ HasMedia(p, track.media, {"image", "video"})
  /\ InRange(track.trim, 0, Find(p.media, track.media).duration)
  /\ track.sync = "source-time" => track.trim.end - track.trim.start = track.end - track.start

TransitionOK(p, transition) ==
  /\ Knows(p.clips, transition.id)
  /\ transition.duration \in 0..LongestTransition
  /\ (transition.family = "cut") <=> (transition.duration = 0)
  /\ Find(p.clips, transition.id).after =
       [kind |-> IF transition.family = "cut" THEN "cut" ELSE "crossfade",
        duration |-> transition.duration]

MixTrackOK(p, mix) ==
  /\ Knows(p.audio, mix.id)
  /\ LET track == Find(p.audio, mix.id)
     IN /\ HasMedia(p, mix.media, {"audio"})
        /\ track.asset = [id |-> mix.media, digest |-> Find(p.media, mix.media).digest]
        /\ mix.fadeIn \in 0..LongestFade /\ mix.fadeOut \in 0..LongestFade
        /\ mix.fadeIn + mix.fadeOut <= track.trim.end - track.trim.start
  /\ mix.role = "primary" => mix.ducking = "none"

MixOK(p) ==
  /\ Unique(IdsOf(p.mix)) /\ Len(p.mix) = Len(p.audio)
  /\ \A m \in ToSet(p.mix) : MixTrackOK(p, m)
  /\ (\E m \in ToSet(p.mix) : m.ducking = "against-primary")
       => \E m \in ToSet(p.mix) : m.role = "primary"

EditorialOK(p) ==
  /\ MediaOK(p.media)
  /\ \A t \in ToSet(p.audio) : AssetOK(p, t.asset, "audio")
  /\ \A t \in ToSet(p.pips) : AssetOK(p, t.asset, "image")
  /\ Len(p.visuals) <= 16 /\ Unique(IdsOf(p.visuals)) /\ \A t \in ToSet(p.visuals) : VisualOK(p, t)
  /\ Unique(IdsOf(p.transitions)) /\ \A t \in ToSet(p.transitions) : TransitionOK(p, t)
  /\ MixOK(p)

\* validateRecordingProject.
ValidProject(p) == BaseOK(p) /\ (p.version = 2 => EditorialOK(p))

-----------------------------------------------------------------------------
(* Migration. Media are told apart by kind, id and digest; an id that is   *)
(* taken gives way to one made of the kind and the digest.                 *)

Asset(kind, track, last) ==
  [kind |-> kind, asset |-> track.asset, duration |-> Larger(1, last)]

\* Every use of a legacy asset, in the order they are met.
Uses(p) ==
  [i \in DOMAIN p.audio |-> Asset("audio", p.audio[i], p.audio[i].trim.end)]
    \o [i \in DOMAIN p.pips |-> Asset("image", p.pips[i], p.pips[i].end - p.pips[i].start)]

SameMedia(m, use) == m.kind = use.kind /\ m.asset = use.asset

\* Mutant: the first use of an asset decides its duration.
AddUse_FirstDuration(media, use) ==
  IF \E i \in DOMAIN media : SameMedia(media[i], use)
  THEN media
  ELSE Append(media, [id |-> IF Knows(media, use.asset.id) THEN <<"legacy", use.kind, use.asset.digest>>
                             ELSE use.asset.id,
                      kind |-> use.kind, asset |-> use.asset, duration |-> use.duration])

AddUse(media, use) ==
  IF \E i \in DOMAIN media : SameMedia(media[i], use)
  THEN [i \in DOMAIN media |->
         IF SameMedia(media[i], use)
         THEN [media[i] EXCEPT !.duration = Larger(@, use.duration)] ELSE media[i]]
  ELSE Append(media, [id |-> IF Knows(media, use.asset.id) THEN <<"legacy", use.kind, use.asset.digest>>
                             ELSE use.asset.id,
                      kind |-> use.kind, asset |-> use.asset, duration |-> use.duration])

LegacyMedia(p) ==
  LET upTo[i \in 0..Len(Uses(p))] == IF i = 0 THEN <<>> ELSE AddUse(upTo[i - 1], Uses(p)[i])
  IN  upTo[Len(Uses(p))]

MediaId(p, kind, asset) ==
  (CHOOSE m \in ToSet(LegacyMedia(p)) : m.kind = kind /\ m.asset = asset).id

Migrated(p) ==
  [p EXCEPT
    !.version = 2, !.profile = <<Clean>>,
    !.media = [i \in DOMAIN LegacyMedia(p) |->
                [id |-> LegacyMedia(p)[i].id, digest |-> LegacyMedia(p)[i].asset.digest,
                 kind |-> LegacyMedia(p)[i].kind, duration |-> LegacyMedia(p)[i].duration]],
    !.visuals = [i \in DOMAIN p.pips |->
                  [id |-> p.pips[i].id, clip |-> p.pips[i].clip, start |-> p.pips[i].start,
                   end |-> p.pips[i].end, media |-> MediaId(p, "image", p.pips[i].asset),
                   trim |-> [start |-> 0, end |-> p.pips[i].end - p.pips[i].start],
                   sync |-> "source-time"]],
    !.transitions = [i \in DOMAIN p.clips |->
                      [id |-> p.clips[i].id, family |-> p.clips[i].after.kind,
                       duration |-> p.clips[i].after.duration]],
    !.mix = [i \in DOMAIN p.audio |->
              [id |-> p.audio[i].id, media |-> MediaId(p, "audio", p.audio[i].asset),
               role |-> IF i = 1 THEN "primary" ELSE "bed",
               fadeIn |-> 0, fadeOut |-> 0, ducking |-> "none"]]]

AsVersion2(p) == IF p.version = 1 THEN Migrated(p) ELSE p

-----------------------------------------------------------------------------
(* reviseRecordingProject: whether next may replace current, and the       *)
(* preview it then has.                                                    *)

\* An automated revision takes one from the budget.
Cost(mode) == IF mode = "automated" THEN 1 ELSE 0

MayRevise(current, next, mode) ==
  /\ ValidProject(next) /\ next.version >= current.version
  /\ next.sources = current.sources /\ next.revision = current.revision + 1
  /\ next.policy = [current.policy EXCEPT !.count = @ + Cost(mode)]

Revised(current, next) ==
  [next EXCEPT !.preview =
     IF next.preview = [status |-> "rendered", revision |-> next.revision] THEN @
     ELSE [status |-> "stale", revision |-> current.revision]]

-----------------------------------------------------------------------------
(* applyRecordingProfile. *)

\* The first track stays, or becomes, the one the others duck against.
ProfiledMix(mix, i, profile) ==
  LET retain == i = 1 /\ profile.role # "primary"
  IN [mix EXCEPT !.role = IF retain THEN "primary" ELSE profile.role,
                 !.ducking = IF retain THEN "none" ELSE profile.ducking,
                 !.fadeIn = profile.fadeIn, !.fadeOut = profile.fadeOut]

\* The profile's transition after every clip but the last.
ProfiledFamily(p, i, profile) == IF i = Len(p.clips) THEN "cut" ELSE profile.family
ProfiledDuration(p, i, profile) == IF i = Len(p.clips) THEN 0 ELSE profile.duration

Profiled(p, profile, mode) ==
  [p EXCEPT
    !.revision = @ + 1, !.profile = <<profile>>,
    !.policy.count = @ + Cost(mode),
    !.clips = [i \in DOMAIN @ |-> [@[i] EXCEPT !.after =
                [kind |-> IF ProfiledFamily(p, i, profile) = "cut" THEN "cut" ELSE "crossfade",
                 duration |-> ProfiledDuration(p, i, profile)]]],
    !.transitions = [i \in DOMAIN p.clips |->
                      [id |-> p.clips[i].id, family |-> ProfiledFamily(p, i, profile),
                       duration |-> ProfiledDuration(p, i, profile)]],
    !.mix = [i \in DOMAIN @ |-> ProfiledMix(@[i], i, profile)]]

HasGifAudio(p, profile) == profile.format = "gif" /\ p.audio # <<>>

CanApply(p, profile, mode) ==
  /\ ValidProject(AsVersion2(p)) /\ ~HasGifAudio(p, profile)
  /\ MayRevise(AsVersion2(p), Profiled(AsVersion2(p), profile, mode), mode)

-----------------------------------------------------------------------------
(* The operations of a project. *)

DocumentInit == document = NoProject /\ opening = NoProject /\ automatic = 0

CreateProject ==
  /\ document = NoProject
  /\ opening' \in Openings /\ ValidProject(opening')
  /\ document' = opening'
  /\ UNCHANGED automatic

ApplyProfile ==
  /\ document # NoProject /\ document.revision < MaxRevisions
  /\ \E profile \in Profiles, mode \in {"manual", "automated"} :
       /\ CanApply(document, profile, mode)
       /\ document' = Revised(AsVersion2(document), Profiled(AsVersion2(document), profile, mode))
       /\ automatic' = automatic + Cost(mode)
  /\ UNCHANGED opening

\* A revision sent by the client: a clip or an audio track gets another end, a track or
\* the last clip goes, or the preview is said to be rendered.
Edits(p) ==
  {[p EXCEPT !.clips[Len(p.clips)].trim.end = t] : t \in Trims}
    \cup {[p EXCEPT !.clips = Front(@), !.transitions = IF p.version = 2 THEN Front(@) ELSE @]}
    \cup {[p EXCEPT !.audio[1].trim.end = t] : t \in IF p.audio = <<>> THEN {} ELSE Trims}
    \cup {[p EXCEPT !.audio = <<>>, !.mix = <<>>]}
    \cup {[p EXCEPT !.preview = [status |-> "rendered", revision |-> p.revision + 1]]}

Revise ==
  /\ document # NoProject /\ document.revision < MaxRevisions
  /\ \E edit \in Edits(document), mode \in {"manual", "automated"} :
       LET sent == [edit EXCEPT !.revision = @ + 1, !.policy.count = @ + Cost(mode)]
       IN /\ ValidProject(sent)
          /\ MayRevise(document, AsVersion2(sent), mode)
          /\ document' = Revised(document, AsVersion2(sent))
          /\ automatic' = automatic + Cost(mode)
  /\ UNCHANGED opening

DocumentNext == CreateProject \/ ApplyProfile \/ Revise

DocumentSpec == DocumentInit /\ [][DocumentNext]_documentVars

-----------------------------------------------------------------------------
(* Properties. *)

\* Reasons for which a version-1 document cannot migrate: an asset id that stands for
\* two assets, or media longer than the registry allows.
CannotMigrate(p) ==
  \/ \E i, j \in DOMAIN Uses(p) :
       /\ Uses(p)[i].asset.id = Uses(p)[j].asset.id
       /\ ~(Uses(p)[i].asset = Uses(p)[j].asset /\ Uses(p)[i].kind = Uses(p)[j].kind)
  \/ \E i \in DOMAIN Uses(p) : Uses(p)[i].duration > LongestMedia

TooShortFor(p, profile) ==
  \E t \in ToSet(p.audio) : t.trim.end - t.trim.start < profile.fadeIn + profile.fadeOut

\* What is stored is valid and of the captures it began with, its automated revisions are
\* counted and within their limit; and no valid project is in a dead end: it migrates
\* unless its legacy assets clash, and it takes every profile unless GIF would drop its
\* audio, a trim is too short for the fades or the automated revisions are used up.
StoredIsSound ==
  /\ ValidProject(document) /\ document.sources = opening.sources
  /\ document.policy.count = opening.policy.count + automatic

NoDeadEnd ==
  /\ document.version = 1 => (ValidProject(Migrated(document)) <=> ~CannotMigrate(document))
  /\ \A profile \in Profiles, mode \in {"manual", "automated"} :
       CanApply(document, profile, mode) <=>
         /\ document.version = 1 => ~CannotMigrate(document)
         /\ ~HasGifAudio(document, profile) /\ ~TooShortFor(document, profile)
         /\ mode = "automated" => document.policy.count < document.policy.limit

DocumentSound == document # NoProject => StoredIsSound /\ NoDeadEnd
==============================================================================
