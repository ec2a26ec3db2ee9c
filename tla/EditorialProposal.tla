-------------------------- MODULE EditorialProposal --------------------------
(***************************************************************************)
(* Editorial suggestions for a project: src/src/analysis/                  *)
(* editorial-proposal.ts, as src/mcp/session-store-service.ts uses it.     *)
(* A proposal is derived from the sealed evidence, shown to the owner, and *)
(* the zooms the owner accepts become one automated revision.              *)
(*                                                                         *)
(* Times are microseconds, ids of sources, clips and events are numbers    *)
(* whose order is the order of the texts.  The id of a suggestion is the   *)
(* record it is printed from, and a digest is the value it is taken of.    *)
(***************************************************************************)
EXTENDS Integers, FiniteSets, SequencesExt

CONSTANTS
  Projects,      \* the projects a review may begin with
  Observations,  \* the sets of observed events a sealed capture may hold
  Analyses,      \* the dead-time analyses: a function from sources to sets of intervals
  Shifts,        \* how far a manual revision may move the end of the first clip
  MaxRevision,   \* bound on the revisions of one run
  NoProposal

VARIABLES
  edited,     \* the stored project
  observed,   \* the events of its captures
  analysed,   \* the dead-time analysis of every source
  offered     \* the proposal last returned to the owner

reviewVars == <<edited, observed, analysed, offered>>

(* A stored project is a valid one: its clips have ids of their own and    *)
(* lie in their sources, its zooms in their clips and apart.               *)
Clips(project) == {project.clips[i] : i \in DOMAIN project.clips}
Overlaps(left, right) == left.start < right.end /\ right.start < left.end
Apart(zooms) ==
  \A y, z \in zooms : y # z /\ y.clip = z.clip => ~Overlaps(y, z)

ZoomsInside(project) ==
  \A z \in project.zooms : \E c \in Clips(project) :
     c.id = z.clip /\ c.start <= z.start /\ z.start < z.end /\ z.end <= c.end

Clip == [id : Nat, source : Nat, start : Nat, end : Nat]
Zoom == [clip : Nat, start : Nat, end : Nat]
Project == [sources : Seq(Nat), clips : Seq(Clip), zooms : SUBSET Zoom,
            revision : Nat, automated : Nat, limit : Nat]

ProjectFits(project) ==
  /\ project \in Project /\ project.clips # <<>>
  /\ \A c, d \in DOMAIN project.clips : project.clips[c].id = project.clips[d].id => c = d
  /\ \A c \in Clips(project) :
       c.source \in DOMAIN project.sources /\ c.start < c.end /\ c.end <= project.sources[c.source]
  /\ Apart(project.zooms) /\ ZoomsInside(project)

ASSUME ReviewConstants ==
  /\ \A project \in Projects : ProjectFits(project)
  /\ \A events \in Observations :
       IsFiniteSet(events) /\ \A e \in events : e.id \in Nat /\ e.at \in Nat
  /\ Shifts \subseteq Int

MaxZoomProposals == 32
MaxReviewTrims == 64
MaxTransitions == 31
Lead == 500000
Trail == 1000000
ShortestZoom == 250000

Maximum(m, n) == IF m > n THEN m ELSE n
Minimum(m, n) == IF m < n THEN m ELSE n
First(s, n) == SubSeq(s, 1, Minimum(Len(s), n))

OverlapsOrTouches(left, right) == left.start <= right.end /\ right.start <= left.end

-----------------------------------------------------------------------------
(* Evidence. *)

Sources(project) == DOMAIN project.sources

EventsFit(project, events) ==
  /\ \A e \in events : e.source \in Sources(project) /\ e.at <= project.sources[e.source]
  /\ \A d, e \in events : d.id = e.id => d = e

AnalysesFit(project, analyses) ==
  /\ DOMAIN analyses = Sources(project)
  /\ \A s \in DOMAIN analyses : \A i \in analyses[s] : i.end <= project.sources[s]

-----------------------------------------------------------------------------
(* Zooms: a window around every click and scroll that exactly one clip     *)
(* shows and no zoom of the project covers, windows that meet joined.      *)

Window(clip, e) == [start |-> Maximum(clip.start, e.at - Lead),
                    end   |-> Minimum(clip.end, e.at + Trail)]

ClipsShowing(project, e) ==
  {c \in Clips(project) : c.source = e.source /\ c.start <= e.at /\ e.at <= c.end}

Occupied_ByStart(project, clip, window) ==
  \E z \in project.zooms : z.clip = clip.id /\ z.start <= window.start /\ window.start < z.end
Occupied(project, clip, window) ==
  \E z \in project.zooms : z.clip = clip.id /\ Overlaps(z, window)

Suggests(project, clip, e) ==
  /\ e.kind \in {"click", "scroll"}
  /\ ClipsShowing(project, e) = {clip}
  /\ Window(clip, e).end - Window(clip, e).start >= ShortestZoom
  /\ ~Occupied(project, clip, Window(clip, e))

CandidateOf(clip, e) ==
  [clip |-> clip.id, source |-> clip.source, start |-> Window(clip, e).start,
   end |-> Window(clip, e).end, events |-> {e.id}]

Candidates(project, events) ==
  UNION {{CandidateOf(c, e) : e \in {e \in events : Suggests(project, c, e)}} : c \in Clips(project)}

CandidateBefore(a, b) ==
  \/ a.clip < b.clip
  \/ a.clip = b.clip /\ a.start < b.start
  \/ a.clip = b.clip /\ a.start = b.start /\ \E i \in a.events : \A j \in b.events : i < j

Joined(previous, next) ==
  [previous EXCEPT !.end = Maximum(previous.end, next.end),
                   !.events = previous.events \cup next.events]

Coalesce(zooms, next) ==
  IF zooms # <<>> /\ Last(zooms).clip = next.clip /\ OverlapsOrTouches(Last(zooms), next)
  THEN Append(Front(zooms), Joined(Last(zooms), next))
  ELSE Append(zooms, next)

Sorted(candidates) ==
  [i \in 1..Cardinality(candidates) |->
     CHOOSE c \in candidates : Cardinality({b \in candidates : CandidateBefore(b, c)}) = i - 1]

Coalesced(zooms) ==
  LET upTo[i \in 0..Len(zooms)] == IF i = 0 THEN <<>> ELSE Coalesce(upTo[i - 1], zooms[i])
  IN  upTo[Len(zooms)]

BuildZooms(project, events) ==
  First(Coalesced(Sorted(Candidates(project, events))), MaxZoomProposals)

-----------------------------------------------------------------------------
(* Suggested ids are texts, and texts are compared digit by digit:         *)
(* 10000000 comes before 2000000.                                          *)

Digits(n) == Maximum(1, Cardinality({k \in 0..9 : n >= 10 ^ k}))

TextBefore(m, n) ==
  LET a == Digits(m)
      b == Digits(n)
  IN \/ a = b /\ m < n
     \/ a < b /\ m * 10 ^ (b - a) <= n
     \/ a > b /\ m < n * 10 ^ (a - b)

IdBefore(a, b) ==
  \/ a.clip < b.clip
  \/ a.clip = b.clip /\ TextBefore(a.start, b.start)
  \/ a.clip = b.clip /\ a.start = b.start /\ a.end < b.end

ById(suggestions) == SortSeq(suggestions, IdBefore)

TransitionBefore(a, b) == a.from < b.from \/ (a.from = b.from /\ a.to < b.to)

-----------------------------------------------------------------------------
(* Trims and transitions are only ever reviewed. *)

IdleCut(clip, i) == [clip |-> clip.id, start |-> Maximum(clip.start, i.start),
                     end |-> Minimum(clip.end, i.end), static |-> i.static]

BuildTrims(project, analyses) ==
  LET idle(c) == {i \in analyses[c.source] : i.action = "review-trim" /\ i.static >= 1}
      cuts == UNION {{IdleCut(c, i) : i \in idle(c)} : c \in Clips(project)}
  IN First(SetToSortSeq({t \in cuts : t.end > t.start}, IdBefore), MaxReviewTrims)

BuildTransitions(project) ==
  LET n == Len(project.clips)
      changes == SelectSeq([i \in 1..(n - 1) |-> i],
                           LAMBDA i : project.clips[i].source # project.clips[i + 1].source)
  IN First([k \in DOMAIN changes |-> [from |-> project.clips[changes[k]].id,
                                      to   |-> project.clips[changes[k] + 1].id]],
           MaxTransitions)

Payload(project, events, analyses) ==
  [project |-> project, zooms |-> BuildZooms(project, events),
   trims |-> BuildTrims(project, analyses), transitions |-> BuildTransitions(project)]

BuildProposal(project, events, analyses) ==
  LET payload == Payload(project, events, analyses)
  IN [content |-> payload, digest |-> payload]

-----------------------------------------------------------------------------
(* A proposal is read back with its lists in the order of their ids. *)

Canonical(content) ==
  [content EXCEPT !.zooms = ById(content.zooms), !.trims = ById(content.trims),
                  !.transitions = SortSeq(content.transitions, TransitionBefore)]

IsValid(proposal) ==
  /\ IsInjective(proposal.content.zooms)
  /\ Apart(ToSet(proposal.content.zooms))
  /\ proposal.digest = Canonical(proposal.content)

FitsProject(project, zoom) ==
  \E c \in Clips(project) :
    /\ c.id = zoom.clip
    /\ c.source = zoom.source
    /\ c.start <= zoom.start /\ zoom.end <= c.end
    /\ zoom.end <= project.sources[c.source]

CanAccept(project, accepted) ==
  /\ accepted # {}
  /\ \A z \in accepted : FitsProject(project, z)
  /\ Apart(accepted)
  /\ \A z \in accepted, y \in project.zooms : y.clip = z.clip => ~Overlaps(y, z)
  /\ project.automated < project.limit

Accepted(project, accepted) ==
  [project EXCEPT !.revision = @ + 1, !.automated = @ + 1,
     !.zooms = @ \cup {[clip |-> z.clip, start |-> z.start, end |-> z.end] : z \in accepted}]

-----------------------------------------------------------------------------
(* The service: propose, apply, and the revisions in between. *)

ReviewInit ==
  /\ edited \in Projects
  /\ observed \in Observations
  /\ analysed \in Analyses
  /\ EventsFit(edited, observed) /\ AnalysesFit(edited, analysed)
  /\ offered = NoProposal

Propose ==
  /\ offered' = BuildProposal(edited, observed, analysed)
  /\ UNCHANGED <<edited, observed, analysed>>

\* The service derives the proposal again and compares the digests; what is
\* applied is the new one.
ApplyAccepted ==
  /\ offered # NoProposal /\ edited.revision < MaxRevision
  /\ LET proposal == BuildProposal(edited, observed, analysed)
     IN /\ proposal.digest = offered.digest
        /\ IsValid(proposal)
        /\ \E accepted \in SUBSET ToSet(proposal.content.zooms) :
             CanAccept(edited, accepted) /\ edited' = Accepted(edited, accepted)
  /\ UNCHANGED <<observed, analysed, offered>>

\* A manual revision, here of the end of the first clip.
ReviseByHand ==
  /\ edited.revision < MaxRevision
  /\ \E shift \in Shifts :
       LET clip == edited.clips[1]
       IN /\ clip.start < clip.end + shift
          /\ clip.end + shift <= edited.sources[clip.source]
          /\ \A z \in edited.zooms : z.clip = clip.id => z.end <= clip.end + shift
          /\ edited' = [edited EXCEPT !.clips[1].end = clip.end + shift, !.revision = @ + 1]
  /\ UNCHANGED <<observed, analysed, offered>>

ReviewNext == Propose \/ ApplyAccepted \/ ReviseByHand

ReviewSpec == ReviewInit /\ [][ReviewNext]_reviewVars

-----------------------------------------------------------------------------
(* Properties. *)

\* Whatever the owner accepts, over any number of proposals and revisions, no
\* two zooms of a clip overlap and each stays inside its clip: joining windows
\* never reaches over a zoom that kept a neighbour apart.
ZoomsStayApart == Apart(edited.zooms) /\ ZoomsInside(edited)

\* Every zoom of a fresh proposal can be accepted, alone or with the others.
OffersCanBeTaken ==
  offered # NoProposal /\ offered.content.project = edited /\ edited.automated < edited.limit
    => \A accepted \in SUBSET ToSet(offered.content.zooms) :
         accepted # {} => CanAccept(edited, accepted)

\* Both: what is stored and what is offered never brings two zooms of a clip together.
OffersAreSafe == ZoomsStayApart /\ OffersCanBeTaken

\* What buildEditorialProposal returns, validateEditorialProposal takes: the
\* approval step "uses" an "already-produced proposal" (editorial-proposal.ts:128).
OffersAreValid == offered # NoProposal => IsValid(offered)
==============================================================================
