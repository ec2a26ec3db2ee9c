-------------------------- MODULE SessionContract --------------------------
(***************************************************************************)
(* What a recording session promises, whatever happens below: it opens     *)
(* once, its events only grow and only while it is open, it is delivered   *)
(* once and only sealed, and once gone it does not come back.              *)
(* SessionLifecycle is shown to implement it.                              *)
(***************************************************************************)
EXTENDS Naturals, Sequences

VARIABLES stage, events, delivered

vars == <<stage, events, delivered>>

Init == stage = "absent" /\ events = <<>> /\ delivered = FALSE

Open == stage = "absent" /\ stage' = "open" /\ UNCHANGED <<events, delivered>>

Record ==
  /\ stage = "open"
  /\ Len(events') = Len(events) + 1 /\ events = SubSeq(events', 1, Len(events))
  /\ UNCHANGED <<stage, delivered>>

Seal == stage = "open" /\ stage' = "sealed" /\ UNCHANGED <<events, delivered>>

Deliver ==
  /\ stage = "sealed" /\ ~delivered
  /\ delivered' = TRUE
  /\ UNCHANGED <<stage, events>>

Discard == stage' = "gone" /\ events' = <<>> /\ delivered' = FALSE

Next == Open \/ Record \/ Seal \/ Deliver \/ Discard

Spec == Init /\ [][Next]_vars
=============================================================================
