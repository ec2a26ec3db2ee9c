--------------------------- MODULE ProjectHistory ---------------------------
(***************************************************************************)
(* What the project tools promise of one recording project, however many   *)
(* servers work on it: the document has one history, each step taken from  *)
(* the version it replaces; a revision is judged once and for good; a      *)
(* render marks a document of schema 2 rendered only when this very        *)
(* document was judged and accepted, on a preview that shows it. (A caller *)
(* may still write a revision that says of itself that it is rendered.)    *)
(***************************************************************************)
EXTENDS Integers

CONSTANTS
  Edits,         \* what the editorial fields of a project can say
  NoEdit,        \* what a missing project says
  AutoLimit      \* how many automated revisions a project allows

VARIABLES
  project,       \* the stored document
  judgments      \* the stored judgments

Missing == [rev |-> -1, schema |-> 1, edit |-> NoEdit, auto |-> 0,
            preview |-> "none", shown |-> -1]
Exists == project # Missing
Judged(r) == \E j \in judgments : j.project.rev = r

Init == project = Missing /\ judgments = {}

Create == /\ ~Exists
          /\ \E e \in Edits :
               project' = [rev |-> 0, schema |-> 1, edit |-> e, auto |-> 0,
                           preview |-> "none", shown |-> -1]

\* A revision is the next one and leaves no preview that counts as ready. Automated
\* revisions are counted, and the count stays in the budget.
Revise == /\ Exists
          /\ \E e \in Edits, a \in {project.auto, project.auto + 1} :
               /\ a <= AutoLimit
               /\ \E status \in {"stale", "rendered"}, r \in {project.rev, project.rev + 1} :
                    project' = [rev |-> project.rev + 1, schema |-> 2, edit |-> e, auto |-> a,
                                preview |-> status, shown |-> r]

MarkReady == /\ Exists
             /\ project' = [project EXCEPT !.preview = "ready", !.shown = project.rev]

MarkRendered == /\ project.preview = "ready" /\ project.shown = project.rev
                /\ project.schema = 2 =>
                     [verdict |-> "accept", project |-> project, shows |-> project.edit]
                       \in judgments
                /\ project' = [project EXCEPT !.preview = "rendered"]

\* The document a judgment is about may have been replaced while the judgment was written;
\* as long as its revision is the current one, it is the current document's content.
Judge == /\ \E r \in 0..project.rev, s \in {1, 2}, e, f \in Edits, a \in 0..AutoLimit,
               v \in {"accept", "revise"} :
              /\ ~Judged(r)
              /\ r = project.rev => e = project.edit /\ f = project.edit
              /\ judgments' = judgments \cup
                   {[verdict |-> v, shows |-> f,
                     project |-> [rev |-> r, schema |-> s, edit |-> e, auto |-> a,
                                  preview |-> "ready", shown |-> r]]}
         /\ UNCHANGED project

Next == \/ (Create \/ Revise \/ MarkReady \/ MarkRendered) /\ UNCHANGED judgments
        \/ Judge

Spec == Init /\ [][Next]_<<project, judgments>>
=============================================================================
