-------------------------- MODULE ProjectWorkflow --------------------------
(***************************************************************************)
(* One recording project, and the server processes that edit, judge and    *)
(* render it in one artifact root: project-persistence.ts (the document,   *)
(* its lock file, compare-and-swap), render-publication.ts (previews and   *)
(* finals), project-preview-judgment-store.ts and the project operations   *)
(* of session-store-service.ts.                                            *)
(*                                                                         *)
(* A server runs one operation on the project at a time (projectLocks);    *)
(* servers meet only in the file system. An action is the code between two *)
(* awaits that touch a shared file. Media, profiles and the renderer are   *)
(* external: what they yield is an edit, or a failure.                     *)
(***************************************************************************)
EXTENDS Integers, FiniteSets

CONSTANTS
  Servers,       \* server processes that use the artifact root
  Edits,         \* what the editorial fields of a document can say
  NoEdit,        \* what a missing document or artifact says
  Nobody,        \* nobody holds the lock file, nobody wrote the artifact
  Orphan,        \* the lock file of an operation that is gone
  AutoLimit,     \* revisionPolicy.automatedRevisionLimit
  LockAttempts,  \* MAX_LOCK_ATTEMPTS
  MaxRevision,   \* bound: the last revision explored
  Faults         \* what can go wrong: "crash" of a server, "disk" errors

ASSUME WorkflowConstants ==
  /\ Nobody \notin Servers /\ Orphan \notin Servers /\ Nobody # Orphan
  /\ NoEdit \notin Edits
  /\ AutoLimit \in Nat /\ LockAttempts \in Nat \ {0} /\ MaxRevision \in Nat
  /\ Faults \subseteq {"crash", "disk"}

VARIABLES
  project,       \* projects/<id>.json
  lock,          \* who created projects/<id>.json.lock
  renders,       \* projects/renders/<id>-r<rev>-<kind>
  judgments,     \* projects/judgments
  op             \* the operation each server is performing

vars == <<project, lock, renders, judgments, op>>

Revisions == 0..MaxRevision
Kinds == {"preview", "final"}

\* The document. Everything the editor may change is one value, `edit`; auto is
\* revisionPolicy.automatedRevisionCount, shown is preview.revision. Its SHA-256 is equality.
Project == [rev: Revisions, schema: {1, 2}, edit: Edits, auto: 0..AutoLimit,
            preview: {"none", "stale", "ready", "rendered"}, shown: Revisions \cup {-1}]
NoProject == [rev |-> -1, schema |-> 1, edit |-> NoEdit, auto |-> 0,
              preview |-> "none", shown |-> -1]

\* An artifact: the inode's writer and what it shows.
File == [by: Servers, shows: Edits]
NoFile == [by |-> Nobody, shows |-> NoEdit]

\* A judgment carries the digests of the document and of the preview it is about; "revise"
\* stands for "reject" too.
Judgment == [verdict: {"accept", "revise"}, project: Project, shows: Edits]

\* A server's operation: where it stands, the document it loaded, the one it will store,
\* lock attempts, whose inode it noted after publishing, what the judged preview shows,
\* and whether replace() returned.
Steps == {"idle", "lock", "load", "write", "release", "gate", "look", "rename", "note",
          "withdraw", "unlink", "digest", "record"}
Op == [step: Steps, kind: {"none", "create", "edit", "judge"} \cup Kinds,
       base: Project \cup {NoProject}, new: Project \cup {NoProject},
       tries: 0..LockAttempts, mine: Servers \cup {Nobody}, shows: Edits \cup {NoEdit},
       stored: BOOLEAN]
Idle == [step |-> "idle", kind |-> "none", base |-> NoProject, new |-> NoProject,
         tries |-> 0, mine |-> Nobody, shows |-> NoEdit, stored |-> FALSE]

Init == /\ project = NoProject
        /\ lock = Nobody
        /\ renders = [slot \in Revisions \X Kinds |-> NoFile]
        /\ judgments = {}
        /\ op = [p \in Servers |-> Idle]

-----------------------------------------------------------------------------
\* Helpers

Exists == project # NoProject
At(p, step) == op[p].step = step
Becomes(p, o) == op' = [op EXCEPT ![p] = o]
Goto(p, step) == Becomes(p, [op[p] EXCEPT !.step = step])
End(p) == Becomes(p, Idle)
Rendering(p) == op[p].kind \in Kinds

\* An operation starts from the document it loads, without the lock file.
Begin(p, kind, step, new) ==
  Becomes(p, [Idle EXCEPT !.step = step, !.kind = kind, !.base = project, !.new = new])

\* manifestProjectSource: the document of a sealed session.
NewProject(e) == [rev |-> 0, schema |-> 1, edit |-> e, auto |-> 0,
                  preview |-> "none", shown |-> -1]

\* Variant: the budget of automated revisions is off by one.
MayRevise_OffByOne(d, automated) == automated => d.auto <= AutoLimit

\* reviseRecordingProject: one more revision, migrated to schema 2, automated revisions
\* within their budget. The preview is stale, unless the caller's document says that its own
\* revision was rendered already.
MayRevise(d, automated) == automated => d.auto + 1 <= AutoLimit
Revised(d, e, automated, claimed) ==
  [rev |-> d.rev + 1, schema |-> 2, edit |-> e,
   auto |-> IF automated THEN d.auto + 1 ELSE d.auto,
   preview |-> IF claimed THEN "rendered" ELSE "stale",
   shown |-> IF claimed THEN d.rev + 1 ELSE d.rev]

\* What a render writes back: preview {status, revision}.
Marked(d, kind) ==
  [d EXCEPT !.preview = IF kind = "preview" THEN "ready" ELSE "rendered", !.shown = d.rev]

PreviewReady(d) == d.preview = "ready" /\ d.shown = d.rev
JudgmentsOf(r) == {j \in judgments : j.project.rev = r}
Slot(p) == <<op[p].base.rev, op[p].kind>>
Artifact(r, k) == renders[<<r, k>>]
PreviewOf(d) == Artifact(d.rev, "preview")

\* Variant: any verdict will do.
Accepted_AnyVerdict(d) == \E j \in JudgmentsOf(d.rev) :
  j.project = d /\ PreviewOf(d) # NoFile /\ j.shows = PreviewOf(d).shows

\* assertAccepted: an acceptance of this document and of the preview on disk.
Accepted(d) == \E j \in JudgmentsOf(d.rev) :
  j.verdict = "accept" /\ j.project = d /\ PreviewOf(d) # NoFile /\ j.shows = PreviewOf(d).shows

-----------------------------------------------------------------------------
\* Edits

CreateProject(p) == /\ At(p, "idle")
                    /\ \E e \in Edits :
                         Becomes(p, [Idle EXCEPT !.step = "lock", !.kind = "create",
                                                 !.new = NewProject(e)])
                    /\ UNCHANGED <<project, lock, renders, judgments>>

ReviseProject(p) ==
  /\ At(p, "idle") /\ Exists /\ project.rev < MaxRevision
  /\ \E e \in Edits, automated, claimed \in BOOLEAN :
       /\ MayRevise(project, automated)
       /\ Begin(p, "edit", "lock", Revised(project, e, automated, claimed))
  /\ UNCHANGED <<project, lock, renders, judgments>>

ApplyProfile(p) ==
  /\ At(p, "idle") /\ Exists /\ project.rev < MaxRevision
  /\ \E e \in Edits, automated \in BOOLEAN :
       /\ MayRevise(project, automated)
       /\ Begin(p, "edit", "lock", Revised(project, e, automated, FALSE))
  /\ UNCHANGED <<project, lock, renders, judgments>>

ApplyEditorial(p) ==
  /\ At(p, "idle") /\ Exists /\ project.rev < MaxRevision
  /\ project.schema = 2 /\ MayRevise(project, TRUE)
  /\ \E e \in Edits : Begin(p, "edit", "lock", Revised(project, e, TRUE, FALSE))
  /\ UNCHANGED <<project, lock, renders, judgments>>

-----------------------------------------------------------------------------
\* RecordingProjectStore.create and replace

\* The store failed or the CAS was lost: a render withdraws what it published.
GiveUp(p) == IF Rendering(p) THEN Goto(p, "withdraw") ELSE End(p)

\* Variant: the lock file is written without "wx".
TakeLock_Overwrite(p) == /\ At(p, "lock")
                         /\ lock' = p
                         /\ Goto(p, IF op[p].kind = "create" THEN "write" ELSE "load")
                         /\ UNCHANGED <<project, renders, judgments>>

\* writeFile(..., "wx"): takes the lock file when there is none.
TakeLock(p) == /\ At(p, "lock") /\ lock = Nobody
               /\ lock' = p
               /\ Goto(p, IF op[p].kind = "create" THEN "write" ELSE "load")
               /\ UNCHANGED <<project, renders, judgments>>

\* The lock file cannot be created; or it was, but cannot be verified and nobody removes it.
TakeLockFails(p) == /\ At(p, "lock") /\ lock = Nobody /\ "disk" \in Faults
                    /\ lock' \in {Nobody, Orphan}
                    /\ GiveUp(p)
                    /\ UNCHANGED <<project, renders, judgments>>

\* Variant: it retries for ever.
WaitForLock_Forever(p) == At(p, "lock") /\ lock # Nobody /\ UNCHANGED vars

WaitForLock(p) == /\ At(p, "lock") /\ lock # Nobody
                  /\ IF op[p].tries + 1 < LockAttempts
                     THEN Becomes(p, [op[p] EXCEPT !.tries = @ + 1])
                     ELSE GiveUp(p)
                  /\ UNCHANGED <<project, lock, renders, judgments>>

\* replace: the document must still be the one the operation started from.
Compare(p) == /\ At(p, "load")
              /\ Goto(p, IF project = op[p].base THEN "write" ELSE "release")
              /\ UNCHANGED <<project, lock, renders, judgments>>

\* write renames a temporary file onto the document; writeNew links it, unless it exists.
Write(p) == /\ At(p, "write")
            /\ IF op[p].kind = "create" /\ Exists
               THEN Goto(p, "release") /\ UNCHANGED project
               ELSE /\ project' = op[p].new
                    /\ Becomes(p, [op[p] EXCEPT !.step = "release", !.stored = TRUE])
            /\ UNCHANGED <<lock, renders, judgments>>

\* The temporary file cannot be written, or the document cannot be checked after the rename.
WriteFails(p) == /\ At(p, "write") /\ "disk" \in Faults
                 /\ op[p].kind = "create" => ~Exists
                 /\ project' \in {project, op[p].new}
                 /\ Goto(p, "release")
                 /\ UNCHANGED <<lock, renders, judgments>>

\* Variant: the artifact is withdrawn whether or not the document was stored.
Release_AlwaysWithdraw(p) == /\ At(p, "release")
                             /\ lock' = Nobody
                             /\ GiveUp(p)
                             /\ UNCHANGED <<project, renders, judgments>>

\* releaseProjectLock: removes its own lock file; a failure to do so is ignored.
Release(p) == /\ At(p, "release")
              /\ lock' \in {Nobody} \cup (IF "disk" \in Faults THEN {Orphan} ELSE {})
              /\ IF op[p].stored THEN End(p) ELSE GiveUp(p)
              /\ UNCHANGED <<project, renders, judgments>>

-----------------------------------------------------------------------------
\* renderProject and createRenderPublication

RenderPreview(p) == /\ At(p, "idle") /\ Exists
                    /\ Begin(p, "preview", "look", Marked(project, "preview"))
                    /\ UNCHANGED <<project, lock, renders, judgments>>

RenderFinal(p) == /\ At(p, "idle") /\ Exists /\ PreviewReady(project)
                  /\ Begin(p, "final", "gate", Marked(project, "final"))
                  /\ UNCHANGED <<project, lock, renders, judgments>>

\* Schema 1 passes while no judgment is recorded.
PassGate(p) ==
  LET d == op[p].base IN
  /\ At(p, "gate")
  /\ IF (d.schema = 1 /\ JudgmentsOf(d.rev) = {}) \/ Accepted(d) THEN Goto(p, "look") ELSE End(p)
  /\ UNCHANGED <<project, lock, renders, judgments>>

\* The candidate is rendered in a private file, which may fail; publish() then looks whether
\* the artifact exists already.
LookForArtifact(p) == /\ At(p, "look")
                      /\ \/ renders[Slot(p)] = NoFile /\ Goto(p, "rename")
                         \/ End(p)
                      /\ UNCHANGED <<project, lock, renders, judgments>>

\* rename replaces whatever another server published since.
Publish(p) == /\ At(p, "rename")
              /\ renders' = [renders EXCEPT ![Slot(p)] = [by |-> p, shows |-> op[p].base.edit]]
              /\ Goto(p, "note")
              /\ UNCHANGED <<project, lock, judgments>>

\* publish() notes the inode it finds, for unpublish(); without one it throws.
NoteInode(p) == /\ At(p, "note")
                /\ \/ /\ renders[Slot(p)] # NoFile
                      /\ Becomes(p, [op[p] EXCEPT !.step = "lock", !.mine = renders[Slot(p)].by])
                   \/ /\ renders[Slot(p)] = NoFile \/ "disk" \in Faults
                      /\ End(p)
                /\ UNCHANGED <<project, lock, renders, judgments>>

\* unpublish() compares the inode, then removes the artifact.
Withdraw(p) == /\ At(p, "withdraw")
               /\ IF renders[Slot(p)].by = op[p].mine THEN Goto(p, "unlink") ELSE End(p)
               /\ UNCHANGED <<project, lock, renders, judgments>>

Unlink(p) == /\ At(p, "unlink")
             /\ renders' = [renders EXCEPT ![Slot(p)] = NoFile]
             /\ End(p)
             /\ UNCHANGED <<project, lock, judgments>>

-----------------------------------------------------------------------------
\* judgePreview

JudgePreview(p) == /\ At(p, "idle") /\ Exists /\ PreviewReady(project)
                   /\ Begin(p, "judge", "digest", NoProject)
                   /\ UNCHANGED <<project, lock, renders, judgments>>

\* Variant: a missing preview is not noticed.
DigestPreview_Unchecked(p) ==
  /\ At(p, "digest")
  /\ Becomes(p, [op[p] EXCEPT !.step = "record", !.shows = PreviewOf(op[p].base).shows])
  /\ UNCHANGED <<project, lock, renders, judgments>>

\* The digests the caller inspected may not be those of the files.
DigestPreview(p) == /\ At(p, "digest")
                    /\ \/ /\ PreviewOf(op[p].base) # NoFile
                          /\ Becomes(p, [op[p] EXCEPT !.step = "record",
                                                      !.shows = PreviewOf(op[p].base).shows])
                       \/ End(p)
                    /\ UNCHANGED <<project, lock, renders, judgments>>

\* PreviewJudgmentStore.create links the file, unless one exists.
RecordJudgment(p) ==
  /\ At(p, "record")
  /\ \E v \in {"accept", "revise"} :
       judgments' = IF JudgmentsOf(op[p].base.rev) # {} THEN judgments
                    ELSE judgments \cup {[verdict |-> v, project |-> op[p].base,
                                          shows |-> op[p].shows]}
  /\ End(p)
  /\ UNCHANGED <<project, lock, renders>>

-----------------------------------------------------------------------------
\* A server dies in the middle of an operation; its lock file stays.
Crash(p) == /\ "crash" \in Faults /\ ~At(p, "idle")
            /\ End(p)
            /\ lock' = IF lock = p THEN Orphan ELSE lock
            /\ UNCHANGED <<project, renders, judgments>>

Start(p) == \/ CreateProject(p) \/ ReviseProject(p) \/ ApplyProfile(p) \/ ApplyEditorial(p)
            \/ RenderPreview(p) \/ RenderFinal(p) \/ JudgePreview(p)

Continue(p) == \/ TakeLock(p) \/ TakeLockFails(p) \/ WaitForLock(p) \/ Compare(p)
               \/ Write(p) \/ WriteFails(p) \/ Release(p)
               \/ PassGate(p) \/ LookForArtifact(p) \/ Publish(p) \/ NoteInode(p)
               \/ Withdraw(p) \/ Unlink(p) \/ DigestPreview(p) \/ RecordJudgment(p)

Next == \E p \in Servers : Start(p) \/ Continue(p) \/ Crash(p)

Spec == Init /\ [][Next]_vars

\* Promises settle and timers fire: an operation that has started goes on.
FairSpec == Spec /\ \A p \in Servers : WF_vars(Continue(p))

-----------------------------------------------------------------------------
\* Properties

TypeOK == /\ project \in Project \cup {NoProject}
          /\ lock \in Servers \cup {Nobody, Orphan}
          /\ renders \in [Revisions \X Kinds -> File \cup {NoFile}]
          /\ judgments \subseteq Judgment
          /\ op \in [Servers -> Op]

History == INSTANCE ProjectHistory

\* Whatever the servers, crashes and lock failures, the document has one history: every
\* replacement is the next step of the version it replaces, and a document of schema 2 is
\* marked rendered only when it was judged and accepted (project-persistence.ts:147-165,
\* session-store-service.ts:706-740).
OneHistory == History!Spec

\* A final of a schema 2 revision (every one after the first) on disk shows what was
\* accepted for that revision (session-store-service.ts:719-738).
FinalsWereAccepted ==
  \A r \in Revisions : r > 0 /\ Artifact(r, "final") # NoFile =>
    \E j \in JudgmentsOf(r) : j.verdict = "accept" /\ j.shows = Artifact(r, "final").shows

\* The preview a document calls ready is there and shows it (render-publication.ts:59-71).
ReadyIsThere == PreviewReady(project) =>
  PreviewOf(project) # NoFile /\ PreviewOf(project).shows = project.edit

\* A failed publication removes only its own artifact (render-publication.ts:132-146).
RemovesOnlyItsOwn ==
  [][\A p \in Servers : Unlink(p) => renders[Slot(p)].by \in {p, Nobody}]_vars

\* Every operation comes to an end, also when a dead server's lock file is never removed
\* (project-persistence.ts:188-203).
OperationsEnd == \A p \in Servers : ~At(p, "idle") ~> At(p, "idle")
=============================================================================
