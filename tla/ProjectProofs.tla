--------------------------- MODULE ProjectProofs ---------------------------
(***************************************************************************)
(* Proofs about ProjectWorkflow, for any number of servers, any budget and *)
(* any faults: its types, and that the document has the one history of     *)
(* ProjectHistory.                                                         *)
(*                                                                         *)
(* The argument: a server between taking and releasing the lock file is    *)
(* the one it names, so that a document compared with the one an operation *)
(* loaded is still that one when it is replaced; and all that is stored or *)
(* held about a revision (documents, artifacts, judgments, operations)     *)
(* says the same of it, so that a preview judged is the document's own.    *)
(***************************************************************************)
EXTENDS ProjectWorkflow, TLAPS

-----------------------------------------------------------------------------
\* The inductive invariant

Holding == {"load", "write", "release"}

\* What kind of operation stands at a step, and what its documents are.
Shape(o) ==
  /\ o.step = "idle" => o = Idle
  /\ o.step # "idle" => o.kind # "none"
  /\ o.step \in {"look", "rename", "note", "withdraw", "unlink"} => o.kind \in Kinds
  /\ o.step = "gate" => o.kind = "final"
  /\ o.step \in {"digest", "record"} <=> o.kind = "judge"
  /\ o.kind \in {"none", "create"} => o.base = NoProject
  /\ o.kind \notin {"none", "create"} => o.base \in Project
  /\ o.kind = "create" => \E e \in Edits : o.new = NewProject(e)
  /\ o.kind = "edit" => /\ o.base.rev < MaxRevision
                        /\ \E e \in Edits, automated, claimed \in BOOLEAN :
                              /\ MayRevise(o.base, automated)
                              /\ o.new = Revised(o.base, e, automated, claimed)
  /\ o.kind \in Kinds => o.new = Marked(o.base, o.kind)
  /\ o.kind \in {"final", "judge"} => PreviewReady(o.base)

Acceptance(d) == [verdict |-> "accept", project |-> d, shows |-> d.edit]

\* f says what each revision up to the current one says. An operation agrees with it, holds
\* the lock file where it should, writes over the document it loaded, and has passed the gate.
Sound(f, p, o) ==
  /\ Shape(o)
  /\ o.step \in Holding => lock = p
  /\ o.step = "write" /\ o.kind # "create" => project = o.base
  /\ o.kind = "final" /\ o.step # "gate" /\ o.base.schema = 2 => Acceptance(o.base) \in judgments
  /\ o.base # NoProject => /\ o.base.rev <= project.rev
                           /\ o.base.edit = f[o.base.rev]
                           /\ o.base.rev > 0 => o.base.schema = 2
  /\ o.step = "record" => o.shows = f[o.base.rev]

Stored(f) == project # NoProject => /\ project.edit = f[project.rev]
                                    /\ project.rev > 0 => project.schema = 2
Shown(f) == \A r \in Revisions, k \in Kinds :
              Artifact(r, k) # NoFile => r <= project.rev /\ Artifact(r, k).shows = f[r]
JudgedAs(f) == \A j \in judgments : /\ j.project.rev <= project.rev
                                   /\ j.project.edit = f[j.project.rev]
                                   /\ j.shows = f[j.project.rev]

Contents == [Revisions -> Edits \cup {NoEdit}]
Agreed(f) == /\ Stored(f) /\ Shown(f) /\ JudgedAs(f)
             /\ \A p \in Servers : Sound(f, p, op[p])

IInv == /\ TypeOK
        /\ FinalsWereAccepted
        /\ \E f \in Contents : Agreed(f)

-----------------------------------------------------------------------------
\* Types

LEMMA MissingIsNot == NoProject \notin Project
  BY DEF NoProject, Project, Revisions

LEMMA IdleType == Idle \in Op
  BY WorkflowConstants DEF Idle, Op, Steps, NoProject, Kinds

LEMMA NewProjectType == ASSUME NEW e \in Edits PROVE NewProject(e) \in Project
  BY WorkflowConstants DEF NewProject, Project, Revisions

LEMMA RevisedType ==
  ASSUME NEW d \in Project, NEW e \in Edits, NEW automated \in BOOLEAN, NEW claimed \in BOOLEAN,
         d.rev < MaxRevision, MayRevise(d, automated)
  PROVE  Revised(d, e, automated, claimed) \in Project
<1> DEFINE a == IF automated THEN d.auto + 1 ELSE d.auto
           s == IF claimed THEN d.rev + 1 ELSE d.rev
           v == IF claimed THEN "rendered" ELSE "stale"
<1>1. a \in 0..AutoLimit
  BY WorkflowConstants DEF Project, MayRevise
<1>2. d.rev + 1 \in Revisions /\ s \in Revisions
  BY WorkflowConstants DEF Project, Revisions
<1>3. v \in {"none", "stale", "ready", "rendered"}
  OBVIOUS
<1>4. Revised(d, e, automated, claimed) =
        [rev |-> d.rev + 1, schema |-> 2, edit |-> e, auto |-> a, preview |-> v, shown |-> s]
  BY DEF Revised
<1> HIDE DEF a, s, v
<1> QED BY <1>1, <1>2, <1>3, <1>4 DEF Project

LEMMA MarkedType == ASSUME NEW d \in Project, NEW kind \in Kinds PROVE Marked(d, kind) \in Project
  BY DEF Marked, Project, Kinds

\* What an operation may become: any well-typed record, in place of the old one.
LEMMA OpType ==
  ASSUME op \in [Servers -> Op], NEW p \in Servers, NEW o \in Op, Becomes(p, o)
  PROVE  op' \in [Servers -> Op]
  BY DEF Becomes

LEMMA StepType ==
  ASSUME op \in [Servers -> Op], NEW p \in Servers, NEW s \in Steps, Goto(p, s)
  PROVE  op' \in [Servers -> Op]
<1>1. [op[p] EXCEPT !.step = s] \in Op
  BY DEF Op
<1> QED BY <1>1, OpType DEF Goto

LEMMA EndType ==
  ASSUME op \in [Servers -> Op], NEW p \in Servers, End(p)
  PROVE  op' \in [Servers -> Op]
  BY OpType, IdleType DEF End

LEMMA GiveUpType ==
  ASSUME op \in [Servers -> Op], NEW p \in Servers, GiveUp(p)
  PROVE  op' \in [Servers -> Op]
<1>1. "withdraw" \in Steps
  BY DEF Steps
<1> QED BY <1>1, StepType, EndType DEF GiveUp

LEMMA BeginType ==
  ASSUME op \in [Servers -> Op], project \in Project \cup {NoProject},
         NEW p \in Servers, NEW kind \in {"edit", "judge"} \cup Kinds, NEW s \in Steps,
         NEW new \in Project \cup {NoProject}, Begin(p, kind, s, new)
  PROVE  op' \in [Servers -> Op]
<1>1. [Idle EXCEPT !.step = s, !.kind = kind, !.base = project, !.new = new] \in Op
  BY IdleType DEF Op
<1> QED BY <1>1, OpType DEF Begin

LEMMA SlotType ==
  ASSUME TypeOK, NEW p \in Servers, op[p].base # NoProject, op[p].kind \in Kinds
  PROVE  Slot(p) \in Revisions \X Kinds
<1>1. op[p] \in Op
  BY DEF TypeOK
<1>2. op[p].base \in Project
  BY <1>1 DEF Op
<1> QED BY <1>2 DEF Slot, Project
-----------------------------------------------------------------------------
\* Steps of one server that leave the document, the artifacts and the judgments alone

LEMMA Own == ASSUME TypeOK, NEW p \in Servers
             PROVE  op[p] \in Op /\ op \in [Servers -> Op]
  BY DEF TypeOK

\* The other servers do not notice, provided the lock file moves only between p and nobody.
LEMMA OneServer ==
  ASSUME IInv, NEW p \in Servers, NEW o \in Op, Becomes(p, o),
         UNCHANGED <<project, renders, judgments>>,
         lock' \in Servers \cup {Nobody, Orphan},
         lock' = lock \/ lock \in {Nobody, p},
         \A f \in Contents : Agreed(f) => Sound(f, p, op[p])'
  PROVE  IInv'
<1>1. PICK f \in Contents : Agreed(f)
  BY DEF IInv
<1>2. TypeOK'
  BY OpType DEF IInv, TypeOK
<1>3. FinalsWereAccepted'
  BY DEF IInv, FinalsWereAccepted, JudgmentsOf, Artifact
<1>4. (Stored(f) /\ Shown(f) /\ JudgedAs(f))'
  BY <1>1 DEF Agreed, Stored, Shown, JudgedAs, Artifact
<1>5. ASSUME NEW q \in Servers PROVE Sound(f, q, op[q])'
  <2>1. CASE q = p
    BY <1>1, <2>1
  <2>2. CASE q # p
    <3>1. op'[q] = op[q] /\ Sound(f, q, op[q])
      BY <1>1, <2>2, Own DEF Becomes, Agreed, IInv
    <3>2. op[q].step \in Holding => lock' = q
      BY <3>1, <2>2, WorkflowConstants DEF Sound
    <3> QED BY <3>1, <3>2 DEF Sound
  <2> QED BY <2>1, <2>2
<1> QED BY <1>1, <1>2, <1>3, <1>4, <1>5 DEF IInv, Agreed

LEMMA EndSound ==
  ASSUME TypeOK, NEW p \in Servers, NEW f \in Contents, End(p)
  PROVE  Sound(f, p, op[p])'
<1>1. op'[p] = Idle
  BY Own DEF End, Becomes
<1> QED BY <1>1 DEF Sound, Shape, Idle, Holding, Kinds

\* An operation that goes on to a step that suits its kind.
LEMMA GotoSound ==
  ASSUME TypeOK, NEW p \in Servers, NEW f \in Contents, Sound(f, p, op[p]),
         NEW s \in Steps \ {"idle", "record", "gate"}, Goto(p, s), op[p].step # "idle",
         UNCHANGED <<project, judgments>>,
         s \in {"look", "rename", "note", "withdraw", "unlink"} => op[p].kind \in Kinds,
         s = "digest" <=> op[p].kind = "judge",
         s \in Holding => lock' = p,
         s = "write" /\ op[p].kind # "create" => project = op[p].base,
         op[p].kind = "final" /\ op[p].step = "gate" /\ op[p].base.schema = 2
           => Acceptance(op[p].base) \in judgments
  PROVE  Sound(f, p, op[p])'
<1> DEFINE o == [op[p] EXCEPT !.step = s]
<1>1. op'[p] = o
  BY Own DEF Goto, Becomes
<1>2. /\ o.step = s /\ o.kind = op[p].kind /\ o.base = op[p].base /\ o.new = op[p].new
      /\ o \in Op
  BY Own DEF Op
<1> HIDE DEF o
<1>3. Shape(o)
  BY <1>2 DEF Sound, Shape
<1>4. o.kind = "final" /\ o.step # "gate" /\ o.base.schema = 2 => Acceptance(o.base) \in judgments
  BY <1>2 DEF Sound
<1> QED BY <1>1, <1>2, <1>3, <1>4 DEF Sound

LEMMA GiveUpSound ==
  ASSUME TypeOK, NEW p \in Servers, NEW f \in Contents, Sound(f, p, op[p]), GiveUp(p),
         op[p].step \notin {"idle", "gate"}, op[p].kind # "judge",
         UNCHANGED <<project, judgments>>
  PROVE  Sound(f, p, op[p])'
<1>1. CASE Rendering(p)
  <2>1. "withdraw" \in Steps \ {"idle", "record", "gate"} /\ "withdraw" \notin Holding
    BY DEF Steps, Holding
  <2> QED BY <1>1, <2>1, GotoSound DEF GiveUp, Rendering
<1>2. CASE ~Rendering(p)
  BY <1>2, EndSound DEF GiveUp
<1> QED BY <1>1, <1>2

\* The same three for the whole invariant.
LEMMA EndKeeps ==
  ASSUME IInv, NEW p \in Servers, End(p), UNCHANGED <<project, renders, judgments>>,
         lock' \in Servers \cup {Nobody, Orphan}, lock' = lock \/ lock \in {Nobody, p}
  PROVE  IInv'
<1>1. \A f \in Contents : Sound(f, p, op[p])'
  BY EndSound DEF IInv
<1> QED BY <1>1, OneServer, IdleType DEF End

LEMMA GotoKeeps ==
  ASSUME IInv, NEW p \in Servers,
         NEW s \in Steps \ {"idle", "record", "gate"}, Goto(p, s), op[p].step # "idle",
         UNCHANGED <<project, renders, judgments>>,
         lock' \in Servers \cup {Nobody, Orphan}, lock' = lock \/ lock \in {Nobody, p},
         s \in {"look", "rename", "note", "withdraw", "unlink"} => op[p].kind \in Kinds,
         s = "digest" <=> op[p].kind = "judge",
         s \in Holding => lock' = p,
         s = "write" /\ op[p].kind # "create" => project = op[p].base,
         op[p].kind = "final" /\ op[p].step = "gate" /\ op[p].base.schema = 2
           => Acceptance(op[p].base) \in judgments
  PROVE  IInv'
<1>1. [op[p] EXCEPT !.step = s] \in Op
  BY Own DEF Op, IInv
<1>2. \A f \in Contents : Agreed(f) => Sound(f, p, op[p])'
  BY GotoSound DEF IInv, Agreed
<1> QED BY <1>1, <1>2, OneServer DEF Goto

LEMMA GiveUpKeeps ==
  ASSUME IInv, NEW p \in Servers, GiveUp(p),
         op[p].step \notin {"idle", "gate"}, op[p].kind # "judge",
         UNCHANGED <<project, renders, judgments>>,
         lock' \in Servers \cup {Nobody, Orphan}, lock' = lock \/ lock \in {Nobody, p}
  PROVE  IInv'
<1>1. "withdraw" \in Steps \ {"idle", "record", "gate"} /\ "withdraw" \notin Holding
  BY DEF Steps, Holding
<1>2. CASE Rendering(p)
  BY <1>1, <1>2, GotoKeeps DEF GiveUp, Rendering
<1>3. CASE ~Rendering(p)
  BY <1>3, EndKeeps DEF GiveUp
<1> QED BY <1>2, <1>3

\* An operation begins on the current document, without the lock file.
LEMMA BeginKeeps ==
  ASSUME IInv, NEW p \in Servers, Exists,
         NEW kind \in {"edit", "judge"} \cup Kinds,
         NEW s \in Steps \ (Holding \cup {"idle", "record"}),
         NEW new \in Project \cup {NoProject}, Begin(p, kind, s, new),
         UNCHANGED <<project, lock, renders, judgments>>,
         kind = "final" => s = "gate",
         Shape([Idle EXCEPT !.step = s, !.kind = kind, !.base = project, !.new = new])
  PROVE  IInv'
<1> DEFINE o == [Idle EXCEPT !.step = s, !.kind = kind, !.base = project, !.new = new]
<1>1. project \in Project
  BY DEF IInv, TypeOK, Exists
<1>2. o \in Op /\ o.step = s /\ o.kind = kind /\ o.base = project /\ o.new = new
  BY <1>1, IdleType DEF Op
<1>3. Becomes(p, o) /\ Shape(o)
  BY DEF Begin
<1> HIDE DEF o
<1>4. op'[p] = o
  BY <1>3, Own DEF Becomes, IInv
<1>5. ASSUME NEW f \in Contents, Agreed(f) PROVE Sound(f, p, op[p])'
  <2>1. project.edit = f[project.rev] /\ (project.rev > 0 => project.schema = 2)
    BY <1>5 DEF Agreed, Stored, Exists
  <2>2. project.rev <= project.rev
    BY <1>1 DEF Project, Revisions
  <2> QED BY <1>2, <1>3, <1>4, <2>1, <2>2 DEF Sound, Holding
<1>6. lock' \in Servers \cup {Nobody, Orphan}
  BY DEF IInv, TypeOK
<1> QED BY <1>2, <1>3, <1>5, <1>6, OneServer

-----------------------------------------------------------------------------
\* The operations

LEMMA EditShape ==
  ASSUME NEW d \in Project, d.rev < MaxRevision, NEW e \in Edits,
         NEW automated \in BOOLEAN, NEW claimed \in BOOLEAN, MayRevise(d, automated)
  PROVE  Shape([Idle EXCEPT !.step = "lock", !.kind = "edit", !.base = d,
                            !.new = Revised(d, e, automated, claimed)])
<1> DEFINE n == Revised(d, e, automated, claimed)
           o == [Idle EXCEPT !.step = "lock", !.kind = "edit", !.base = d, !.new = n]
<1>1. \E x \in Edits, y, z \in BOOLEAN : MayRevise(d, y) /\ n = Revised(d, x, y, z)
  OBVIOUS
<1> HIDE DEF n
<1>2. o.step = "lock" /\ o.kind = "edit" /\ o.base = d /\ o.new = n
  BY DEF Idle
<1> HIDE DEF o
<1>3. Shape(o)
  BY <1>1, <1>2 DEF Shape, Kinds
<1> QED BY <1>3 DEF n, o

LEMMA BeginEdit ==
  ASSUME IInv, NEW p \in Servers, Exists, project.rev < MaxRevision, NEW e \in Edits,
         NEW automated \in BOOLEAN, NEW claimed \in BOOLEAN, MayRevise(project, automated),
         Begin(p, "edit", "lock", Revised(project, e, automated, claimed)),
         UNCHANGED <<project, lock, renders, judgments>>
  PROVE  IInv'
<1>1. project \in Project
  BY DEF IInv, TypeOK, Exists
<1>2. Revised(project, e, automated, claimed) \in Project
  BY <1>1, RevisedType
<1>3. "lock" \in Steps \ (Holding \cup {"idle", "record"})
  BY DEF Steps, Holding
<1>4. Shape([Idle EXCEPT !.step = "lock", !.kind = "edit", !.base = project,
                         !.new = Revised(project, e, automated, claimed)])
  BY <1>1, EditShape
<1>5. Revised(project, e, automated, claimed) \in Project \cup {NoProject}
  BY <1>2
<1> DEFINE n == Revised(project, e, automated, claimed)
<1>6. Begin(p, "edit", "lock", n)
  OBVIOUS
<1> HIDE DEF n
<1>7. /\ "edit" \in {"edit", "judge"} \cup Kinds /\ "edit" # "final"
      /\ n \in Project \cup {NoProject}
      /\ Shape([Idle EXCEPT !.step = "lock", !.kind = "edit", !.base = project, !.new = n])
  BY <1>4, <1>5 DEF n
<1> QED BY <1>3, <1>6, <1>7, BeginKeeps

LEMMA CreateKeeps ==
  ASSUME IInv, NEW p \in Servers, CreateProject(p)
  PROVE  IInv'
<1>1. PICK e \in Edits :
        Becomes(p, [Idle EXCEPT !.step = "lock", !.kind = "create", !.new = NewProject(e)])
  BY DEF CreateProject
<1> DEFINE n == NewProject(e)
           o == [Idle EXCEPT !.step = "lock", !.kind = "create", !.new = n]
<1>2. n \in Project /\ \E x \in Edits : n = NewProject(x)
  BY NewProjectType
<1> HIDE DEF n
<1>3. o \in Op
  BY <1>2, IdleType DEF Op, Steps
<1>4. o.step = "lock" /\ o.kind = "create" /\ o.base = NoProject /\ o.new = n
  BY DEF Idle
<1>5. Becomes(p, o)
  BY <1>1 DEF n
<1> HIDE DEF o
<1>6. op'[p] = o
  BY <1>5, Own DEF Becomes, IInv
<1>7. Shape(o)
  BY <1>2, <1>4, MissingIsNot DEF Shape, Kinds
<1>8. \A f \in Contents : Sound(f, p, op[p])'
  BY <1>4, <1>6, <1>7 DEF Sound, Holding
<1>9. lock' \in Servers \cup {Nobody, Orphan} /\ lock' = lock
  BY DEF IInv, TypeOK, CreateProject
<1> QED BY <1>3, <1>5, <1>8, <1>9, OneServer DEF CreateProject

LEMMA EditsKeep ==
  ASSUME IInv, NEW p \in Servers, ReviseProject(p) \/ ApplyProfile(p) \/ ApplyEditorial(p)
  PROVE  IInv'
<1>1. TRUE \in BOOLEAN /\ FALSE \in BOOLEAN
  OBVIOUS
<1>2. CASE ReviseProject(p)
  BY <1>2, BeginEdit DEF ReviseProject
<1>3. CASE ApplyProfile(p)
  BY <1>1, <1>3, BeginEdit DEF ApplyProfile
<1>4. CASE ApplyEditorial(p)
  BY <1>1, <1>4, BeginEdit DEF ApplyEditorial
<1> QED BY <1>2, <1>3, <1>4

LEMMA RenderShape ==
  ASSUME NEW d \in Project, NEW kind \in Kinds, kind = "final" => PreviewReady(d)
  PROVE  Shape([Idle EXCEPT !.step = IF kind = "preview" THEN "look" ELSE "gate",
                            !.kind = kind, !.base = d, !.new = Marked(d, kind)])
<1> DEFINE n == Marked(d, kind)
           s == IF kind = "preview" THEN "look" ELSE "gate"
           o == [Idle EXCEPT !.step = s, !.kind = kind, !.base = d, !.new = n]
<1>1. n = Marked(d, kind)
  OBVIOUS
<1>2. s \in {"look", "gate"} /\ (s = "gate" => kind = "final")
  BY DEF Kinds
<1> HIDE DEF n, s
<1>3. o.step = s /\ o.kind = kind /\ o.base = d /\ o.new = n
  BY DEF Idle
<1> HIDE DEF o
<1>4. Shape(o)
  BY <1>1, <1>2, <1>3 DEF Shape, Kinds
<1> QED BY <1>4 DEF n, o, s

LEMMA RendersKeep ==
  ASSUME IInv, NEW p \in Servers, RenderPreview(p) \/ RenderFinal(p)
  PROVE  IInv'
<1>1. "look" \in Steps \ (Holding \cup {"idle", "record"})
      /\ "gate" \in Steps \ (Holding \cup {"idle", "record"})
      /\ "preview" \in Kinds /\ "final" \in Kinds /\ "final" # "preview"
  BY DEF Steps, Holding, Kinds
<1>2. project \in Project
  BY DEF IInv, TypeOK, Exists, RenderPreview, RenderFinal
<1>3. Marked(project, "preview") \in Project /\ Marked(project, "final") \in Project
  BY <1>1, <1>2, MarkedType
<1>4. CASE RenderPreview(p)
  <2>1. Shape([Idle EXCEPT !.step = "look", !.kind = "preview", !.base = project,
                           !.new = Marked(project, "preview")])
    BY <1>1, <1>2, RenderShape
  <2> QED BY <1>1, <1>3, <1>4, <2>1, BeginKeeps DEF RenderPreview
<1>5. CASE RenderFinal(p)
  <2>1. Shape([Idle EXCEPT !.step = "gate", !.kind = "final", !.base = project,
                           !.new = Marked(project, "final")])
    BY <1>1, <1>2, <1>5, RenderShape DEF RenderFinal
  <2> QED BY <1>1, <1>3, <1>5, <2>1, BeginKeeps DEF RenderFinal
<1> QED BY <1>4, <1>5

LEMMA JudgeKeeps ==
  ASSUME IInv, NEW p \in Servers, JudgePreview(p)
  PROVE  IInv'
<1>1. "digest" \in Steps \ (Holding \cup {"idle", "record"})
  BY DEF Steps, Holding
<1>2. project \in Project
  BY DEF IInv, TypeOK, Exists, JudgePreview
<1>3. Shape([Idle EXCEPT !.step = "digest", !.kind = "judge", !.base = project,
                         !.new = NoProject])
  BY <1>2 DEF Shape, Idle, Kinds, JudgePreview
<1> QED BY <1>1, <1>3, BeginKeeps DEF JudgePreview, Kinds

\* What the invariant says of the operation of one server.
LEMMA Known ==
  ASSUME IInv, NEW p \in Servers
  PROVE  /\ Shape(op[p]) /\ op[p] \in Op /\ TypeOK
         /\ op[p].step \in Holding => lock = p
         /\ op[p].step = "write" /\ op[p].kind # "create" => project = op[p].base
         /\ \E f \in Contents : Agreed(f) /\ Sound(f, p, op[p])
  BY Own DEF IInv, Agreed, Sound

LEMMA LockKeeps ==
  ASSUME IInv, NEW p \in Servers, TakeLock(p) \/ TakeLockFails(p) \/ WaitForLock(p)
  PROVE  IInv'
<1>1. op[p].step = "lock" /\ op[p].kind # "judge" /\ op[p].step \notin {"idle", "gate"}
  BY Known DEF Shape, TakeLock, TakeLockFails, WaitForLock, At
<1>2. lock \in Servers \cup {Nobody, Orphan}
  BY Known DEF TypeOK
<1>3. CASE TakeLock(p)
  <2> DEFINE s == IF op[p].kind = "create" THEN "write" ELSE "load"
  <2>1. s \in Steps \ {"idle", "record", "gate"} /\ s \in {"write", "load"}
    BY DEF Steps
  <2>2. Goto(p, s) /\ (s = "write" => op[p].kind = "create")
    BY <1>3 DEF TakeLock
  <2>3. lock' = p /\ lock = Nobody /\ UNCHANGED <<project, renders, judgments>>
    BY <1>3 DEF TakeLock
  <2> HIDE DEF s
  <2> QED BY <1>1, <2>1, <2>2, <2>3, GotoKeeps
<1>4. CASE TakeLockFails(p)
  BY <1>1, <1>4, GiveUpKeeps DEF TakeLockFails
<1>5. CASE WaitForLock(p)
  <2>1. CASE op[p].tries + 1 < LockAttempts
    <3> DEFINE t == op[p].tries + 1
               o == [op[p] EXCEPT !.tries = t]
    <3>1. t \in 0..LockAttempts
      BY <2>1, Known, WorkflowConstants DEF Op
    <3>2. Becomes(p, o)
      BY <1>5, <2>1 DEF WaitForLock
    <3> HIDE DEF t
    <3>3. /\ o \in Op /\ o.step = op[p].step /\ o.kind = op[p].kind /\ o.base = op[p].base
          /\ o.new = op[p].new /\ o.shows = op[p].shows
      BY <3>1, Known DEF Op
    <3> HIDE DEF o
    <3>4. op'[p] = o
      BY <3>2, Known DEF Becomes, TypeOK
    <3>5. Shape(o)
      BY <1>1, <3>3, Known DEF Shape
    <3>6. \A f \in Contents : Agreed(f) => Sound(f, p, op[p])'
      BY <1>1, <1>5, <3>3, <3>4, <3>5 DEF Agreed, Sound, WaitForLock
    <3> QED BY <1>2, <1>5, <3>2, <3>3, <3>6, OneServer DEF WaitForLock
  <2>2. CASE ~(op[p].tries + 1 < LockAttempts)
    BY <1>1, <1>2, <1>5, <2>2, GiveUpKeeps DEF WaitForLock
  <2> QED BY <2>1, <2>2
<1> QED BY <1>3, <1>4, <1>5

LEMMA CompareKeeps ==
  ASSUME IInv, NEW p \in Servers, Compare(p)
  PROVE  IInv'
<1> DEFINE s == IF project = op[p].base THEN "write" ELSE "release"
<1>1. s \in Steps \ {"idle", "record", "gate"} /\ s \in {"write", "release"}
      /\ (s = "write" => project = op[p].base)
  BY DEF Steps
<1>2. Goto(p, s)
  BY DEF Compare
<1>3. /\ op[p].step = "load" /\ op[p].kind # "judge" /\ lock = p /\ lock' = p
      /\ UNCHANGED <<project, lock, renders, judgments>>
  BY Known DEF Compare, At, Holding, Shape
<1> HIDE DEF s
<1> QED BY <1>1, <1>2, <1>3, GotoKeeps

LEMMA ReleaseKeeps ==
  ASSUME IInv, NEW p \in Servers, Release(p)
  PROVE  IInv'
<1>1. /\ op[p].step = "release" /\ op[p].kind # "judge" /\ lock = p
      /\ lock' \in {Nobody, Orphan} /\ UNCHANGED <<project, renders, judgments>>
  BY Known DEF Release, At, Holding, Shape
<1>2. CASE op[p].stored
  BY <1>1, <1>2, EndKeeps DEF Release
<1>3. CASE ~op[p].stored
  BY <1>1, <1>3, GiveUpKeeps DEF Release
<1> QED BY <1>2, <1>3

\* What the gate found for a document of schema 2 is an acceptance of what it says.
LEMMA GateKeeps ==
  ASSUME IInv, NEW p \in Servers, PassGate(p)
  PROVE  IInv'
<1>1. /\ op[p].step = "gate" /\ op[p].kind = "final" /\ op[p].base \in Project
      /\ lock' = lock /\ lock \in Servers \cup {Nobody, Orphan}
      /\ UNCHANGED <<project, renders, judgments>>
  BY Known DEF PassGate, At, Shape, TypeOK
<1>2. CASE Goto(p, "look") /\ op[p].base.schema = 2 /\ Accepted(op[p].base)
  <2>1. PICK f \in Contents : Agreed(f) /\ Sound(f, p, op[p])
    BY Known
  <2>2. PICK j \in judgments : /\ j.project.rev = op[p].base.rev /\ j.verdict = "accept"
                               /\ j.project = op[p].base
                               /\ j.shows = PreviewOf(op[p].base).shows
    BY <1>2 DEF Accepted, JudgmentsOf
  <2>3. j.shows = f[op[p].base.rev] /\ op[p].base.edit = f[op[p].base.rev]
    BY <1>1, <2>1, <2>2, MissingIsNot DEF Agreed, JudgedAs, Sound
  <2>4. j = Acceptance(op[p].base)
    <3>1. j \in Judgment
      BY Known, <2>2 DEF TypeOK
    <3> QED BY <2>2, <2>3, <3>1 DEF Judgment, Acceptance
  <2>5. "look" \in Steps \ {"idle", "record", "gate"} /\ "look" \notin Holding
    BY DEF Steps, Holding
  <2>6. op[p].kind \in Kinds
    BY <1>1 DEF Kinds
  <2> QED BY <1>1, <1>2, <2>2, <2>4, <2>5, <2>6, GotoKeeps
<1>3. CASE Goto(p, "look") /\ op[p].base.schema # 2
  <2>1. "look" \in Steps \ {"idle", "record", "gate"} /\ "look" \notin Holding
    BY DEF Steps, Holding
  <2>2. op[p].kind \in Kinds
    BY <1>1 DEF Kinds
  <2> QED BY <1>1, <1>3, <2>1, <2>2, GotoKeeps
<1>4. CASE End(p)
  BY <1>1, <1>4, EndKeeps
<1> QED BY <1>2, <1>3, <1>4 DEF PassGate

LEMMA LookKeeps ==
  ASSUME IInv, NEW p \in Servers, LookForArtifact(p)
  PROVE  IInv'
<1>1. /\ op[p].step = "look" /\ op[p].kind \in Kinds /\ op[p].kind # "judge"
      /\ lock' = lock /\ lock \in Servers \cup {Nobody, Orphan}
      /\ UNCHANGED <<project, renders, judgments>>
  BY Known DEF LookForArtifact, At, Shape, TypeOK
<1>2. "rename" \in Steps \ {"idle", "record", "gate"} /\ "rename" \notin Holding
  BY DEF Steps, Holding
<1>3. CASE Goto(p, "rename")
  BY <1>1, <1>2, <1>3, GotoKeeps
<1>4. CASE End(p)
  BY <1>1, <1>4, EndKeeps
<1> QED BY <1>3, <1>4 DEF LookForArtifact

LEMMA WithdrawKeeps ==
  ASSUME IInv, NEW p \in Servers, Withdraw(p)
  PROVE  IInv'
<1>1. /\ op[p].step = "withdraw" /\ op[p].kind \in Kinds /\ op[p].kind # "judge"
      /\ lock' = lock /\ lock \in Servers \cup {Nobody, Orphan}
      /\ UNCHANGED <<project, renders, judgments>>
  BY Known DEF Withdraw, At, Shape, TypeOK
<1>2. "unlink" \in Steps \ {"idle", "record", "gate"} /\ "unlink" \notin Holding
  BY DEF Steps, Holding
<1>3. CASE Goto(p, "unlink")
  BY <1>1, <1>2, <1>3, GotoKeeps
<1>4. CASE End(p)
  BY <1>1, <1>4, EndKeeps
<1> QED BY <1>3, <1>4 DEF Withdraw

LEMMA CrashKeeps ==
  ASSUME IInv, NEW p \in Servers, Crash(p)
  PROVE  IInv'
<1>1. lock \in Servers \cup {Nobody, Orphan}
  BY Known DEF TypeOK
<1> QED BY <1>1, EndKeeps DEF Crash

LEMMA NoteKeeps ==
  ASSUME IInv, NEW p \in Servers, NoteInode(p)
  PROVE  IInv'
<1>1. /\ op[p].step = "note" /\ op[p].kind \in Kinds /\ op[p].kind \notin {"judge", "none", "create"}
      /\ op[p].base # NoProject /\ lock' = lock /\ lock \in Servers \cup {Nobody, Orphan}
      /\ UNCHANGED <<project, renders, judgments>>
  BY Known, MissingIsNot DEF NoteInode, At, Shape, TypeOK, Kinds
<1>2. CASE End(p)
  BY <1>1, <1>2, EndKeeps
<1>3. CASE /\ renders[Slot(p)] # NoFile
           /\ Becomes(p, [op[p] EXCEPT !.step = "lock", !.mine = renders[Slot(p)].by])
  <2> DEFINE w == renders[Slot(p)].by
             o == [op[p] EXCEPT !.step = "lock", !.mine = w]
  <2>1. w \in Servers
    BY <1>1, <1>3, Known, SlotType DEF TypeOK, File
  <2>2. Becomes(p, o)
    BY <1>3
  <2> HIDE DEF w
  <2>3. /\ o \in Op /\ o.step = "lock" /\ o.kind = op[p].kind /\ o.base = op[p].base
        /\ o.new = op[p].new
    BY <2>1, Known DEF Op, Steps
  <2> HIDE DEF o
  <2>4. op'[p] = o
    BY <2>2, Known DEF Becomes, TypeOK
  <2>5. Shape(o)
    BY <1>1, <2>3, Known DEF Shape
  <2>6. \A f \in Contents : Agreed(f) => Sound(f, p, op[p])'
    BY <1>1, <2>3, <2>4, <2>5 DEF Agreed, Sound, Holding
  <2> QED BY <1>1, <2>2, <2>3, <2>6, OneServer
<1> QED BY <1>2, <1>3 DEF NoteInode

LEMMA DigestKeeps ==
  ASSUME IInv, NEW p \in Servers, DigestPreview(p)
  PROVE  IInv'
<1>1. /\ op[p].step = "digest" /\ op[p].kind = "judge" /\ op[p].base \in Project
      /\ lock' = lock /\ lock \in Servers \cup {Nobody, Orphan}
      /\ UNCHANGED <<project, renders, judgments>>
  BY Known DEF DigestPreview, At, Shape, TypeOK
<1>2. CASE End(p)
  BY <1>1, <1>2, EndKeeps
<1>3. CASE /\ PreviewOf(op[p].base) # NoFile
           /\ Becomes(p, [op[p] EXCEPT !.step = "record", !.shows = PreviewOf(op[p].base).shows])
  <2> DEFINE w == PreviewOf(op[p].base).shows
             o == [op[p] EXCEPT !.step = "record", !.shows = w]
  <2>1. op[p].base.rev \in Revisions /\ "preview" \in Kinds
    BY <1>1 DEF Project, Kinds
  <2>2. w \in Edits
    BY <1>3, <2>1, Known DEF TypeOK, File, PreviewOf, Artifact
  <2>3. \A f \in Contents : Agreed(f) => w = f[op[p].base.rev]
    BY <1>3, <2>1 DEF Agreed, Shown, PreviewOf
  <2>4. Becomes(p, o)
    BY <1>3
  <2> HIDE DEF w
  <2>5. /\ o \in Op /\ o.step = "record" /\ o.kind = "judge" /\ o.base = op[p].base
        /\ o.new = op[p].new /\ o.shows = w
    BY <1>1, <2>2, Known DEF Op, Steps
  <2> HIDE DEF o
  <2>6. op'[p] = o
    BY <2>4, Known DEF Becomes, TypeOK
  <2>7. Shape(o)
    BY <1>1, <2>5, Known DEF Shape, Kinds
  <2>8. \A f \in Contents : Agreed(f) => Sound(f, p, op[p])'
    BY <1>1, <2>3, <2>5, <2>6, <2>7 DEF Agreed, Sound, Holding
  <2> QED BY <1>1, <2>4, <2>5, <2>8, OneServer
<1> QED BY <1>2, <1>3 DEF DigestPreview

-----------------------------------------------------------------------------
\* Steps that change a judgment or an artifact

LEMMA RecordKeeps ==
  ASSUME IInv, NEW p \in Servers, RecordJudgment(p)
  PROVE  IInv'
<1>1. PICK v \in {"accept", "revise"} :
        judgments' = IF JudgmentsOf(op[p].base.rev) # {} THEN judgments
                     ELSE judgments \cup {[verdict |-> v, project |-> op[p].base,
                                           shows |-> op[p].shows]}
  BY DEF RecordJudgment
<1> DEFINE j == [verdict |-> v, project |-> op[p].base, shows |-> op[p].shows]
<1>2. /\ op[p].step = "record" /\ op[p].base \in Project /\ op[p].base # NoProject
      /\ End(p) /\ UNCHANGED <<project, lock, renders>>
  BY Known, MissingIsNot DEF RecordJudgment, At, Shape
<1>3. judgments \subseteq judgments' /\ judgments' \subseteq judgments \cup {j}
  BY <1>1
<1>4. PICK f \in Contents : Agreed(f) /\ Sound(f, p, op[p])
  BY Known
<1>5. /\ op[p].base.rev \in Revisions /\ op[p].base.rev <= project.rev
      /\ op[p].base.edit = f[op[p].base.rev] /\ op[p].shows = f[op[p].base.rev]
  BY <1>2, <1>4 DEF Sound, Project
<1>6. op[p].shows \in Edits
  BY <1>2, <1>5 DEF Project
<1>7. /\ j \in Judgment /\ j.project = op[p].base /\ j.shows = op[p].shows
  BY <1>2, <1>6 DEF Judgment
<1> HIDE DEF j
<1>8. TypeOK'
  BY <1>2, <1>3, <1>7, EndType DEF IInv, TypeOK
<1>9. FinalsWereAccepted'
  BY <1>2, <1>3 DEF IInv, FinalsWereAccepted, JudgmentsOf, Artifact
<1>10. (Stored(f) /\ Shown(f))'
  BY <1>2, <1>4 DEF Agreed, Stored, Shown, Artifact
<1>11. JudgedAs(f)'
  BY <1>2, <1>3, <1>4, <1>5, <1>7 DEF Agreed, JudgedAs
<1>12. ASSUME NEW q \in Servers PROVE Sound(f, q, op[q])'
  <2>1. CASE q = p
    BY <1>2, <2>1, EndSound DEF IInv
  <2>2. CASE q # p
    <3>1. op'[q] = op[q] /\ Sound(f, q, op[q])
      BY <1>2, <1>4, <2>2, Own DEF End, Becomes, Agreed, IInv
    <3> QED BY <1>2, <1>3, <3>1 DEF Sound
  <2> QED BY <2>1, <2>2
<1> QED BY <1>4, <1>8, <1>9, <1>10, <1>11, <1>12 DEF IInv, Agreed

\* An artifact of the operation's revision and kind appears, which shows the operation's
\* document, or goes.
LEMMA ArtifactKeeps ==
  ASSUME IInv, NEW p \in Servers, op[p].kind \in Kinds, op[p].step \notin {"idle", "gate"},
         NEW fl \in File \cup {NoFile}, renders' = [renders EXCEPT ![Slot(p)] = fl],
         fl # NoFile => fl.shows = op[p].base.edit,
         UNCHANGED <<project, lock, judgments>>,
         NEW o \in Op, Becomes(p, o),
         \A f \in Contents : Agreed(f) => Sound(f, p, op[p])'
  PROVE  IInv'
<1>1. op[p].base \in Project /\ op[p].base # NoProject
  BY Known, MissingIsNot DEF Shape, Kinds
<1>2. Slot(p) \in Revisions \X Kinds /\ op[p].base.rev \in Revisions
  BY <1>1, SlotType, Known DEF Project
<1>3. PICK f \in Contents : Agreed(f) /\ Sound(f, p, op[p])
  BY Known
<1>4. TypeOK'
  BY <1>2, OpType DEF IInv, TypeOK
<1>5. ASSUME NEW r \in Revisions, NEW k \in Kinds
      PROVE  Artifact(r, k)' = IF r = op[p].base.rev /\ k = op[p].kind THEN fl ELSE Artifact(r, k)
  <2>1. renders \in [Revisions \X Kinds -> File \cup {NoFile}]
    BY DEF IInv, TypeOK
  <2>2. <<r, k>> \in Revisions \X Kinds
    OBVIOUS
  <2>3. <<r, k>> = Slot(p) <=> r = op[p].base.rev /\ k = op[p].kind
    BY DEF Slot
  <2> QED BY <1>2, <2>1, <2>2, <2>3 DEF Artifact
<1>6. Shown(f)'
  <2> SUFFICES ASSUME NEW r \in Revisions, NEW k \in Kinds, Artifact(r, k)' # NoFile
               PROVE  r <= project.rev /\ Artifact(r, k)'.shows = f[r]
    BY DEF Shown
  <2>1. CASE r = op[p].base.rev /\ k = op[p].kind
    BY <1>1, <1>3, <1>5, <2>1 DEF Sound
  <2>2. CASE ~(r = op[p].base.rev /\ k = op[p].kind)
    BY <1>3, <1>5, <2>2 DEF Agreed, Shown
  <2> QED BY <2>1, <2>2
<1>7. (Stored(f) /\ JudgedAs(f))'
  BY <1>3 DEF Agreed, Stored, JudgedAs
<1>8. FinalsWereAccepted'
  <2> SUFFICES ASSUME NEW r \in Revisions, r > 0, Artifact(r, "final")' # NoFile
               PROVE  \E j \in judgments : /\ j.project.rev = r /\ j.verdict = "accept"
                                           /\ j.shows = Artifact(r, "final")'.shows
    BY DEF FinalsWereAccepted, JudgmentsOf
  <2>1. "final" \in Kinds
    BY DEF Kinds
  <2>2. CASE r = op[p].base.rev /\ "final" = op[p].kind
    <3>1. Artifact(r, "final")'.shows = op[p].base.edit
      BY <1>5, <2>1, <2>2
    <3>2. Acceptance(op[p].base) \in judgments
      BY <1>1, <1>3, <2>2 DEF Sound
    <3> QED BY <2>2, <3>1, <3>2 DEF Acceptance
  <2>3. CASE ~(r = op[p].base.rev /\ "final" = op[p].kind)
    BY <1>5, <2>1, <2>3 DEF IInv, FinalsWereAccepted, JudgmentsOf
  <2> QED BY <2>2, <2>3
<1>9. ASSUME NEW q \in Servers PROVE Sound(f, q, op[q])'
  <2>1. CASE q = p
    BY <1>3, <2>1
  <2>2. CASE q # p
    <3>1. op'[q] = op[q] /\ Sound(f, q, op[q])
      BY <1>3, <2>2, Own DEF Becomes, Agreed, IInv
    <3> QED BY <3>1 DEF Sound
  <2> QED BY <2>1, <2>2
<1> QED BY <1>3, <1>4, <1>6, <1>7, <1>8, <1>9 DEF IInv, Agreed

LEMMA PublishKeeps ==
  ASSUME IInv, NEW p \in Servers, Publish(p)
  PROVE  IInv'
<1>1. /\ op[p].step = "rename" /\ op[p].kind \in Kinds /\ op[p].kind # "judge"
      /\ op[p].base \in Project
      /\ Goto(p, "note") /\ UNCHANGED <<project, lock, judgments>>
  BY Known DEF Publish, At, Shape, Kinds
<1> DEFINE fl == [by |-> p, shows |-> op[p].base.edit]
<1>2. fl \in File /\ fl.shows = op[p].base.edit
  BY <1>1 DEF File, Project
<1>3. renders' = [renders EXCEPT ![Slot(p)] = fl]
  BY DEF Publish
<1> HIDE DEF fl
<1>4. "note" \in Steps \ {"idle", "record", "gate"} /\ "note" \notin Holding
  BY DEF Steps, Holding
<1>5. [op[p] EXCEPT !.step = "note"] \in Op
  BY <1>4, Known DEF Op
<1>6. \A f \in Contents : Agreed(f) => Sound(f, p, op[p])'
  BY <1>1, <1>4, Known, GotoSound DEF Agreed
<1> QED BY <1>1, <1>2, <1>3, <1>5, <1>6, ArtifactKeeps DEF Goto

LEMMA UnlinkKeeps ==
  ASSUME IInv, NEW p \in Servers, Unlink(p)
  PROVE  IInv'
<1>1. /\ op[p].step = "unlink" /\ op[p].kind \in Kinds
      /\ End(p) /\ UNCHANGED <<project, lock, judgments>>
      /\ renders' = [renders EXCEPT ![Slot(p)] = NoFile]
  BY Known DEF Unlink, At, Shape
<1>2. \A f \in Contents : Sound(f, p, op[p])'
  BY <1>1, Known, EndSound
<1> QED BY <1>1, <1>2, IdleType, ArtifactKeeps DEF End

-----------------------------------------------------------------------------
\* The step that replaces the document

\* What an operation that holds the lock file may store.
LEMMA NewDocument ==
  ASSUME IInv, NEW p \in Servers, op[p].step = "write", op[p].kind = "create" => ~Exists,
         NEW f \in Contents, Agreed(f)
  PROVE  LET n == op[p].new IN
         /\ n \in Project
         /\ n.rev > 0 => n.schema = 2
         /\ n.rev > project.rev \/ (n.rev = project.rev /\ n.edit = f[n.rev])
<1>1. /\ Shape(op[p]) /\ op[p].kind \notin {"none", "judge"} /\ op[p] \in Op
      /\ op[p].kind # "create" => project = op[p].base
      /\ Sound(f, p, op[p])
  BY Known DEF Shape, Agreed
<1>2. CASE op[p].kind = "create"
  <2>1. PICK e \in Edits : op[p].new = NewProject(e)
    BY <1>1, <1>2 DEF Shape
  <2>2. project.rev = -1
    BY <1>2 DEF Exists, NoProject
  <2> QED BY <2>1, <2>2, NewProjectType DEF NewProject
<1>3. CASE op[p].kind = "edit"
  <2>1. /\ op[p].base \in Project /\ op[p].base.rev < MaxRevision /\ project = op[p].base
    BY <1>1, <1>3 DEF Shape
  <2>2. PICK e \in Edits, automated \in BOOLEAN, claimed \in BOOLEAN :
               /\ MayRevise(op[p].base, automated)
               /\ op[p].new = Revised(op[p].base, e, automated, claimed)
    BY <1>1, <1>3 DEF Shape
  <2>3. op[p].new \in Project
    BY <2>1, <2>2, RevisedType
  <2>4. op[p].new.schema = 2 /\ op[p].new.rev = project.rev + 1
    BY <2>1, <2>2 DEF Revised
  <2> QED BY <2>1, <2>3, <2>4 DEF Project, Revisions
<1>4. CASE op[p].kind \in Kinds
  <2>1. op[p].base \in Project /\ project = op[p].base /\ op[p].new = Marked(project, op[p].kind)
    BY <1>1, <1>4 DEF Shape, Kinds
  <2>2. op[p].new \in Project
    BY <1>4, <2>1, MarkedType
  <2>3. /\ op[p].new.rev = project.rev /\ op[p].new.edit = project.edit
        /\ op[p].new.schema = project.schema
    BY <2>1 DEF Marked, Project
  <2>4. project.edit = f[project.rev] /\ (project.rev > 0 => project.schema = 2)
    BY <1>1, <2>1, MissingIsNot DEF Sound
  <2> QED BY <2>2, <2>3, <2>4
<1> QED BY <1>1, <1>2, <1>3, <1>4 DEF Op

LEMMA StoreKeeps ==
  ASSUME IInv, NEW p \in Servers, op[p].step = "write", op[p].kind = "create" => ~Exists,
         project' = op[p].new, UNCHANGED <<lock, renders, judgments>>,
         NEW o \in Op, Becomes(p, o), o.step = "release",
         o.kind = op[p].kind, o.base = op[p].base, o.new = op[p].new
  PROVE  IInv'
<1>1. PICK f \in Contents : Agreed(f) /\ Sound(f, p, op[p])
  BY Known
<1>2. /\ op[p].new \in Project
      /\ op[p].new.rev > 0 => op[p].new.schema = 2
      /\ \/ op[p].new.rev > project.rev
         \/ op[p].new.rev = project.rev /\ op[p].new.edit = f[op[p].new.rev]
  BY <1>1, NewDocument
<1>3. PICK n \in Project : n = op[p].new
  BY <1>2
<1>4. /\ project' = n
      /\ n.rev > 0 => n.schema = 2
      /\ n.rev > project.rev \/ (n.rev = project.rev /\ n.edit = f[n.rev])
      /\ n.rev \in Revisions /\ n.edit \in Edits /\ project.rev \in Revisions \cup {-1}
  BY <1>2, <1>3, Known DEF Project, TypeOK, NoProject
<1>5. PICK g \in Contents : g = [f EXCEPT ![n.rev] = n.edit]
  BY <1>4 DEF Contents
<1>6. /\ g[n.rev] = n.edit
      /\ \A r \in Revisions : r <= project.rev => r <= n.rev /\ g[r] = f[r]
  BY <1>4, <1>5 DEF Contents, Revisions
<1>7. TypeOK'
  BY <1>4, OpType DEF IInv, TypeOK
<1>8. FinalsWereAccepted'
  BY DEF IInv, FinalsWereAccepted, JudgmentsOf, Artifact
<1>9. Stored(g)'
  BY <1>4, <1>6 DEF Stored
<1>10. Shown(g)'
  BY <1>1, <1>4, <1>6 DEF Agreed, Shown, Artifact
<1>11. JudgedAs(g)'
  <2>1. \A j \in judgments : j.project.rev \in Revisions
    BY Known DEF TypeOK, Judgment, Project
  <2> QED BY <1>1, <1>4, <1>6, <2>1 DEF Agreed, JudgedAs
<1>12. ASSUME NEW q \in Servers PROVE Sound(g, q, op[q])'
  <2>1. Sound(f, q, op[q]) /\ op[q] \in Op
    BY <1>1, Known DEF Agreed
  <2>2. op[q].base # NoProject => /\ op[q].base.rev \in Revisions
                                  /\ op[q].base.rev <= n.rev
                                  /\ g[op[q].base.rev] = f[op[q].base.rev]
    BY <1>6, <2>1 DEF Sound, Op, Project
  <2>3. CASE q = p
    <3>1. op'[q] = o
      BY <2>3, Own DEF Becomes, IInv
    <3>2. Shape(o) /\ lock = p
      BY <2>1, <2>3 DEF Sound, Shape, Holding
    <3> QED BY <1>4, <2>1, <2>2, <2>3, <3>1, <3>2 DEF Sound
  <2>4. CASE q # p
    <3>1. op'[q] = op[q]
      BY <2>4, Own DEF Becomes, IInv
    <3>2. op[q].step \notin Holding
      BY <1>1, <2>1, <2>4 DEF Sound, Holding
    <3>3. op[q].step = "record" => op[q].base # NoProject
      BY <2>1, MissingIsNot DEF Sound, Shape
    <3> QED BY <1>4, <2>1, <2>2, <3>1, <3>2, <3>3 DEF Sound, Holding
  <2> QED BY <2>3, <2>4
<1> QED BY <1>5, <1>7, <1>8, <1>9, <1>10, <1>11, <1>12 DEF IInv, Agreed

LEMMA WriteKeeps ==
  ASSUME IInv, NEW p \in Servers, Write(p)
  PROVE  IInv'
<1>1. /\ op[p].step = "write" /\ lock = p /\ op[p].kind # "judge" /\ op[p] \in Op
      /\ lock \in Servers \cup {Nobody, Orphan}
      /\ UNCHANGED <<lock, renders, judgments>>
  BY Known DEF Write, At, Holding, Shape
<1>2. CASE op[p].kind = "create" /\ Exists
  <2>1. Goto(p, "release") /\ UNCHANGED project
    BY <1>2 DEF Write
  <2>2. "release" \in Steps \ {"idle", "record", "gate"}
    BY DEF Steps
  <2> QED BY <1>1, <2>1, <2>2, GotoKeeps
<1>3. CASE ~(op[p].kind = "create" /\ Exists)
  <2> DEFINE o == [op[p] EXCEPT !.step = "release", !.stored = TRUE]
  <2>1. project' = op[p].new /\ Becomes(p, o)
    BY <1>3 DEF Write
  <2>2. /\ o \in Op /\ o.step = "release"
        /\ o.kind = op[p].kind /\ o.base = op[p].base /\ o.new = op[p].new
    BY <1>1 DEF Op, Steps
  <2> HIDE DEF o
  <2> QED BY <1>1, <1>3, <2>1, <2>2, StoreKeeps
<1> QED BY <1>2, <1>3

LEMMA WriteFailsKeeps ==
  ASSUME IInv, NEW p \in Servers, WriteFails(p)
  PROVE  IInv'
<1>1. /\ op[p].step = "write" /\ lock = p /\ op[p].kind # "judge" /\ op[p] \in Op
      /\ lock \in Servers \cup {Nobody, Orphan}
      /\ op[p].kind = "create" => ~Exists
      /\ Goto(p, "release")
      /\ UNCHANGED <<lock, renders, judgments>>
  BY Known DEF WriteFails, At, Holding, Shape
<1>2. CASE project' = project
  <2>1. "release" \in Steps \ {"idle", "record", "gate"}
    BY DEF Steps
  <2> QED BY <1>1, <1>2, <2>1, GotoKeeps
<1>3. CASE project' = op[p].new
  <2> DEFINE o == [op[p] EXCEPT !.step = "release"]
  <2>1. Becomes(p, o)
    BY <1>1 DEF Goto
  <2>2. /\ o \in Op /\ o.step = "release"
        /\ o.kind = op[p].kind /\ o.base = op[p].base /\ o.new = op[p].new
    BY <1>1 DEF Op, Steps
  <2> HIDE DEF o
  <2> QED BY <1>1, <1>3, <2>1, <2>2, StoreKeeps
<1> QED BY <1>2, <1>3 DEF WriteFails

-----------------------------------------------------------------------------
\* The invariant is inductive

LEMMA InitKeeps == Init => IInv
<1> SUFFICES ASSUME Init PROVE IInv
  OBVIOUS
<1>1. op \in [Servers -> Op] /\ \A p \in Servers : op[p] = Idle
  BY IdleType DEF Init
<1>2. renders \in [Revisions \X Kinds -> File \cup {NoFile}]
      /\ \A r \in Revisions, k \in Kinds : Artifact(r, k) = NoFile
  BY DEF Init, Artifact
<1>3. TypeOK
  BY <1>1, <1>2 DEF Init, TypeOK
<1>4. FinalsWereAccepted
  BY <1>2 DEF FinalsWereAccepted, Kinds
<1>5. PICK f \in Contents : f = [r \in Revisions |-> NoEdit]
  BY DEF Contents
<1>6. Stored(f) /\ Shown(f) /\ JudgedAs(f)
  BY <1>2 DEF Init, Stored, Shown, JudgedAs
<1>7. ASSUME NEW p \in Servers PROVE Sound(f, p, op[p])
  BY <1>1 DEF Sound, Shape, Idle, Holding, Kinds
<1> QED BY <1>3, <1>4, <1>6, <1>7 DEF IInv, Agreed

LEMMA StutterKeeps == ASSUME IInv, UNCHANGED vars PROVE IInv'
  BY DEF vars, IInv, TypeOK, FinalsWereAccepted, Agreed, Stored, Shown, JudgedAs, Sound,
         Artifact, JudgmentsOf

LEMMA NextKeeps == IInv /\ [Next]_vars => IInv'
<1> SUFFICES ASSUME IInv, [Next]_vars PROVE IInv'
  OBVIOUS
<1>1. ASSUME NEW p \in Servers, Start(p) PROVE IInv'
  BY <1>1, CreateKeeps, EditsKeep, RendersKeep, JudgeKeeps DEF Start
<1>2. ASSUME NEW p \in Servers, Continue(p) PROVE IInv'
  BY <1>2, LockKeeps, CompareKeeps, WriteKeeps, WriteFailsKeeps, ReleaseKeeps, GateKeeps,
     LookKeeps, PublishKeeps, NoteKeeps, WithdrawKeeps, UnlinkKeeps, DigestKeeps, RecordKeeps
     DEF Continue
<1>3. ASSUME NEW p \in Servers, Crash(p) PROVE IInv'
  BY <1>3, CrashKeeps
<1> QED BY <1>1, <1>2, <1>3, StutterKeeps DEF Next

LEMMA Invariance == Spec => []IInv
  BY InitKeeps, NextKeeps, PTL DEF Spec

\* The state of the document, the lock file, the artifacts, the judgments and the operations
\* stays of the types the code declares (types.ts:24-129), whatever the servers do.
THEOREM TypesOK == Spec => []TypeOK
<1>1. IInv => TypeOK
  BY DEF IInv
<1> QED BY <1>1, Invariance, PTL

\* A final of a revision with schema 2 that is on disk was accepted: a judgment of that
\* revision accepts what the final shows (session-store-service.ts:719-738).
THEOREM FinalsAreAccepted == Spec => []FinalsWereAccepted
<1>1. IInv => FinalsWereAccepted
  BY DEF IInv
<1> QED BY <1>1, Invariance, PTL

-----------------------------------------------------------------------------
\* The refinement

AbstractVars == <<project, judgments>>

LEMMA Names == NoProject = History!Missing /\ (Exists <=> History!Exists)
  BY DEF NoProject, History!Missing, Exists, History!Exists

\* The document is replaced by the next step of its history.
LEMMA StoreImplements ==
  ASSUME IInv, NEW p \in Servers, op[p].step = "write", op[p].kind = "create" => ~Exists,
         project' = op[p].new
  PROVE  History!Create \/ History!Revise \/ History!MarkReady \/ History!MarkRendered
<1>1. /\ Shape(op[p]) /\ op[p].kind \notin {"none", "judge"} /\ op[p] \in Op
      /\ op[p].kind # "create" => project = op[p].base
  BY Known DEF Shape
<1>2. CASE op[p].kind = "create"
  <2>1. PICK e \in Edits : project' = NewProject(e)
    BY <1>1, <1>2 DEF Shape
  <2> QED BY <1>2, <2>1, Names DEF NewProject, History!Create
<1>3. CASE op[p].kind = "edit"
  <2>1. project \in Project /\ project = op[p].base
    BY <1>1, <1>3 DEF Shape
  <2>2. PICK e \in Edits, automated \in BOOLEAN, claimed \in BOOLEAN :
               /\ MayRevise(project, automated)
               /\ project' = Revised(project, e, automated, claimed)
    BY <1>1, <1>3, <2>1 DEF Shape
  <2>3. History!Exists
    BY <2>1, Names, MissingIsNot DEF Exists
  <2>4. PICK a \in {project.auto, project.auto + 1} :
               a = (IF automated THEN project.auto + 1 ELSE project.auto)
    OBVIOUS
  <2>5. PICK status \in {"stale", "rendered"} :
               status = (IF claimed THEN "rendered" ELSE "stale")
    OBVIOUS
  <2>6. PICK r \in {project.rev, project.rev + 1} :
               r = (IF claimed THEN project.rev + 1 ELSE project.rev)
    OBVIOUS
  <2>7. a <= AutoLimit
    BY <2>1, <2>2, <2>4, WorkflowConstants DEF MayRevise, Project
  <2>8. project' = [rev |-> project.rev + 1, schema |-> 2, edit |-> e, auto |-> a,
                    preview |-> status, shown |-> r]
    BY <2>2, <2>4, <2>5, <2>6 DEF Revised
  <2> QED BY <2>3, <2>7, <2>8 DEF History!Revise
<1>4. CASE op[p].kind \in Kinds
  <2>1. project \in Project /\ project = op[p].base /\ project' = Marked(project, op[p].kind)
    BY <1>1, <1>4 DEF Shape, Kinds
  <2>2. CASE op[p].kind = "preview"
    <3>1. project' = [project EXCEPT !.preview = "ready", !.shown = project.rev]
      BY <2>1, <2>2 DEF Marked
    <3> QED BY <2>1, <3>1, Names, MissingIsNot DEF Exists, History!MarkReady
  <2>3. CASE op[p].kind = "final"
    <3>1. project.preview = "ready" /\ project.shown = project.rev
      BY <1>1, <2>1, <2>3 DEF Shape, PreviewReady
    <3>2. project.schema = 2 => Acceptance(project) \in judgments
      BY <2>1, <2>3, Known DEF Sound
    <3>3. project' = [project EXCEPT !.preview = "rendered", !.shown = project.rev]
      BY <2>1, <2>3 DEF Marked
    <3>4. project' = [project EXCEPT !.preview = "rendered"]
      BY <2>1, <3>1, <3>3 DEF Project
    <3> QED BY <3>1, <3>2, <3>4 DEF Acceptance, History!MarkRendered
  <2> QED BY <1>4, <2>2, <2>3 DEF Kinds
<1> QED BY <1>1, <1>2, <1>3, <1>4 DEF Op

\* A judgment is the first of its revision, and about a document and a preview that agree.
LEMMA RecordImplements ==
  ASSUME IInv, NEW p \in Servers, RecordJudgment(p)
  PROVE  [History!Next]_AbstractVars
<1>1. /\ op[p].step = "record" /\ op[p].base \in Project /\ PreviewReady(op[p].base)
      /\ UNCHANGED project
  BY Known DEF RecordJudgment, At, Shape
<1>2. PICK d \in Project : d = op[p].base
  BY <1>1
<1>3. PICK v \in {"accept", "revise"} :
        judgments' = IF JudgmentsOf(d.rev) # {} THEN judgments
                     ELSE judgments \cup {[verdict |-> v, project |-> d, shows |-> op[p].shows]}
  BY <1>2 DEF RecordJudgment
<1>4. PICK f \in Contents : Agreed(f) /\ Sound(f, p, op[p])
  BY Known
<1>5. /\ d.rev <= project.rev /\ op[p].shows = d.edit /\ d.edit = f[d.rev]
  BY <1>1, <1>2, <1>4, MissingIsNot DEF Sound
<1>6. CASE JudgmentsOf(d.rev) # {}
  BY <1>1, <1>3, <1>6 DEF AbstractVars
<1>7. CASE JudgmentsOf(d.rev) = {}
  <2>1. ~History!Judged(d.rev)
    BY <1>7 DEF JudgmentsOf, History!Judged
  <2>2. project \in Project /\ project.edit = f[project.rev]
    BY <1>2, <1>4, <1>5, Known DEF Agreed, Stored, TypeOK, NoProject, Project, Revisions
  <2>3. /\ d.rev \in 0..project.rev /\ d.schema \in {1, 2} /\ d.edit \in Edits
        /\ d.auto \in 0..AutoLimit
        /\ d.rev = project.rev => d.edit = project.edit
    BY <1>5, <2>2 DEF Project, Revisions
  <2>4. d = [rev |-> d.rev, schema |-> d.schema, edit |-> d.edit, auto |-> d.auto,
             preview |-> "ready", shown |-> d.rev]
    BY <1>1, <1>2 DEF PreviewReady, Project
  <2>5. judgments' = judgments \cup {[verdict |-> v, shows |-> d.edit, project |-> d]}
    BY <1>3, <1>5, <1>7
  <2>6. History!Judge
    <3>1. judgments' = judgments \cup
            {[verdict |-> v, shows |-> d.edit,
              project |-> [rev |-> d.rev, schema |-> d.schema, edit |-> d.edit, auto |-> d.auto,
                           preview |-> "ready", shown |-> d.rev]]}
      BY <2>4, <2>5
    <3> QED BY <1>1, <2>1, <2>3, <3>1 DEF History!Judge
  <2> QED BY <2>6 DEF History!Next
<1> QED BY <1>6, <1>7

LEMMA StartStutters ==
  ASSUME NEW p \in Servers, Start(p) PROVE UNCHANGED AbstractVars
  BY DEF Start, CreateProject, ReviseProject, ApplyProfile, ApplyEditorial, RenderPreview,
         RenderFinal, JudgePreview, AbstractVars

LEMMA ContinueImplements ==
  ASSUME IInv, NEW p \in Servers, Continue(p) PROVE [History!Next]_AbstractVars
<1>1. CASE Write(p)
  <2>1. UNCHANGED judgments /\ op[p].step = "write"
    BY <1>1 DEF Write, At
  <2>2. CASE op[p].kind = "create" /\ Exists
    BY <1>1, <2>1, <2>2 DEF Write, AbstractVars
  <2>3. CASE ~(op[p].kind = "create" /\ Exists)
    BY <1>1, <2>1, <2>3, StoreImplements DEF Write, History!Next
  <2> QED BY <2>2, <2>3
<1>2. CASE WriteFails(p)
  <2>1. /\ UNCHANGED judgments /\ op[p].step = "write" /\ (op[p].kind = "create" => ~Exists)
        /\ project' = project \/ project' = op[p].new
    BY <1>2 DEF WriteFails, At
  <2> QED BY <2>1, StoreImplements DEF History!Next, AbstractVars
<1>3. CASE RecordJudgment(p)
  BY <1>3, RecordImplements
<1>4. CASE ~(Write(p) \/ WriteFails(p) \/ RecordJudgment(p))
  BY <1>4 DEF Continue, TakeLock, TakeLockFails, WaitForLock, Compare, Release, PassGate,
         LookForArtifact, Publish, NoteInode, Withdraw, Unlink, DigestPreview, AbstractVars
<1> QED BY <1>1, <1>2, <1>3, <1>4

LEMMA StepImplements == IInv /\ [Next]_vars => [History!Next]_AbstractVars
<1> SUFFICES ASSUME IInv, [Next]_vars PROVE [History!Next]_AbstractVars
  OBVIOUS
<1>1. CASE UNCHANGED vars
  BY <1>1 DEF vars, AbstractVars
<1>2. ASSUME NEW p \in Servers, Start(p) \/ Continue(p) \/ Crash(p)
      PROVE  [History!Next]_AbstractVars
  BY <1>2, StartStutters, ContinueImplements DEF Crash, AbstractVars
<1> QED BY <1>1, <1>2 DEF Next

\* However the servers' operations interleave, crash or fail, the document has one history:
\* every replacement is the next step of the version it replaces, each revision is judged
\* once, automated revisions keep to their budget, and a document of schema 2 is marked
\* rendered only when this very document was accepted (project-persistence.ts:147-165,
\* session-store-service.ts:706-740).
THEOREM OneHistoryHolds == Spec => OneHistory
<1>1. Init => History!Init
  BY Names DEF Init, History!Init
<1>2. IInv /\ [Next]_vars => [History!Next]_AbstractVars
  BY StepImplements
<1> QED BY <1>1, <1>2, Invariance, PTL DEF Spec, OneHistory, History!Spec, AbstractVars
-----------------------------------------------------------------------------
\* One server on a disk that works

OneServerOnly == \A p, q \in Servers : p = q
DiskWorks == "disk" \notin Faults

\* An operation that has not stored its document finds the one it loaded; a preview is
\* rendered only where none is, hence of a document that is not ready, and stays until the
\* document says so.
Kept(o) ==
  /\ o.step = "load" => o.kind # "create"
  /\ o.stored # FALSE => o.step = "release"
  /\ o.step = "release" /\ o.kind # "create" => o.stored # FALSE
  /\ o.base # NoProject /\ o.stored = FALSE => project = o.base
  /\ o.kind = "preview" /\ o.step \in {"rename", "note", "lock", "load", "write", "withdraw", "unlink"}
       => ~PreviewReady(o.base)
  /\ o.kind = "preview" /\ o.step \in {"note", "lock", "load", "write", "release"}
       => Artifact(o.base.rev, "preview") # NoFile

ReadyInv == /\ IInv
            /\ PreviewReady(project) => PreviewOf(project) # NoFile
            /\ \A p \in Servers : Kept(op[p])

LEMMA Goes ==
  ASSUME TypeOK, NEW p \in Servers, NEW s, Goto(p, s)
  PROVE  /\ op'[p].step = s /\ op'[p].kind = op[p].kind /\ op'[p].base = op[p].base
         /\ op'[p].new = op[p].new /\ op'[p].stored = op[p].stored
<1>1. op[p] \in Op /\ op \in [Servers -> Op]
  BY Own
<1> QED BY <1>1 DEF Goto, Becomes, Op

LEMMA Ends ==
  ASSUME TypeOK, NEW p \in Servers, End(p) PROVE op'[p] = Idle
  BY Own DEF End, Becomes

LEMMA IdleKept == Kept(Idle)
  BY DEF Kept, Idle

\* What leaves the document and the artifacts alone is only about its own operation.
LEMMA ReadyStays ==
  ASSUME OneServerOnly, ReadyInv, IInv', NEW p \in Servers, UNCHANGED <<project, renders>>,
         Kept(op[p])'
  PROVE  ReadyInv'
<1>1. \A q \in Servers : q = p
  BY DEF OneServerOnly
<1> QED BY <1>1 DEF ReadyInv, PreviewReady, PreviewOf, Artifact

LEMMA EndStays ==
  ASSUME OneServerOnly, ReadyInv, IInv', NEW p \in Servers, UNCHANGED <<project, renders>>,
         End(p)
  PROVE  ReadyInv'
<1>1. op'[p] = Idle
  BY Ends DEF ReadyInv, IInv
<1>2. Kept(op[p])'
  BY <1>1 DEF Kept, Idle
<1> QED BY <1>2, ReadyStays

LEMMA StartReady ==
  ASSUME OneServerOnly, ReadyInv, IInv', NEW p \in Servers, Start(p) PROVE ReadyInv'
<1>1. UNCHANGED <<project, renders>> /\ op \in [Servers -> Op]
  BY Own DEF Start, CreateProject, ReviseProject, ApplyProfile, ApplyEditorial, RenderPreview,
             RenderFinal, JudgePreview, ReadyInv, IInv
<1>2. CASE CreateProject(p)
  <2>1. /\ op'[p].step = "lock" /\ op'[p].kind = "create" /\ op'[p].base = NoProject
        /\ op'[p].stored = FALSE
    BY <1>1, <1>2 DEF CreateProject, Becomes, Idle
  <2> QED BY <1>1, <2>1, ReadyStays DEF Kept
<1>3. ASSUME NEW kind, NEW step, NEW new, Begin(p, kind, step, new),
             step \in {"lock", "look", "gate", "digest"}, kind = "preview" => step = "look"
      PROVE  ReadyInv'
  <2>1. /\ op'[p].step = step /\ op'[p].kind = kind /\ op'[p].base = project
        /\ op'[p].stored = FALSE
    BY <1>1, <1>3 DEF Begin, Becomes, Idle
  <2>2. Kept(op[p])'
    BY <1>1, <1>3, <2>1 DEF Kept
  <2> QED BY <1>1, <2>2, ReadyStays
<1>4. CASE ReviseProject(p) \/ ApplyProfile(p) \/ ApplyEditorial(p)
  <2>1. PICK new : Begin(p, "edit", "lock", new)
    BY <1>4 DEF ReviseProject, ApplyProfile, ApplyEditorial
  <2> QED BY <1>3, <2>1
<1>5. CASE RenderPreview(p) \/ RenderFinal(p) \/ JudgePreview(p)
  BY <1>3, <1>5 DEF RenderPreview, RenderFinal, JudgePreview
<1> QED BY <1>2, <1>4, <1>5 DEF Start

LEMMA StoreReady ==
  ASSUME OneServerOnly, DiskWorks, ReadyInv, IInv', NEW p \in Servers,
         Write(p) \/ WriteFails(p)
  PROVE  ReadyInv'
<1>1. /\ Write(p) /\ op[p].step = "write" /\ UNCHANGED renders /\ Kept(op[p]) /\ Shape(op[p])
      /\ TypeOK /\ op[p] \in Op /\ op \in [Servers -> Op]
  BY Own, Known DEF DiskWorks, Write, WriteFails, At, ReadyInv, IInv
<1>2. CASE op[p].kind = "create" /\ Exists
  <2>1. /\ UNCHANGED project /\ op'[p].step = "release" /\ op'[p].kind = "create"
        /\ op'[p].base = op[p].base /\ op'[p].stored = op[p].stored
    BY <1>1, <1>2, Goes DEF Write
  <2>2. op[p].base = NoProject
    BY <1>1, <1>2 DEF Shape
  <2> QED BY <1>1, <2>1, <2>2, ReadyStays DEF Kept
<1>3. CASE ~(op[p].kind = "create" /\ Exists)
  <2>1. /\ project' = op[p].new /\ op'[p].step = "release" /\ op'[p].kind = op[p].kind
        /\ op'[p].base = op[p].base /\ op'[p].stored = TRUE
    <3>1. /\ project' = op[p].new
          /\ Becomes(p, [op[p] EXCEPT !.step = "release", !.stored = TRUE])
      BY <1>1, <1>3 DEF Write
    <3> DEFINE o == [op[p] EXCEPT !.step = "release", !.stored = TRUE]
    <3>2. /\ o.step = "release" /\ o.kind = op[p].kind
          /\ o.base = op[p].base /\ o.stored = TRUE
      BY <1>1 DEF Op
    <3>3. op'[p] = o
      <4> HIDE DEF o
      <4> QED BY <1>1, <3>1, Zenon DEF Becomes, o
    <3> HIDE DEF o
    <3> QED BY <3>1, <3>2, <3>3
  <2>2. Kept(op[p])'
    BY <1>1, <2>1 DEF Kept, Artifact
  <2>3. PreviewReady(project') => op[p].kind = "preview"
    <3>1. op[p].kind \in {"create", "edit"} \cup Kinds
      BY <1>1 DEF Shape, Op
    <3>2. CASE op[p].kind = "create"
      <4>1. PICK e \in Edits : op[p].new = NewProject(e)
        BY <1>1, <3>2 DEF Shape
      <4>2. project'.preview = "none"
        BY <2>1, <4>1 DEF NewProject
      <4> QED BY <4>2 DEF PreviewReady
    <3>3. CASE op[p].kind = "edit"
      <4>1. PICK e \in Edits, automated \in BOOLEAN, claimed \in BOOLEAN :
              op[p].new = Revised(op[p].base, e, automated, claimed)
        BY <1>1, <3>3 DEF Shape
      <4>2. project'.preview \in {"rendered", "stale"}
        BY <2>1, <4>1 DEF Revised
      <4> QED BY <4>2 DEF PreviewReady
    <3>4. CASE op[p].kind = "final"
      <4>1. op[p].base \in Project /\ project' = Marked(op[p].base, "final")
        BY <1>1, <2>1, <3>4 DEF Shape, Kinds
      <4>2. project'.preview = "rendered"
        BY <4>1 DEF Marked, Project
      <4> QED BY <4>2 DEF PreviewReady
    <3> QED BY <3>1, <3>2, <3>3, <3>4 DEF Kinds
  <2>4. ASSUME op[p].kind = "preview" PROVE PreviewOf(project)' # NoFile
    <3>1. op[p].base \in Project /\ project' = Marked(op[p].base, "preview")
      BY <1>1, <2>1, <2>4 DEF Shape, Kinds
    <3>2. project'.rev = op[p].base.rev
      BY <3>1 DEF Marked, Project
    <3> QED BY <1>1, <2>4, <3>2 DEF Kept, PreviewOf, Artifact
  <2>5. PreviewReady(project)' => PreviewOf(project)' # NoFile
    BY <2>3, <2>4 DEF PreviewReady
  <2>6. \A q \in Servers : q = p
    BY DEF OneServerOnly
  <2> QED BY <2>2, <2>5, <2>6 DEF ReadyInv
<1> QED BY <1>2, <1>3

LEMMA LockReady ==
  ASSUME OneServerOnly, DiskWorks, ReadyInv, IInv', NEW p \in Servers,
         TakeLock(p) \/ TakeLockFails(p) \/ WaitForLock(p) \/ Compare(p) \/ Release(p)
  PROVE  ReadyInv'
<1>1. /\ UNCHANGED <<project, renders>> /\ Kept(op[p]) /\ Shape(op[p]) /\ TypeOK
      /\ op[p] \in Op /\ op \in [Servers -> Op]
  BY Own, Known DEF TakeLock, TakeLockFails, WaitForLock, Compare, Release, ReadyInv, IInv
<1>2. CASE TakeLock(p) \/ TakeLockFails(p)
  <2>1. op[p].step = "lock" /\ Goto(p, IF op[p].kind = "create" THEN "write" ELSE "load")
    BY <1>2 DEF TakeLock, TakeLockFails, DiskWorks, At
  <2>2. /\ op'[p].kind = op[p].kind /\ op'[p].base = op[p].base
        /\ op'[p].stored = op[p].stored /\ op'[p].step \in {"load", "write"}
        /\ op'[p].step = "load" => op[p].kind # "create"
    BY <1>1, <2>1, Goes
  <2>3. Kept(op[p])'
    BY <1>1, <2>1, <2>2 DEF Kept, Artifact
  <2> QED BY <1>1, <2>3, ReadyStays
<1>3. ASSUME GiveUp(p), op[p].step = "lock" PROVE ReadyInv'
  <2>1. CASE End(p)
    BY <1>1, <2>1, EndStays
  <2>2. CASE Goto(p, "withdraw")
    <3>1. /\ op'[p].kind = op[p].kind /\ op'[p].base = op[p].base
          /\ op'[p].stored = op[p].stored /\ op'[p].step = "withdraw"
      BY <1>1, <2>2, Goes
    <3> QED BY <1>1, <1>3, <3>1, ReadyStays DEF Kept
  <2> QED BY <1>3, <2>1, <2>2 DEF GiveUp
<1>4. CASE WaitForLock(p)
  <2>1. CASE op[p].tries + 1 < LockAttempts
    <3>1. /\ op'[p].kind = op[p].kind /\ op'[p].base = op[p].base
          /\ op'[p].stored = op[p].stored /\ op'[p].step = op[p].step
      BY <1>1, <1>4, <2>1 DEF WaitForLock, Becomes, Op
    <3> QED BY <1>1, <3>1, ReadyStays DEF Kept, Artifact
  <2> QED BY <1>3, <1>4, <2>1 DEF WaitForLock, At
<1>5. CASE Compare(p)
  <2>1. op[p].step = "load" /\ op[p].stored = FALSE
    BY <1>1, <1>5 DEF Compare, At, Kept, Op
  <2>2. op[p].base \in Project
    <3>1. op[p].kind \notin {"none", "create"}
      BY <1>1, <2>1 DEF Kept, Shape
    <3> QED BY <1>1, <3>1 DEF Shape
  <2>3. Goto(p, "write")
    BY <1>1, <1>5, <2>1, <2>2, MissingIsNot DEF Compare, Kept
  <2>4. /\ op'[p].kind = op[p].kind /\ op'[p].base = op[p].base
        /\ op'[p].stored = op[p].stored /\ op'[p].step = "write"
    BY <1>1, <2>3, Goes
  <2> QED BY <1>1, <2>1, <2>4, ReadyStays DEF Kept, Artifact
<1>6. CASE Release(p)
  <2>1. op[p].kind = "create" \/ op[p].stored # FALSE
    BY <1>1, <1>6 DEF Release, At, Kept
  <2>2. End(p)
    BY <1>1, <1>6, <2>1 DEF Release, GiveUp, Rendering, Kinds, Op
  <2> QED BY <1>1, <2>2, EndStays
<1> QED BY <1>2, <1>4, <1>5, <1>6

LEMMA PublicationReady ==
  ASSUME OneServerOnly, DiskWorks, ReadyInv, IInv', NEW p \in Servers,
         \/ PassGate(p) \/ LookForArtifact(p) \/ Publish(p) \/ NoteInode(p)
         \/ Withdraw(p) \/ Unlink(p)
  PROVE  ReadyInv'
<1>1. /\ UNCHANGED project /\ Kept(op[p]) /\ Shape(op[p]) /\ TypeOK
      /\ op[p] \in Op /\ op \in [Servers -> Op] /\ op[p].step # "release"
      /\ renders \in [Revisions \X Kinds -> File \cup {NoFile}]
  BY Own, Known DEF PassGate, LookForArtifact, Publish, NoteInode, Withdraw, Unlink, At,
                    ReadyInv, IInv, TypeOK
<1>2. /\ op[p].stored = FALSE /\ op[p].kind \in Kinds
      /\ op[p].base \in Project /\ project = op[p].base
      /\ Slot(p) \in Revisions \X Kinds
      /\ PreviewOf(project) = renders[<<project.rev, "preview">>]
  <2>1. op[p].stored = FALSE /\ op[p].kind \in Kinds
    BY <1>1 DEF PassGate, LookForArtifact, Publish, NoteInode, Withdraw, Unlink, At, Shape, Kinds,
                Kept, Op
  <2>2. op[p].base \in Project
    BY <1>1, <2>1 DEF Shape, Kinds
  <2>3. project = op[p].base
    BY <1>1, <2>1, <2>2, MissingIsNot DEF Kept
  <2> QED BY <1>1, <2>1, <2>2, <2>3, SlotType, MissingIsNot DEF PreviewOf, Artifact
<1>3. ASSUME NEW s, Goto(p, s)
      PROVE  /\ op'[p].kind = op[p].kind /\ op'[p].base = op[p].base
             /\ op'[p].stored = op[p].stored /\ op'[p].step = s
  BY <1>1, <1>3, Goes
<1>4. CASE PassGate(p)
  <2>1. UNCHANGED renders /\ op[p].kind = "final" /\ (End(p) \/ Goto(p, "look"))
    BY <1>1, <1>4 DEF PassGate, At, Shape
  <2>2. CASE Goto(p, "look")
    <3>1. /\ op'[p].kind = "final" /\ op'[p].base = project
          /\ op'[p].stored = FALSE /\ op'[p].step = "look"
      BY <1>2, <1>3, <2>1, <2>2
    <3>2. Kept(op[p])'
      BY <1>1, <3>1 DEF Kept
    <3> QED BY <1>1, <2>1, <3>2, ReadyStays
  <2> QED BY <1>1, <2>1, <2>2, EndStays
<1>5. CASE LookForArtifact(p)
  <2>1. CASE renders[Slot(p)] = NoFile /\ Goto(p, "rename")
    <3>1. op[p].kind = "preview" => ~PreviewReady(op[p].base)
      BY <1>2, <2>1 DEF ReadyInv, Slot
    <3>2. /\ op'[p].kind = op[p].kind /\ op'[p].base = project
          /\ op'[p].stored = FALSE /\ op'[p].step = "rename" /\ UNCHANGED renders
      BY <1>2, <1>3, <1>5, <2>1 DEF LookForArtifact
    <3>3. Kept(op[p])'
      BY <1>1, <1>2, <3>1, <3>2 DEF Kept, PreviewReady
    <3> QED BY <1>1, <3>2, <3>3, ReadyStays
  <2> QED BY <1>1, <1>5, <2>1, EndStays DEF LookForArtifact
<1>6. CASE Publish(p)
  <2>1. /\ renders' = [renders EXCEPT ![Slot(p)] = [by |-> p, shows |-> op[p].base.edit]]
        /\ Goto(p, "note") /\ [by |-> p, shows |-> op[p].base.edit] # NoFile
        /\ op[p].step = "rename"
    BY <1>6, WorkflowConstants DEF Publish, NoFile, At
  <2>2. renders'[Slot(p)] # NoFile
    BY <1>1, <1>2, <2>1
  <2>3. Kept(op[p])'
    <3>1. /\ op'[p].kind = op[p].kind /\ op'[p].base = project
          /\ op'[p].stored = FALSE /\ op'[p].step = "note"
      BY <1>2, <1>3, <2>1
    <3>2. op[p].kind = "preview" => /\ ~PreviewReady(project)
                                    /\ renders'[<<project.rev, "preview">>] # NoFile
      BY <1>1, <1>2, <2>1, <2>2 DEF Kept, Slot
    <3> QED BY <1>1, <3>1, <3>2 DEF Kept, Artifact, PreviewReady
  <2>4. PreviewOf(project) # NoFile => PreviewOf(project)' # NoFile
    BY <1>1, <1>2, <2>1 DEF PreviewOf, Artifact
  <2>5. \A q \in Servers : q = p
    BY DEF OneServerOnly
  <2> QED BY <1>1, <2>3, <2>4, <2>5 DEF ReadyInv, PreviewReady
<1>7. CASE NoteInode(p)
  <2>1. CASE End(p)
    BY <1>1, <1>7, <2>1, EndStays DEF NoteInode
  <2>2. CASE Becomes(p, [op[p] EXCEPT !.step = "lock", !.mine = renders[Slot(p)].by])
    <3>1. /\ op'[p].kind = op[p].kind /\ op'[p].base = op[p].base
          /\ op'[p].stored = op[p].stored /\ op'[p].step = "lock" /\ op[p].step = "note"
          /\ UNCHANGED renders
      BY <1>1, <1>7, <2>2 DEF Becomes, Op, NoteInode, At
    <3> QED BY <1>1, <1>2, <3>1, ReadyStays DEF Kept, Artifact
  <2> QED BY <1>7, <2>1, <2>2 DEF NoteInode
<1>8. CASE Withdraw(p)
  <2>1. UNCHANGED renders /\ op[p].step = "withdraw" /\ (End(p) \/ Goto(p, "unlink"))
    BY <1>8 DEF Withdraw, At
  <2>2. CASE Goto(p, "unlink")
    <3>1. /\ op'[p].kind = op[p].kind /\ op'[p].base = project
          /\ op'[p].stored = FALSE /\ op'[p].step = "unlink"
      BY <1>2, <1>3, <2>2
    <3>2. op[p].kind = "preview" => ~PreviewReady(project)
      BY <1>1, <1>2, <2>1 DEF Kept
    <3>3. Kept(op[p])'
      BY <1>1, <3>1, <3>2 DEF Kept, PreviewReady
    <3> QED BY <1>1, <2>1, <3>3, ReadyStays
  <2> QED BY <1>1, <2>1, <2>2, EndStays
<1>9. CASE Unlink(p)
  <2>1. /\ renders' = [renders EXCEPT ![Slot(p)] = NoFile] /\ op'[p] = Idle
        /\ op[p].step = "unlink"
    BY <1>1, <1>9, Ends DEF Unlink, At
  <2>2. PreviewReady(project) => op[p].kind = "final"
    BY <1>1, <1>2, <2>1 DEF Kept, Kinds
  <2>3. PreviewReady(project) => PreviewOf(project)' = PreviewOf(project)
    BY <1>1, <1>2, <2>1, <2>2 DEF PreviewOf, Artifact, Slot
  <2>4. Kept(op[p])'
    BY <2>1 DEF Kept, Idle
  <2>5. \A q \in Servers : q = p
    BY DEF OneServerOnly
  <2> QED BY <1>1, <2>3, <2>4, <2>5 DEF ReadyInv, PreviewReady
<1> QED BY <1>4, <1>5, <1>6, <1>7, <1>8, <1>9

LEMMA JudgingReady ==
  ASSUME OneServerOnly, ReadyInv, IInv', NEW p \in Servers,
         DigestPreview(p) \/ RecordJudgment(p) \/ Crash(p)
  PROVE  ReadyInv'
<1>1. /\ UNCHANGED <<project, renders>> /\ Kept(op[p]) /\ Shape(op[p])
      /\ op[p] \in Op /\ op \in [Servers -> Op]
  BY Own, Known DEF DigestPreview, RecordJudgment, Crash, ReadyInv, IInv
<1>2. CASE End(p)
  BY <1>1, <1>2, EndStays
<1>3. CASE DigestPreview(p) /\ ~End(p)
  <2>1. /\ op'[p].kind = op[p].kind /\ op'[p].base = op[p].base /\ op[p].step = "digest"
        /\ op'[p].stored = op[p].stored /\ op'[p].step = "record"
    <3>1. /\ Becomes(p, [op[p] EXCEPT !.step = "record", !.shows = PreviewOf(op[p].base).shows])
          /\ op[p].step = "digest"
      BY <1>3 DEF DigestPreview, At
    <3> QED BY <1>1, <3>1 DEF Becomes, Op
  <2> QED BY <1>1, <2>1, ReadyStays DEF Kept, Shape
<1> QED BY <1>2, <1>3 DEF RecordJudgment, Crash

LEMMA ReadyIsKept ==
  ASSUME OneServerOnly, DiskWorks PROVE ReadyInv /\ [Next]_vars => ReadyInv'
<1> SUFFICES ASSUME ReadyInv, [Next]_vars PROVE ReadyInv'
  OBVIOUS
<1>1. IInv'
  BY NextKeeps DEF ReadyInv
<1>2. CASE UNCHANGED vars
  BY <1>1, <1>2 DEF vars, ReadyInv, PreviewReady, PreviewOf, Artifact, Kept
<1>3. ASSUME NEW p \in Servers, Start(p) \/ Continue(p) \/ Crash(p) PROVE ReadyInv'
  BY <1>1, <1>3, StartReady, StoreReady, LockReady, PublicationReady, JudgingReady DEF Continue
<1> QED BY <1>2, <1>3 DEF Next

\* With one server, and a disk that works, a document that says its preview is ready has
\* the preview, and the preview shows the document, although the artifact is published before
\* the document is replaced and the server may die in between (render-publication.ts:59-71).
THEOREM ReadyIsAlwaysThere ==
  ASSUME OneServerOnly, DiskWorks PROVE Spec => []ReadyIsThere
<1>1. Init => ReadyInv
  <2> SUFFICES ASSUME Init PROVE ReadyInv
    OBVIOUS
  <2>1. IInv
    BY InitKeeps
  <2> QED BY <2>1, IdleKept DEF Init, ReadyInv, PreviewReady, NoProject
<1>2. ReadyInv /\ [Next]_vars => ReadyInv'
  BY ReadyIsKept
<1>3. ReadyInv => ReadyIsThere
  <2> SUFFICES ASSUME ReadyInv, PreviewReady(project)
               PROVE  PreviewOf(project) # NoFile /\ PreviewOf(project).shows = project.edit
    BY DEF ReadyIsThere
  <2>1. PICK f \in Contents : Agreed(f)
    BY DEF ReadyInv, IInv
  <2>2. project \in Project /\ PreviewOf(project) # NoFile
    BY DEF ReadyInv, IInv, TypeOK, PreviewReady, NoProject
  <2>3. project.rev \in Revisions /\ project # NoProject
    BY <2>2, MissingIsNot DEF Project
  <2>4. PreviewOf(project).shows = f[project.rev]
    BY <2>1, <2>2, <2>3 DEF Agreed, Shown, PreviewOf, Kinds
  <2> QED BY <2>1, <2>2, <2>3, <2>4 DEF Agreed, Stored
<1> QED BY <1>1, <1>2, <1>3, PTL DEF Spec
=============================================================================
