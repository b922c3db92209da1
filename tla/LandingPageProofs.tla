-------------------------- MODULE LandingPageProofs --------------------------
(* Theorems about LandingPages, for every value of its constants. *)
EXTENDS LandingPages, FiniteSetTheorems, TLAPS

\* A handler that reads a page was given the id of one.
TypeInv ==
  /\ TypeOK
  /\ \A w \in Workers : pc[w] \in {"own", "heal", "gate", "target"} => job[w].page \in Pages

-----------------------------------------------------------------------------
(* Type correctness.                                                       *)

LEMMA NewRowType ==
  ASSUME NEW kind \in {"absent", "landing", "thankYou"}, NEW status \in Statuses,
         NEW source \in Sources, NEW parent \in Pages \cup {NoPage}
  PROVE  /\ NewRow(kind, status, source, parent) \in Row
         /\ NewRow(kind, status, source, parent).kind = kind
         /\ NewRow(kind, status, source, parent).status = status
         /\ NewRow(kind, status, source, parent).edited = FALSE
         /\ NewRow(kind, status, source, parent).source = source
         /\ NewRow(kind, status, source, parent).parent = parent
BY DEF NewRow, Row

LEMMA AbsentType ==
  /\ Absent \in Row /\ Absent.kind = "absent" /\ Absent.status = "private"
  /\ Absent.edited = FALSE /\ Absent.source = NoTemplate /\ Absent.parent = NoPage
<1>1. "private" \in Statuses /\ NoTemplate \in Sources /\ NoPage \in Pages \cup {NoPage}
  BY DEF Statuses, Sources
<1> QED BY <1>1 DEF Absent, NewRow, Row

LEMMA AskedType ==
  ASSUME NEW op \in Ops, NEW p \in Pages \cup {NoPage}, NEW t \in Sources,
         NEW T \in SUBSET Templates
  PROVE  /\ Asked(op, p, t, T) \in Job
         /\ Asked(op, p, t, T).op = op
         /\ Asked(op, p, t, T).page = p
         /\ Asked(op, p, t, T).template = t
         /\ Asked(op, p, t, T).templates = T
BY AbsentType, PlanAssumption DEF Asked, Job

LEMMA NoJobType == NoJob \in Job
BY AskedType DEF NoJob, Ops, Sources

LEMMA AfterOwnType ==
  ASSUME NEW op, NEW row
  PROVE  AfterOwn(op, row) \in Phases \ {"own", "heal", "target"}
BY DEF AfterOwn, Phases

LEMMA FinishType ==
  ASSUME TypeInv, NEW w \in Workers, Finish(w)
  PROVE  /\ pc' \in [Workers -> Phases] /\ job' \in [Workers -> Job]
         /\ \A v \in Workers : pc'[v] \in {"own", "heal", "gate", "target"} => job'[v].page \in Pages
BY NoJobType DEF TypeInv, TypeOK, Finish, GoOn, Phases

\* A handler begins, goes on or ends with a job of its type.
LEMMA StepType ==
  ASSUME TypeInv, NEW w \in Workers, NEW j \in Job, NEW phase \in Phases,
         phase \in {"own", "heal", "gate", "target"} => j.page \in Pages,
         \/ Begin(w, j, phase) \/ GoOn(w, phase, j) \/ Answer(w, phase, j)
  PROVE  /\ pc' \in [Workers -> Phases] /\ job' \in [Workers -> Job]
         /\ \A v \in Workers : pc'[v] \in {"own", "heal", "gate", "target"} => job'[v].page \in Pages
<1>1. CASE Begin(w, j, phase) \/ GoOn(w, phase, j)
  BY <1>1 DEF TypeInv, TypeOK, Begin, GoOn
<1>2. CASE Answer(w, phase, j)
  BY <1>1, <1>2, FinishType DEF Answer
<1> QED BY <1>1, <1>2

\* A handler that reads leaves the rows alone.
LEMMA ReadType ==
  ASSUME TypeInv, NEW w \in Workers, NEW j \in Job, NEW phase \in Phases,
         phase \in {"own", "heal", "gate", "target"} => j.page \in Pages,
         \/ Begin(w, j, phase)
         \/ UNCHANGED rows /\ (GoOn(w, phase, j) \/ Answer(w, phase, j))
  PROVE  TypeInv'
BY StepType DEF TypeInv, TypeOK, rows, Begin

LEMMA ArriveType ==
  ASSUME TypeInv, NEW w \in Workers, Arrive(w)
  PROVE  TypeInv'
<1> USE ReadType, AskedType DEF Phases, Ops, PageOps, Sources
<1>1. ASSUME NEW op \in PageOps, NEW p \in Pages, OnPage(w, op, p) PROVE TypeInv'
  <2>1. /\ Asked(op, p, NoTemplate, {}) \in Job
        /\ Asked(op, p, NoTemplate, {}).page = p
    OBVIOUS
  <2>2. Begin(w, Asked(op, p, NoTemplate, {}), "own")
    BY <1>1 DEF OnPage
  <2> QED BY <2>1, <2>2
<1>2. ASSUME NEW t \in Templates \cup {NoTemplate}, Create(w, t) PROVE TypeInv'
  BY <1>2 DEF Create
<1>3. ASSUME NEW t \in Templates, Assign(w, t) PROVE TypeInv'
  BY <1>3 DEF Assign
<1>4. ASSUME NEW t \in Templates, Unassign(w, t) PROVE TypeInv'
  BY <1>4 DEF Unassign
<1>5. ASSUME NEW T \in SUBSET Templates, AdminSet(w, T) PROVE TypeInv'
  BY <1>5 DEF AdminSet
<1> QED BY <1>1, <1>2, <1>3, <1>4, <1>5 DEF Arrive

LEMMA CheckType ==
  ASSUME TypeInv, NEW w \in Workers, Check(w)
  PROVE  TypeInv'
<1> PICK j \in Job : j = job[w]
  BY DEF TypeInv, TypeOK
<1> PICK ph : ph = pc[w]
  OBVIOUS
<1>1. ph \in {"own", "heal", "gate", "target"} => j.page \in Pages
  BY DEF TypeInv
<1>2. ASSUME NEW phase \in Phases \ {"own", "heal", "gate", "target"}, NEW i \in Job,
             UNCHANGED rows, GoOn(w, phase, i) \/ Answer(w, phase, i)
      PROVE  TypeInv'
  BY <1>2, ReadType
<1>3. CASE Own(w)
  <2> PICK row \in Row : row = page[j.page]
    BY <1>1, <1>3 DEF Own, TypeInv, TypeOK
  <2> PICK phase \in Phases \ {"own", "target"} :
             phase = IF row.kind = "landing" /\ Companions(j.page) = {} THEN "heal"
                     ELSE AfterOwn(j.op, row)
    BY AfterOwnType DEF Phases
  <2>1. [j EXCEPT !.seen = row] \in Job /\ [j EXCEPT !.seen = row].page = j.page
    BY DEF Job
  <2>2. Answer(w, phase, [j EXCEPT !.seen = row]) /\ UNCHANGED rows /\ ph = "own"
    BY <1>3 DEF Own
  <2> QED BY <1>1, <2>1, <2>2, ReadType
<1>4. CASE ReadPlan(w)
  <2> PICK p \in Plans : p = IF sub = "usable" THEN plan ELSE Basic
    BY PlanAssumption DEF TypeInv, TypeOK
  <2>1. [j EXCEPT !.plan = p] \in Job
    BY DEF Job
  <2>2. GoOn(w, IF j.op = "assign" THEN "held" ELSE "count", [j EXCEPT !.plan = p])
        /\ UNCHANGED rows
    BY <1>4 DEF ReadPlan
  <2> QED BY <1>2, <2>1, <2>2 DEF Phases
<1>5. CASE CountPages(w)
  BY <1>2, <1>5 DEF CountPages, Phases
<1>6. CASE ReadAssignment(w)
  BY <1>2, <1>6 DEF ReadAssignment, Phases
<1>7. CASE ReadAssignments(w)
  <2>1. CASE j.op = "assign"
    BY <1>2, <1>7, <2>1 DEF ReadAssignments, Phases
  <2>2. CASE j.op # "assign"
    <3> PICK gone : gone = IF j.op = "unassign" THEN {j.template} ELSE assigned \ j.templates
      OBVIOUS
    <3>1. gone \in SUBSET Templates
      BY <1>7, <2>2 DEF ReadAssignments, TypeInv, TypeOK
    <3>2. [j EXCEPT !.gone = gone] \in Job
      BY <3>1 DEF Job
    <3>3. GoOn(w, "inUse", [j EXCEPT !.gone = gone]) /\ UNCHANGED rows
      BY <1>7, <2>2 DEF ReadAssignments
    <3> QED BY <1>2, <3>2, <3>3 DEF Phases
  <2> QED BY <2>1, <2>2
<1>8. CASE CountInUse(w)
  BY <1>2, <1>8 DEF CountInUse, Phases
<1>9. CASE CountAssigned(w)
  BY <1>2, <1>9 DEF CountAssigned, Phases
<1>10. CASE ReadGate(w)
  <2>1. [j EXCEPT !.plan = plan] \in Job /\ [j EXCEPT !.plan = plan].page = j.page
    BY DEF Job, TypeInv, TypeOK
  <2>2. GoOn(w, "target", [j EXCEPT !.plan = plan]) /\ UNCHANGED rows /\ ph = "gate"
    BY <1>10 DEF ReadGate
  <2> QED BY <1>1, <2>1, <2>2, ReadType DEF Phases
<1>11. CASE ReadTarget(w)
  <2> PICK row \in Row : row = page[j.page]
    BY <1>1, <1>11 DEF ReadTarget, TypeInv, TypeOK
  <2>1. [j EXCEPT !.template = row.source] \in Job
    BY DEF Job, Row
  <2>2. GoOn(w, "live", [j EXCEPT !.template = row.source]) /\ UNCHANGED rows
    BY <1>11 DEF ReadTarget
  <2> QED BY <1>2, <2>1, <2>2 DEF Phases
<1>12. CASE CountLive(w)
  BY <1>2, <1>12 DEF CountLive, Phases
<1>13. CASE CountDistinct(w)
  BY <1>2, <1>13 DEF CountDistinct, Phases
<1>14. CASE FindCompanion(w)
  <2>1. CASE Companions(j.page) = {}
    BY <1>2, <1>14, <2>1 DEF FindCompanion, Phases
  <2>2. ASSUME NEW q \in Companions(j.page), UNCHANGED rows,
               Answer(w, IF j.op = "thankYou" THEN "idle" ELSE "copy", [j EXCEPT !.seen = page[q]])
        PROVE  TypeInv'
    <3> PICK row \in Row : row = page[q]
      BY DEF Companions, TypeInv, TypeOK
    <3>1. [j EXCEPT !.seen = row] \in Job
      BY DEF Job
    <3> QED BY <1>2, <2>2, <3>1 DEF Phases
  <2> QED BY <1>14, <2>1, <2>2 DEF FindCompanion
<1> QED BY <1>3, <1>4, <1>5, <1>6, <1>7, <1>8, <1>9, <1>10, <1>11, <1>12, <1>13, <1>14 DEF Check

\* What a row becomes when its status is written, or its parent is removed.
LEMMA RowUpdate ==
  ASSUME NEW row \in Row, NEW status \in Statuses, NEW edited \in BOOLEAN
  PROVE  /\ [row EXCEPT !.status = status, !.edited = edited] \in Row
         /\ [row EXCEPT !.parent = NoPage] \in Row
         /\ [row EXCEPT !.source = NoTemplate] \in Row
<1>1. [row EXCEPT !.status = status, !.edited = edited] \in Row
  <2>1. CASE edited = TRUE
    <3>1. [row EXCEPT !.status = status, !.edited = TRUE] \in Row
      BY DEF Row
    <3> QED BY <2>1, <3>1
  <2>2. CASE edited = FALSE
    <3>1. [row EXCEPT !.status = status, !.edited = FALSE] \in Row
      BY DEF Row
    <3> QED BY <2>2, <3>1
  <2> QED BY <2>1, <2>2
<1>2. [row EXCEPT !.parent = NoPage] \in Row /\ [row EXCEPT !.source = NoTemplate] \in Row
  BY DEF Row, Sources
<1> QED BY <1>1, <1>2

LEMMA WithoutType == ASSUME TypeOK, NEW D PROVE Without(D) \in [Pages -> Row]
<1>1. ASSUME NEW p \in Pages
      PROVE  (IF p \in D THEN Absent
              ELSE IF page[p].parent \in D THEN [page[p] EXCEPT !.parent = NoPage]
              ELSE page[p]) \in Row
  <2> PICK row \in Row : row = page[p]
    BY DEF TypeOK
  <2>1. [row EXCEPT !.parent = NoPage] \in Row
    BY DEF Row
  <2> QED BY <2>1, AbsentType
<1> QED BY <1>1 DEF Without

\* One row written.
LEMMA SetType ==
  ASSUME TypeOK, NEW p, NEW status \in Statuses, NEW edited \in BOOLEAN,
         page' = [page EXCEPT ![p].status = status, ![p].edited = edited]
  PROVE  page' \in [Pages -> Row]
<1>1. CASE p \in Pages
  <2> PICK row \in Row : row = page[p]
    BY <1>1 DEF TypeOK
  <2>1. [row EXCEPT !.status = status, !.edited = edited] \in Row
    BY RowUpdate
  <2>2. page' = [page EXCEPT ![p] = [row EXCEPT !.status = status, !.edited = edited]]
    BY <1>1 DEF TypeOK
  <2> QED BY <2>1, <2>2 DEF TypeOK
<1>2. CASE p \notin Pages
  BY <1>2 DEF TypeOK
<1> QED BY <1>1, <1>2

LEMMA WriteType ==
  ASSUME TypeInv, NEW w \in Workers, Write(w)
  PROVE  TypeInv'
<1> PICK j \in Job : j = job[w]
  BY DEF TypeInv, TypeOK
<1> DEFINE Stepped == \E i \in Job, ph \in Phases :
             /\ ph \in {"own", "heal", "gate", "target"} => i.page \in Pages
             /\ GoOn(w, ph, i) \/ Answer(w, ph, i)
           Written == /\ Stepped \/ Finish(w)
                      /\ UNCHANGED <<catalog, plan, sub>>
                      /\ page' \in [Pages -> Row] /\ assigned' \in SUBSET Templates
<1> SUFFICES Written
  BY StepType, FinishType DEF TypeInv, TypeOK
<1> USE DEF TypeInv, TypeOK, Writes
<1>1. CASE InsertThankYou(w)
  <2> PICK q \in Free, status \in Statuses :
             Insert(q, NewRow("thankYou", status, NoTemplate, j.page))
    BY <1>1 DEF InsertThankYou, Statuses
  <2>1. NewRow("thankYou", status, NoTemplate, j.page) \in Row
    BY NewRowType DEF Job, Sources
  <2>2. page' \in [Pages -> Row]
    BY <2>1 DEF Insert
  <2>3. PICK ph \in Phases : ph = IF pc[w] = "heal" THEN AfterOwn(j.op, j.seen) ELSE "idle"
    BY AfterOwnType DEF Phases
  <2>4. ph \notin {"own", "heal", "target"} /\ Answer(w, ph, j)
        /\ (pc[w] = "heal" => j.page \in Pages) /\ (ph = "gate" => pc[w] = "heal")
    BY <1>1, <2>3, AfterOwnType DEF InsertThankYou
  <2>5. Stepped
    BY <2>4
  <2> HIDE DEF Stepped
  <2> QED BY <1>1, <2>2, <2>5 DEF InsertThankYou
<1>2. CASE WriteCreate(w)
  <2> PICK p \in Pages, q \in Pages, y \in Sources :
        /\ p # q
        /\ page' = [page EXCEPT ![p] = NewRow("landing", "private", j.template, NoPage),
                                ![q] = NewRow("thankYou", "private", y, p)]
        /\ GoOn(w, "own", [j EXCEPT !.page = p])
    <3>1. (IF j.template = NoTemplate THEN NoTemplate ELSE ThankYouOf[j.template]) \in Sources
      BY <1>2, TemplateAssumption DEF WriteCreate, Sources
    <3>2. PICK p \in Free, q \in Free :
            /\ p # q
            /\ page' = [page EXCEPT
                 ![p] = NewRow("landing", "private", j.template, NoPage),
                 ![q] = NewRow("thankYou", "private",
                               IF j.template = NoTemplate THEN NoTemplate
                               ELSE ThankYouOf[j.template], p)]
            /\ GoOn(w, "own", [j EXCEPT !.page = p])
      BY <1>2 DEF WriteCreate
    <3> QED BY <3>1, <3>2 DEF Free
  <2>1. [j EXCEPT !.page = p] \in Job /\ [j EXCEPT !.page = p].page = p
    BY DEF Job
  <2>2. /\ NewRow("landing", "private", j.template, NoPage) \in Row
        /\ NewRow("thankYou", "private", y, p) \in Row
    BY NewRowType DEF Job, Statuses
  <2>3. page' \in [Pages -> Row]
    BY <2>2
  <2>4. Stepped
    BY <2>1 DEF Phases
  <2> HIDE DEF Stepped
  <2> QED BY <1>2, <2>3, <2>4 DEF WriteCreate
<1>3. CASE WriteUpdate(w)
  <2>1. page' \in [Pages -> Row]
    <3>1. CASE j.page \in Pages
      <4> PICK row \in Row : row = page[j.page]
        BY <3>1
      <4> PICK status : status = IF j.seen.status = "published" THEN "private" ELSE row.status
        OBVIOUS
      <4>1. status \in Statuses
        BY DEF Row, Statuses
      <4>2. page' = [page EXCEPT ![j.page].status = status,
                                 ![j.page].edited = (status = "published")]
        BY <1>3 DEF WriteUpdate
      <4> QED BY <4>1, <4>2, SetType
    <3>2. CASE j.page \notin Pages
      BY <1>3, <3>2 DEF WriteUpdate
    <3> QED BY <3>1, <3>2
  <2> QED BY <1>3, <2>1 DEF WriteUpdate
<1>4. ASSUME NEW op, NEW status \in Statuses, WriteStatus(w, op, status)
      PROVE  Written
  <2>1. page' \in [Pages -> Row]
    BY <1>4, SetType DEF WriteStatus
  <2>2. Stepped
    BY <1>4 DEF WriteStatus, Phases
  <2> HIDE DEF Stepped
  <2> QED BY <1>4, <2>1, <2>2 DEF WriteStatus
<1>5. CASE WriteCompanions(w)
  <2> PICK status \in Statuses :
        page' = [p \in Pages |->
           IF p \in Companions(j.page) THEN [page[p] EXCEPT !.status = status, !.edited = FALSE]
           ELSE page[p]]
    BY <1>5 DEF WriteCompanions, Statuses
  <2>1. ASSUME NEW p \in Pages
        PROVE  [page[p] EXCEPT !.status = status, !.edited = FALSE] \in Row
    <3> PICK row \in Row : row = page[p]
      OBVIOUS
    <3>1. [row EXCEPT !.status = status, !.edited = FALSE] \in Row
      BY RowUpdate
    <3> QED BY <3>1
  <2>2. page' \in [Pages -> Row]
    BY <2>1
  <2> QED BY <1>5, <2>2 DEF WriteCompanions
<1>6. CASE RemoveCompanions(w)
  <2>1. Stepped
    BY <1>6 DEF RemoveCompanions, Phases
  <2> HIDE DEF Stepped
  <2> QED BY <1>6, <2>1, WithoutType DEF RemoveCompanions
<1>7. CASE WriteRemove(w)
  BY <1>7, WithoutType DEF WriteRemove
<1>8. CASE WriteDuplicate(w)
  <2> PICK p \in Pages : /\ Insert(p, NewRow(j.seen.kind, "private", j.seen.source, j.seen.parent))
                         /\ GoOn(w, "companion", [j EXCEPT !.copy = p])
    BY <1>8 DEF WriteDuplicate, Free
  <2>1. [j EXCEPT !.copy = p] \in Job
    BY DEF Job
  <2>2. NewRow(j.seen.kind, "private", j.seen.source, j.seen.parent) \in Row
    <3> PICK seen \in Row : seen = j.seen
      BY DEF Job
    <3>1. seen.kind \in {"absent", "landing", "thankYou"} /\ seen.source \in Sources
          /\ seen.parent \in Pages \cup {NoPage} /\ "private" \in Statuses
      BY DEF Row, Statuses
    <3>2. NewRow(seen.kind, "private", seen.source, seen.parent) \in Row
      BY <3>1 DEF NewRow, Row
    <3> QED BY <3>2
  <2>3. page' \in [Pages -> Row]
    BY <2>2 DEF Insert
  <2>4. Stepped
    BY <2>1 DEF Phases
  <2> HIDE DEF Stepped
  <2> QED BY <1>8, <2>3, <2>4 DEF WriteDuplicate
<1>9. CASE WriteCopy(w)
  <2> PICK q \in Pages : Insert(q, NewRow("thankYou", "private", j.seen.source, j.copy))
    BY <1>9 DEF WriteCopy, Free
  <2>1. NewRow("thankYou", "private", j.seen.source, j.copy) \in Row
    BY NewRowType DEF Job, Row, Statuses
  <2> QED BY <1>9, <2>1 DEF WriteCopy, Insert
<1>10. CASE WriteAssignments(w)
  BY <1>10 DEF WriteAssignments
<1> QED BY <1>1, <1>2, <1>3, <1>4, <1>5, <1>6, <1>7, <1>8, <1>9, <1>10 DEF Write, Statuses

LEMMA SurroundingsType ==
  ASSUME TypeInv,
         \/ \E bill \in Bills : Billing(bill)
         \/ \E t \in Templates : DeleteTemplate(t)
  PROVE  TypeInv'
<1> USE DEF TypeInv, TypeOK
<1>1. ASSUME NEW bill \in Bills, Billing(bill) PROVE TypeInv'
  BY <1>1, BillAssumption DEF Billing
<1>2. ASSUME NEW t \in Templates, DeleteTemplate(t) PROVE TypeInv'
  <2>1. ASSUME NEW p \in Pages PROVE [page[p] EXCEPT !.source = NoTemplate] \in Row
    <3> PICK row \in Row : row = page[p]
      OBVIOUS
    <3>1. [row EXCEPT !.source = NoTemplate] \in Row
      BY RowUpdate DEF Statuses
    <3> QED BY <3>1
  <2>2. page' \in [Pages -> Row]
    BY <1>2, <2>1 DEF DeleteTemplate
  <2> QED BY <1>2, <2>2 DEF DeleteTemplate
<1> QED BY <1>1, <1>2

LEMMA NextType == ASSUME TypeInv, [Next]_vars PROVE TypeInv'
<1>1. ASSUME NEW w \in Workers, Refuse(w) PROVE TypeInv'
  BY <1>1, FinishType DEF Refuse, rows, TypeInv, TypeOK
<1>2. CASE UNCHANGED vars
  BY <1>2 DEF vars, TypeInv, TypeOK
<1> QED BY <1>1, <1>2, ArriveType, CheckType, WriteType, SurroundingsType DEF Next

LEMMA InitType == Init => TypeInv
<1> SUFFICES ASSUME Init PROVE TypeInv
  OBVIOUS
<1>1. page \in [Pages -> Row]
  <2>1. ASSUME NEW p \in Pages, NEW q \in Pages, NEW t \in Templates
        PROVE  Portal(p, q, t) \in [Pages -> Row]
    <3>1. NewRow("landing", "published", t, NoPage) \in Row
      BY NewRowType DEF Statuses, Sources
    <3>2. NewRow("thankYou", "published", ThankYouOf[t], p) \in Row
      BY NewRowType, TemplateAssumption DEF Statuses, Sources
    <3> QED BY <3>1, <3>2, AbsentType DEF Portal
  <2> QED BY <2>1, AbsentType DEF Init
<1>2. plan \in Plans /\ sub \in {"usable", "lapsed", "none"}
  BY BillAssumption DEF Init
<1> QED BY <1>1, <1>2, NoJobType DEF Init, TypeInv, TypeOK, Phases

\* In every reachable state of every instance, overlapping or not, the rows and the locals of
\* all handlers hold values of their types, and a handler that reads a page was given one.
THEOREM TypeCorrect == Spec => []TypeOK
BY InitType, NextType, PTL DEF Spec, TypeInv

-----------------------------------------------------------------------------
(* Without overlap: what a handler has read and checked still holds while  *)
(* it is the only one that runs.                                           *)

\* The phases each operation goes through.
Route(op) ==
  CASE op = "get"       -> {"own", "heal"}
    [] op = "update"    -> {"own", "heal", "write"}
    [] op = "publish"   -> {"own", "heal", "gate", "target", "live", "held", "distinct", "write",
                            "companions"}
    [] op = "unpublish" -> {"own", "heal", "write", "companions"}
    [] op = "remove"    -> {"own", "heal", "children", "write"}
    [] op = "duplicate" -> {"own", "heal", "plan", "count", "write", "companion", "copy"}
    [] op = "thankYou"  -> {"own", "heal", "companion", "thank"}
    [] op = "create"    -> {"plan", "count", "held", "write", "own", "heal"}
    [] op = "assign"    -> {"plan", "held", "quota", "write"}
    [] op = "unassign"  -> {"held", "inUse", "write"}
    [] op = "adminSet"  -> {"held", "inUse", "quota", "write"}
    [] OTHER            -> {}

Held(t) == t \in Templates => t \in assigned

\* The page as it was read is the page as it is.
SeenOK(ph, j) ==
  /\ j.op \in PageOps => j.page \in Pages
  /\ ph = "heal" => j.seen = page[j.page] /\ j.seen.kind = "landing"
  /\ j.op \in {"update", "publish", "duplicate"} /\ ph \notin {"own", "companions", "companion", "copy"}
       => j.seen = page[j.page]

\* What is to be built or copied is assigned, what is to be taken away is not in use.
SlotOK(ph, j) ==
  /\ j.op = "create" /\ ph = "write" => Held(j.template)
  /\ ph = "copy" => Held(j.seen.source)
  /\ ph = "inUse" => j.gone = IF j.op = "unassign" THEN {j.template} ELSE assigned \ j.templates
  /\ j.op = "unassign" /\ ph = "write" => BuiltFrom({j.template}) = {}
  /\ j.op = "adminSet" /\ ph \in {"quota", "write"} => BuiltFrom(assigned \ j.templates) = {}

\* Each check of the gate still holds when the later ones are made.
GateOK(ph, j) ==
  j.op = "publish" =>
    /\ ph \in {"target", "live", "held", "distinct", "write"} =>
         sub = "usable" /\ CanPublish(plan) /\ j.plan = plan
    /\ ph \in {"live", "held", "distinct", "write"} => j.template = page[j.page].source
    /\ ph \in {"held", "distinct", "write"} =>
         Within(Cardinality(Live \ {j.page}) + 1, Terms[plan].live)
    /\ ph \in {"distinct", "write"} =>
         (j.template \in Templates => j.template \in assigned \cap Terms[plan].tiers)
    /\ ph = "write" =>
         \/ j.template \in LiveSources(Live \ {j.page}) \cup {NoTemplate}
         \/ Within(Cardinality(LiveSources(Live \ {j.page})) + 1, Terms[plan].templates)

\* A companion is made for a page that has none, and a page removed once it has none.
CompanionOK(ph, j) ==
  /\ ph \in {"heal", "thank"} => Companions(j.page) = {}
  /\ j.op = "duplicate" /\ ph \in {"companion", "copy"} => Companions(j.copy) = {}
  /\ j.op = "remove" /\ ph = "write" /\ page[j.page].kind = "landing" => Companions(j.page) = {}

JobOK(ph, j) ==
  /\ ph \in Route(j.op)
  /\ SeenOK(ph, j) /\ SlotOK(ph, j) /\ GateOK(ph, j) /\ CompanionOK(ph, j)

\* The foreign key on parent_id: a parent that is named exists.
ParentsExist ==
  \A q \in Pages : page[q].parent # NoPage => page[page[q].parent].kind # "absent"

\* SiteAsPublished, spelt out.
LabelTrue == \A p \in Pages : page[p].status = "published" => ~page[p].edited

RowsOK  == SlotHeld /\ LabelTrue /\ ParentsExist
OneBusy == \A v, w \in Workers : pc[v] # "idle" /\ pc[w] # "idle" => v = w

SerialInv ==
  /\ TypeInv /\ OneBusy /\ RowsOK
  /\ \A w \in Workers : pc[w] # "idle" => JobOK(pc[w], job[w])

\* Nobody is at work: nothing is claimed of any handler.
LEMMA QuietSafe ==
  ASSUME TypeInv', RowsOK', \A v \in Workers : pc'[v] = "idle"
  PROVE  SerialInv'
BY DEF SerialInv, OneBusy

\* Once the only handler at work has finished, nobody is.
LEMMA FinishSafe ==
  ASSUME SerialInv, NEW w \in Workers, pc[w] # "idle", Finish(w), TypeInv', RowsOK'
  PROVE  SerialInv'
<1>1. \A v \in Workers : pc'[v] = "idle"
  BY DEF SerialInv, OneBusy, TypeInv, TypeOK, Finish, GoOn
<1> QED BY <1>1, QuietSafe

\* The only handler at work goes on, or begins, with what the invariant asks of it.
LEMMA GoOnSafe ==
  ASSUME SerialInv, NEW w \in Workers, NEW ph, NEW j, TypeInv', RowsOK',
         \A v \in Workers \ {w} : pc[v] = "idle",
         pc' = [pc EXCEPT ![w] = ph], job' = [job EXCEPT ![w] = j], JobOK(ph, j)'
  PROVE  SerialInv'
<1>1. /\ pc \in [Workers -> Phases] /\ job \in [Workers -> Job]
  BY DEF SerialInv, TypeInv, TypeOK
<1>2. OneBusy'
  BY <1>1 DEF SerialInv, OneBusy
<1>3. ASSUME NEW v \in Workers, pc'[v] # "idle" PROVE JobOK(pc[v], job[v])'
  <2>1. v = w /\ pc'[v] = ph /\ job'[v] = j
    BY <1>1, <1>3
  <2>2. /\ SeenOK(pc[v], job[v])' /\ SlotOK(pc[v], job[v])' /\ CompanionOK(pc[v], job[v])'
        /\ pc'[v] \in Route(job'[v].op)
    BY <2>1 DEF JobOK, SeenOK, SlotOK, CompanionOK, Held, BuiltFrom, Companions
  <2>3. GateOK(pc[v], job[v])'
    BY <2>1, Zenon DEF JobOK, GateOK
  <2> QED BY <2>2, <2>3 DEF JobOK
<1> QED BY <1>2, <1>3 DEF SerialInv

\* While the rows stay as they are, so does all that is said of them.
LEMMA RowsStay ==
  ASSUME SerialInv, UNCHANGED rows
  PROVE  /\ RowsOK'
         /\ \A ph, j : JobOK(ph, j) => JobOK(ph, j)'
<1> USE DEF rows
<1>1. RowsOK'
  BY DEF SerialInv, RowsOK, SlotHeld, LabelTrue, ParentsExist
<1>2. ASSUME NEW ph, NEW j, JobOK(ph, j) PROVE JobOK(ph, j)'
  BY <1>2 DEF JobOK, SeenOK, SlotOK, GateOK, CompanionOK, Held, BuiltFrom, Companions,
              LiveSources, Live, Landings
<1> QED BY <1>1, <1>2

\* A handler that reads answers, or goes on with what the invariant asks of it.
LEMMA ReadSafe ==
  ASSUME SerialInv, TypeInv', NEW w \in Workers, NEW ph, NEW j, UNCHANGED rows,
         \A v \in Workers \ {w} : pc[v] = "idle",
         ph = "idle" \/ JobOK(ph, j),
         \/ pc' = [pc EXCEPT ![w] = ph] /\ job' = [job EXCEPT ![w] = j] /\ ph # "idle"
         \/ pc[w] # "idle" /\ Answer(w, ph, j)
  PROVE  SerialInv'
<1>1. CASE ph = "idle"
  BY <1>1, RowsStay, FinishSafe DEF Answer
<1>2. CASE ph # "idle"
  BY <1>2, RowsStay, GoOnSafe DEF Answer, GoOn
<1> QED BY <1>1, <1>2

LEMMA ArriveSafe ==
  ASSUME ~Overlap, SerialInv, TypeInv', NEW w \in Workers, Arrive(w)
  PROVE  SerialInv'
<1>1. ASSUME NEW j, NEW ph, Begin(w, j, ph), JobOK(ph, j), ph # "idle" PROVE SerialInv'
  BY <1>1, ReadSafe DEF Begin, Alone
<1>2. ASSUME NEW op \in PageOps, NEW p \in Pages, OnPage(w, op, p) PROVE SerialInv'
  <2> PICK j : j = Asked(op, p, NoTemplate, {})
    OBVIOUS
  <2>1. j.op = op /\ j.page = p
    BY AskedType DEF Ops, PageOps, Sources
  <2>2. JobOK("own", j)
    BY <2>1 DEF JobOK, Route, SeenOK, SlotOK, GateOK, CompanionOK, PageOps
  <2> QED BY <1>1, <1>2, <2>2 DEF OnPage
<1>3. ASSUME NEW t \in Templates \cup {NoTemplate}, Create(w, t) PROVE SerialInv'
  <2> PICK j : j = Asked("create", NoPage, t, {})
    OBVIOUS
  <2>1. j.op = "create"
    BY AskedType DEF Ops, PageOps, Sources
  <2>2. JobOK("plan", j)
    BY <2>1 DEF JobOK, Route, SeenOK, SlotOK, GateOK, CompanionOK, PageOps
  <2> QED BY <1>1, <1>3, <2>2 DEF Create
<1>4. ASSUME NEW t \in Templates, Assign(w, t) PROVE SerialInv'
  <2> PICK j : j = Asked("assign", NoPage, t, {})
    OBVIOUS
  <2>1. j.op = "assign"
    BY AskedType DEF Ops, PageOps, Sources
  <2>2. JobOK("plan", j)
    BY <2>1 DEF JobOK, Route, SeenOK, SlotOK, GateOK, CompanionOK, PageOps
  <2> QED BY <1>1, <1>4, <2>2 DEF Assign
<1>5. ASSUME NEW t \in Templates, Unassign(w, t) PROVE SerialInv'
  <2> PICK j : j = Asked("unassign", NoPage, t, {})
    OBVIOUS
  <2>1. j.op = "unassign"
    BY AskedType DEF Ops, PageOps, Sources
  <2>2. JobOK("held", j)
    BY <2>1 DEF JobOK, Route, SeenOK, SlotOK, GateOK, CompanionOK, PageOps
  <2> QED BY <1>1, <1>5, <2>2 DEF Unassign
<1>6. ASSUME NEW T \in SUBSET Templates, AdminSet(w, T) PROVE SerialInv'
  <2> PICK j : j = Asked("adminSet", NoPage, NoTemplate, T)
    OBVIOUS
  <2>1. j.op = "adminSet"
    BY AskedType DEF Ops, PageOps, Sources
  <2>2. JobOK("held", j)
    BY <2>1 DEF JobOK, Route, SeenOK, SlotOK, GateOK, CompanionOK, PageOps
  <2> QED BY <1>1, <1>6, <2>2 DEF AdminSet
<1> QED BY <1>2, <1>3, <1>4, <1>5, <1>6 DEF Arrive

LEMMA CheckSafe ==
  ASSUME SerialInv, TypeInv', NEW w \in Workers, Check(w)
  PROVE  SerialInv'
<1> PICK j \in Job : j = job[w]
  BY DEF SerialInv, TypeInv, TypeOK
<1>1. pc[w] # "idle"
  BY DEF Check, Own, ReadPlan, CountPages, ReadAssignment, ReadAssignments, CountInUse,
         CountAssigned, ReadGate, ReadTarget, CountLive, CountDistinct, FindCompanion
<1>2. JobOK(pc[w], j) /\ \A v \in Workers \ {w} : pc[v] = "idle"
  BY <1>1 DEF SerialInv, OneBusy
<1>3. ASSUME NEW i, NEW ph, UNCHANGED rows, ph = "idle" \/ JobOK(ph, i),
             (ph # "idle" /\ GoOn(w, ph, i)) \/ Answer(w, ph, i)
      PROVE  SerialInv'
  BY <1>1, <1>2, <1>3, ReadSafe DEF GoOn
<1> DEFINE Parts(ph, i) == /\ SeenOK(ph, i) /\ SlotOK(ph, i)
                           /\ GateOK(ph, i) /\ CompanionOK(ph, i)
<1>4. Parts(pc[w], j) /\ pc[w] \in Route(j.op) /\ page \in [Pages -> Row] /\ SlotHeld
  BY <1>2 DEF JobOK, SerialInv, TypeInv, TypeOK, RowsOK
<1>5. CASE Own(w)
  <2>1. j.page \in Pages /\ pc[w] = "own"
    BY <1>5 DEF Own, SerialInv, TypeInv
  <2> PICK row \in Row : row = page[j.page]
    BY <1>4, <2>1
  <2> PICK ph : ph = IF row.kind = "landing" /\ Companions(j.page) = {} THEN "heal"
                     ELSE AfterOwn(j.op, row)
    OBVIOUS
  <2> DEFINE i == [j EXCEPT !.seen = row]
  <2>2. Answer(w, ph, i) /\ UNCHANGED rows
    BY <1>5 DEF Own
  <2>3. i.op = j.op /\ i.page = j.page /\ i.seen = row
    BY DEF Job
  <2> HIDE DEF i
  <2>4. ph = "idle" \/ JobOK(ph, i)
    BY <1>4, <2>1, <2>3
    DEF JobOK, AfterOwn, Route, PageOps, SeenOK, SlotOK, GateOK, CompanionOK
  <2> QED BY <1>3, <2>2, <2>4
<1>6. CASE ReadPlan(w)
  <2> PICK p, ph : /\ p = IF sub = "usable" THEN plan ELSE Basic
                   /\ ph = IF j.op = "assign" THEN "held" ELSE "count"
    OBVIOUS
  <2> DEFINE i == [j EXCEPT !.plan = p]
  <2>1. pc[w] = "plan" /\ GoOn(w, ph, i) /\ UNCHANGED rows
    BY <1>6 DEF ReadPlan
  <2>2. i.op = j.op /\ i.page = j.page /\ i.seen = j.seen
    BY DEF Job
  <2> HIDE DEF i
  <2>3. j.op \in {"create", "duplicate", "assign"}
    BY <1>4, <2>1 DEF Route
  <2>4. JobOK(ph, i)
    BY <1>4, <2>1, <2>2, <2>3 DEF JobOK, Route, PageOps, SeenOK, SlotOK, GateOK, CompanionOK
  <2> QED BY <1>3, <2>1, <2>4
<1>7. CASE CountPages(w)
  <2>1. /\ pc[w] = "count" /\ UNCHANGED rows
        /\ GoOn(w, IF j.op = "create" /\ j.template # NoTemplate THEN "held" ELSE "write", j)
    BY <1>7 DEF CountPages
  <2>2. j.op \in {"create", "duplicate"}
    BY <1>4, <2>1 DEF Route
  <2>3. JobOK(IF j.op = "create" /\ j.template # NoTemplate THEN "held" ELSE "write", j)
    BY <1>4, <2>1, <2>2, TemplateAssumption
    DEF JobOK, Route, PageOps, SeenOK, SlotOK, GateOK, CompanionOK, Held
  <2> QED BY <1>3, <2>1, <2>3
<1>8. CASE ReadAssignment(w)
  <2>1. /\ pc[w] = "held" /\ UNCHANGED rows
        /\ GoOn(w, IF j.op = "create" THEN "write" ELSE "distinct", j)
        /\ j.op \in {"create", "publish"} /\ j.template \in assigned
        /\ j.op = "publish" => j.template \in Terms[j.plan].tiers
    BY <1>8 DEF ReadAssignment
  <2>2. JobOK(IF j.op = "create" THEN "write" ELSE "distinct", j)
    BY <1>4, <2>1 DEF JobOK, Route, PageOps, SeenOK, SlotOK, GateOK, CompanionOK, Held
  <2> QED BY <1>3, <2>1, <2>2
<1>9. CASE ReadAssignments(w)
  <2>1. pc[w] = "held" /\ UNCHANGED rows
    BY <1>9 DEF ReadAssignments
  <2>2. CASE j.op = "assign"
    <3>1. Answer(w, IF j.template \in assigned THEN "idle" ELSE "quota", j)
      BY <1>9, <2>2 DEF ReadAssignments
    <3>2. JobOK("quota", j)
      BY <1>4, <2>1, <2>2 DEF JobOK, Route, PageOps, SeenOK, SlotOK, GateOK, CompanionOK
    <3> QED BY <1>3, <2>1, <3>1, <3>2
  <2>3. CASE j.op # "assign"
    <3> PICK gone : gone = IF j.op = "unassign" THEN {j.template} ELSE assigned \ j.templates
      OBVIOUS
    <3> DEFINE i == [j EXCEPT !.gone = gone]
    <3>1. GoOn(w, "inUse", i) /\ j.op \in {"unassign", "adminSet"}
      BY <1>9, <2>3 DEF ReadAssignments
    <3>2. /\ i.op = j.op /\ i.page = j.page /\ i.template = j.template
          /\ i.templates = j.templates /\ i.gone = gone
      BY DEF Job
    <3> HIDE DEF i
    <3>3. JobOK("inUse", i)
      BY <1>4, <3>1, <3>2 DEF JobOK, Route, PageOps, SeenOK, SlotOK, GateOK, CompanionOK
    <3> QED BY <1>3, <2>1, <3>1, <3>3
  <2> QED BY <2>2, <2>3
<1>10. CASE CountInUse(w)
  <2>1. /\ pc[w] = "inUse" /\ BuiltFrom(j.gone) = {} /\ UNCHANGED rows
        /\ GoOn(w, IF j.op = "adminSet" THEN "quota" ELSE "write", j)
    BY <1>10 DEF CountInUse
  <2>2. j.op \in {"unassign", "adminSet"}
    BY <1>4, <2>1 DEF Route
  <2>3. JobOK(IF j.op = "adminSet" THEN "quota" ELSE "write", j)
    BY <1>4, <2>1, <2>2 DEF JobOK, Route, PageOps, SeenOK, SlotOK, GateOK, CompanionOK
  <2> QED BY <1>3, <2>1, <2>3
<1>11. CASE CountAssigned(w)
  <2>1. pc[w] = "quota" /\ GoOn(w, "write", j) /\ UNCHANGED rows
    BY <1>11 DEF CountAssigned
  <2>2. j.op \in {"assign", "adminSet"}
    BY <1>4, <2>1 DEF Route
  <2>3. JobOK("write", j)
    BY <1>4, <2>1, <2>2 DEF JobOK, Route, PageOps, SeenOK, SlotOK, GateOK, CompanionOK
  <2> QED BY <1>3, <2>1, <2>3
<1>12. CASE ReadGate(w)
  <2> DEFINE i == [j EXCEPT !.plan = plan]
  <2>1. pc[w] = "gate" /\ sub = "usable" /\ CanPublish(plan) /\ UNCHANGED rows
        /\ GoOn(w, "target", i)
    BY <1>12 DEF ReadGate
  <2>2. i.op = j.op /\ i.page = j.page /\ i.seen = j.seen /\ i.plan = plan
    BY DEF Job
  <2> PICK k : k = i
    OBVIOUS
  <2> HIDE DEF i
  <2>3. j.op = "publish"
    BY <1>4, <2>1 DEF Route
  <2>4. JobOK("target", k)
    BY <1>4, <2>1, <2>2, <2>3 DEF JobOK, Route, PageOps, SeenOK, SlotOK, GateOK, CompanionOK
  <2> QED BY <1>3, <2>1, <2>4
<1>13. CASE ReadTarget(w)
  <2> PICK t : t = page[j.page].source
    OBVIOUS
  <2> DEFINE i == [j EXCEPT !.template = t]
  <2>1. pc[w] = "target" /\ GoOn(w, "live", i) /\ UNCHANGED rows
    BY <1>13 DEF ReadTarget
  <2>2. i.op = j.op /\ i.page = j.page /\ i.seen = j.seen /\ i.plan = j.plan /\ i.template = t
    BY DEF Job
  <2> HIDE DEF i
  <2>3. j.op = "publish"
    BY <1>4, <2>1 DEF Route
  <2>4. JobOK("live", i)
    BY <1>4, <2>1, <2>2, <2>3 DEF JobOK, Route, PageOps, SeenOK, SlotOK, GateOK, CompanionOK
  <2> QED BY <1>3, <2>1, <2>4
<1>14. CASE CountLive(w)
  <2>1. /\ pc[w] = "live" /\ UNCHANGED rows
        /\ Within(Cardinality(Live \ {j.page}) + 1, Terms[j.plan].live)
        /\ GoOn(w, IF j.template = NoTemplate THEN "write" ELSE "held", j)
    BY <1>14 DEF CountLive
  <2>2. j.op = "publish"
    BY <1>4, <2>1 DEF Route
  <2>3. JobOK(IF j.template = NoTemplate THEN "write" ELSE "held", j)
    BY <1>4, <2>1, <2>2, TemplateAssumption
    DEF JobOK, Route, PageOps, SeenOK, SlotOK, GateOK, CompanionOK
  <2> QED BY <1>3, <2>1, <2>3
<1>15. CASE CountDistinct(w)
  <2> PICK others : others = LiveSources(Live \ {j.page})
    OBVIOUS
  <2>1. /\ pc[w] = "distinct" /\ GoOn(w, "write", j) /\ UNCHANGED rows
        /\ j.template \in others \/ Within(Cardinality(others) + 1, Terms[j.plan].templates)
    BY <1>15 DEF CountDistinct
  <2>2. j.op = "publish"
    BY <1>4, <2>1 DEF Route
  <2>3. JobOK("write", j)
    BY <1>4, <2>1, <2>2 DEF JobOK, Route, PageOps, SeenOK, SlotOK, GateOK, CompanionOK
  <2> QED BY <1>3, <2>1, <2>3
<1>16. CASE FindCompanion(w)
  <2>1. pc[w] = "companion" /\ j.op \in {"thankYou", "duplicate"} /\ UNCHANGED rows
    BY <1>4, <1>16 DEF FindCompanion, Route
  <2>2. CASE Companions(j.page) = {} /\ Answer(w, IF j.op = "thankYou" THEN "thank" ELSE "idle", j)
    <3>1. j.op = "thankYou" => JobOK("thank", j)
      BY <1>4, <2>1, <2>2 DEF JobOK, Route, PageOps, SeenOK, SlotOK, GateOK, CompanionOK
    <3> QED BY <1>3, <2>1, <2>2, <3>1
  <2>3. ASSUME NEW q \in Companions(j.page),
               Answer(w, IF j.op = "thankYou" THEN "idle" ELSE "copy", [j EXCEPT !.seen = page[q]])
        PROVE  SerialInv'
    <3> PICK row : row = page[q]
      OBVIOUS
    <3> DEFINE i == [j EXCEPT !.seen = row]
    <3>1. Answer(w, IF j.op = "thankYou" THEN "idle" ELSE "copy", i) /\ Held(row.source)
      BY <1>4, <2>3 DEF Companions, SlotHeld, Held
    <3>2. i.op = j.op /\ i.page = j.page /\ i.copy = j.copy /\ i.seen = row
      BY DEF Job
    <3> HIDE DEF i
    <3>3. j.op = "duplicate" => JobOK("copy", i)
      BY <1>4, <2>1, <3>1, <3>2 DEF JobOK, Route, PageOps, SeenOK, SlotOK, GateOK, CompanionOK
    <3> QED BY <1>3, <2>1, <3>1, <3>3
  <2> QED BY <1>16, <2>2, <2>3 DEF FindCompanion
<1> QED BY <1>5, <1>6, <1>7, <1>8, <1>9, <1>10, <1>11, <1>12, <1>13, <1>14, <1>15, <1>16 DEF Check

-----------------------------------------------------------------------------
(* What the writes do to the rows.                                         *)

\* A new row whose source is assigned and whose parent exists.
LEMMA InsertSafe ==
  ASSUME TypeOK, RowsOK, NEW q \in Pages, NEW row \in Row, page[q].kind = "absent",
         row.status = "published" => ~row.edited, Held(row.source),
         row.parent # NoPage => page[row.parent].kind # "absent",
         page' = [page EXCEPT ![q] = row], UNCHANGED assigned
  PROVE  RowsOK'
<1> USE DEF TypeOK, RowsOK
<1>1. SlotHeld' /\ LabelTrue'
  BY DEF SlotHeld, LabelTrue, Held
<1>2. ASSUME NEW p \in Pages, page'[p].parent # NoPage
      PROVE  page'[page'[p].parent].kind # "absent"
  <2> PICK x : x = page'[p].parent
    OBVIOUS
  <2>1. x \in Pages
    <3> PICK r \in Row : r = page'[p]
      OBVIOUS
    <3> QED BY <1>2 DEF Row
  <2>2. page[x].kind # "absent"
    BY <1>2 DEF ParentsExist
  <2>3. x # q
    BY <2>2
  <2> QED BY <2>1, <2>2, <2>3
<1>3. ParentsExist'
  BY <1>2 DEF ParentsExist
<1> QED BY <1>1, <1>3

\* Statuses are written, nothing else.
LEMMA StatusSafe ==
  ASSUME RowsOK, UNCHANGED assigned,
         \A p \in Pages : /\ page'[p].kind = page[p].kind /\ page'[p].source = page[p].source
                          /\ page'[p].parent = page[p].parent
                          /\ page'[p].status = "published" => ~page'[p].edited,
         TypeOK
  PROVE  RowsOK'
<1>1. SlotHeld' /\ LabelTrue'
  BY DEF RowsOK, SlotHeld, LabelTrue
<1>2. ASSUME NEW p \in Pages, page'[p].parent # NoPage
      PROVE  page'[page'[p].parent].kind # "absent"
  <2> PICK x : x = page[p].parent
    OBVIOUS
  <2>1. x \in Pages /\ x = page'[p].parent
    <3> PICK r \in Row : r = page[p]
      BY DEF TypeOK
    <3> QED BY <1>2 DEF Row
  <2>2. page[x].kind # "absent"
    BY <1>2, <2>1 DEF RowsOK, ParentsExist
  <2> QED BY <2>1, <2>2
<1> QED BY <1>1, <1>2 DEF RowsOK, ParentsExist

\* Deleted rows are gone, and nobody's parent any more.
LEMMA WithoutEffect ==
  ASSUME TypeOK, NEW D, NEW p \in Pages
  PROVE  /\ p \in D => Without(D)[p] = Absent
         /\ p \notin D => /\ Without(D)[p].kind = page[p].kind
                          /\ Without(D)[p].status = page[p].status
                          /\ Without(D)[p].edited = page[p].edited
                          /\ Without(D)[p].source = page[p].source
                          /\ Without(D)[p].parent = IF page[p].parent \in D THEN NoPage
                                                    ELSE page[p].parent
<1> PICK row \in Row : row = page[p]
  BY DEF TypeOK
<1>1. Without(D)[p] = IF p \in D THEN Absent
                      ELSE IF row.parent \in D THEN [row EXCEPT !.parent = NoPage] ELSE row
  BY DEF Without
<1>2. /\ [row EXCEPT !.parent = NoPage].kind = row.kind
      /\ [row EXCEPT !.parent = NoPage].status = row.status
      /\ [row EXCEPT !.parent = NoPage].edited = row.edited
      /\ [row EXCEPT !.parent = NoPage].source = row.source
      /\ [row EXCEPT !.parent = NoPage].parent = NoPage
  BY DEF Row
<1> QED BY <1>1, <1>2

LEMMA WithoutSafe ==
  ASSUME TypeOK, RowsOK, NEW D, page' = Without(D), UNCHANGED assigned
  PROVE  RowsOK'
<1>1. \A p \in Pages : p \in D => page'[p] = Absent
  BY WithoutEffect
<1>2. \A p \in Pages : p \notin D =>
        /\ page'[p].kind = page[p].kind /\ page'[p].status = page[p].status
        /\ page'[p].edited = page[p].edited /\ page'[p].source = page[p].source
        /\ page'[p].parent = IF page[p].parent \in D THEN NoPage ELSE page[p].parent
  BY WithoutEffect
<1>3. SlotHeld' /\ LabelTrue'
  BY <1>1, <1>2, AbsentType, TemplateAssumption DEF RowsOK, SlotHeld, LabelTrue
<1>4. ASSUME NEW p \in Pages, page'[p].parent # NoPage
      PROVE  page'[page'[p].parent].kind # "absent"
  <2> PICK x : x = page[p].parent
    OBVIOUS
  <2>1. p \notin D /\ x \notin D /\ x = page'[p].parent
    BY <1>1, <1>2, <1>4, AbsentType
  <2>2. x \in Pages
    <3> PICK r \in Row : r = page[p]
      BY DEF TypeOK
    <3> QED BY <1>4, <2>1 DEF Row
  <2>3. page[x].kind # "absent"
    BY <1>4, <2>1 DEF RowsOK, ParentsExist
  <2> QED BY <1>2, <2>1, <2>2, <2>3
<1> QED BY <1>3, <1>4 DEF RowsOK, ParentsExist

\* What is known of the only handler at work, when its job is j.
Known(w, j) ==
  /\ SerialInv /\ j = job[w] /\ j \in Job /\ pc[w] # "idle" /\ JobOK(pc[w], j)
  /\ \A v \in Workers \ {w} : pc[v] = "idle"

LEMMA Knowing ==
  ASSUME SerialInv, NEW w \in Workers, pc[w] # "idle", NEW j, j = job[w]
  PROVE  Known(w, j)
BY DEF Known, SerialInv, OneBusy, TypeInv, TypeOK

\* A handler that writes answers, or goes on with what the invariant asks of it.
LEMMA AnswerSafe ==
  ASSUME NEW w \in Workers, NEW j, Known(w, j), TypeInv', RowsOK', NEW ph, NEW i,
         Answer(w, ph, i), ph = "idle" \/ JobOK(ph, i)'
  PROVE  SerialInv'
<1>1. CASE ph = "idle"
  BY <1>1, FinishSafe DEF Answer, Known
<1>2. CASE ph # "idle"
  BY <1>2, GoOnSafe DEF Answer, GoOn, Known
<1> QED BY <1>1, <1>2

\* Row q is inserted as a companion of page p, built from no template.
MadeFor(p, q, row) ==
  /\ page[q].kind = "absent" /\ q # p /\ row.parent = p
  /\ row.kind = "thankYou" /\ ~row.edited /\ row.source = NoTemplate
  /\ p # NoPage => page[p].kind # "absent"
  /\ page' = [page EXCEPT ![q] = row]

LEMMA ThankYouInserted ==
  ASSUME NEW w \in Workers, NEW j, Known(w, j), InsertThankYou(w)
  PROVE  \E q \in Pages, row \in Row : MadeFor(j.page, q, row)
<1> PICK q \in Free, status \in Statuses :
           Insert(q, NewRow("thankYou", status, NoTemplate, j.page))
  BY DEF InsertThankYou, Statuses, Known
<1> PICK row : row = NewRow("thankYou", status, NoTemplate, j.page)
  OBVIOUS
<1>1. j.page \in Pages \cup {NoPage}
  BY DEF Known, Job
<1>2. /\ row \in Row /\ row.kind = "thankYou" /\ row.edited = FALSE
      /\ row.source = NoTemplate /\ row.parent = j.page
  BY <1>1 DEF NewRow, Row, Sources
<1>3. q \in Pages /\ page[q].kind = "absent" /\ q # j.page
  BY DEF Free, Known
<1>4. (j.page # NoPage => page[j.page].kind # "absent") /\ page' = [page EXCEPT ![q] = row]
  BY <1>2 DEF Insert, Exists
<1>5. MadeFor(j.page, q, row)
  BY <1>2, <1>3, <1>4 DEF MadeFor
<1> QED BY <1>2, <1>3, <1>5

LEMMA HealSafe ==
  ASSUME TypeInv', NEW w \in Workers, NEW j, Known(w, j), InsertThankYou(w)
  PROVE  SerialInv'
<1>0. PICK q \in Pages, row \in Row : MadeFor(j.page, q, row)
  BY ThankYouInserted
<1> USE <1>0 DEF MadeFor
<1>1. page \in [Pages -> Row] /\ TypeOK /\ RowsOK
  BY DEF Known, SerialInv, TypeInv, TypeOK
<1>2. RowsOK'
  <2>1. Held(row.source) /\ UNCHANGED assigned
    BY TemplateAssumption DEF Held, InsertThankYou
  <2> QED BY <1>1, <2>1, InsertSafe
<1> PICK ph : ph = IF pc[w] = "heal" THEN AfterOwn(j.op, j.seen) ELSE "idle"
  OBVIOUS
<1>3. Answer(w, ph, j)
  BY DEF InsertThankYou, Known
<1>4. SeenOK(pc[w], j) /\ pc[w] \in Route(j.op)
  BY DEF Known, JobOK
<1>5. ASSUME ph # "idle" PROVE JobOK(ph, j)'
  <2>1. pc[w] = "heal" /\ j.seen = page[j.page] /\ j.seen.kind = "landing"
    BY <1>4, <1>5 DEF SeenOK
  <2>2. j.page \in Pages
    BY <2>1 DEF Known, SerialInv, TypeInv
  <2>3. page'[j.page] = page[j.page]
    BY <1>1, <2>2
  <2> QED BY <1>4, <1>5, <2>1, <2>2, <2>3
          DEF JobOK, AfterOwn, Route, PageOps, SeenOK, SlotOK, GateOK, CompanionOK
<1> QED BY <1>2, <1>3, <1>5, AnswerSafe

\* A page and its companion, built from a template that is assigned.
LEMMA CreateSafe ==
  ASSUME TypeInv', NEW w \in Workers, NEW j, Known(w, j), WriteCreate(w)
  PROVE  SerialInv'
<1>1. /\ page \in [Pages -> Row] /\ TypeOK /\ RowsOK
      /\ j.op = "create" /\ Held(j.template) /\ j.template \in Sources
      /\ j.template \in Templates \cup {NoTemplate}
  BY DEF WriteCreate, Writes, Known, JobOK, SlotOK, SerialInv, TypeInv, TypeOK, Job
<1> PICK p \in Free, q \in Free :
      /\ p # q
      /\ page' = [page EXCEPT
           ![p] = NewRow("landing", "private", j.template, NoPage),
           ![q] = NewRow("thankYou", "private",
                         IF j.template = NoTemplate THEN NoTemplate ELSE ThankYouOf[j.template], p)]
      /\ GoOn(w, "own", [j EXCEPT !.page = p])
  BY DEF WriteCreate, Known
<1> PICK y : y = IF j.template = NoTemplate THEN NoTemplate ELSE ThankYouOf[j.template]
  OBVIOUS
<1> PICK a, b : /\ a = NewRow("landing", "private", j.template, NoPage)
                /\ b = NewRow("thankYou", "private", y, p)
  OBVIOUS
<1>2. y \in Sources /\ y \notin Templates
  BY <1>1, TemplateAssumption DEF Sources
<1>3. /\ p \in Pages /\ q \in Pages /\ page[p].kind = "absent" /\ page[q].kind = "absent"
      /\ page' = [page EXCEPT ![p] = a, ![q] = b]
  BY DEF Free
<1>4. /\ a.kind = "landing" /\ a.status = "private" /\ a.source = j.template /\ a.parent = NoPage
      /\ b.kind = "thankYou" /\ b.status = "private" /\ b.source = y /\ b.parent = p
  BY DEF NewRow
<1>5. UNCHANGED assigned
  BY DEF WriteCreate
<1>6. SlotHeld' /\ LabelTrue'
  BY <1>1, <1>2, <1>3, <1>4, <1>5 DEF RowsOK, SlotHeld, LabelTrue, Held
<1>7. ASSUME NEW r \in Pages, page'[r].parent # NoPage
      PROVE  page'[page'[r].parent].kind # "absent"
  <2>1. CASE r = q
    BY <1>1, <1>3, <1>4, <2>1
  <2>2. CASE r # q
    <3> PICK x : x = page[r].parent
      OBVIOUS
    <3>1. x = page'[r].parent /\ page[x].kind # "absent"
      BY <1>1, <1>3, <1>4, <1>7, <2>2 DEF RowsOK, ParentsExist
    <3>2. x \in Pages
      <4> PICK s \in Row : s = page[r]
        BY <1>1
      <4> QED BY <1>7, <3>1 DEF Row
    <3> QED BY <1>1, <1>3, <3>1, <3>2
  <2> QED BY <2>1, <2>2
<1>8. RowsOK'
  BY <1>6, <1>7 DEF RowsOK, ParentsExist
<1> DEFINE i == [j EXCEPT !.page = p]
<1>9. GoOn(w, "own", i) /\ i.op = j.op
  BY DEF Known, Job
<1> HIDE DEF i
<1>10. JobOK("own", i)'
  BY <1>1, <1>9 DEF JobOK, Route, PageOps, SeenOK, SlotOK, GateOK, CompanionOK
<1> QED BY <1>8, <1>9, <1>10, AnswerSafe DEF Answer

\* What a write of status and label does to the row, and to no other.
LEMMA SetEffect ==
  ASSUME TypeOK, NEW p \in Pages, NEW status, NEW edited \in BOOLEAN,
         page' = [page EXCEPT ![p].status = status, ![p].edited = edited]
  PROVE  /\ page'[p].kind = page[p].kind /\ page'[p].source = page[p].source
         /\ page'[p].parent = page[p].parent
         /\ page'[p].status = status /\ (page'[p].edited <=> edited)
         /\ \A q \in Pages \ {p} : page'[q] = page[q]
<1> PICK row \in Row : row = page[p]
  BY DEF TypeOK
<1> DEFINE new == [row EXCEPT !.status = status, !.edited = edited]
<1>1. /\ new.kind = row.kind /\ new.source = row.source /\ new.parent = row.parent
      /\ new.status = status /\ (new.edited <=> edited)
  <2>1. CASE edited = TRUE
    BY <2>1 DEF Row
  <2>2. CASE edited = FALSE
    BY <2>2 DEF Row
  <2> QED BY <2>1, <2>2
<1>2. page' = [page EXCEPT ![p] = new]
  BY DEF TypeOK
<1>3. page'[p] = new /\ \A q \in Pages \ {p} : page'[q] = page[q]
  BY <1>2 DEF TypeOK
<1> HIDE DEF new
<1> QED BY <1>1, <1>3

LEMMA UpdateSafe ==
  ASSUME TypeInv', NEW w \in Workers, NEW j, Known(w, j), WriteUpdate(w)
  PROVE  SerialInv'
<1>1. /\ TypeOK /\ RowsOK /\ page \in [Pages -> Row] /\ j.page \in Pages
      /\ pc[w] = "write" /\ j.op = "update" /\ j.seen = page[j.page]
  BY DEF WriteUpdate, Writes, Known, JobOK, SeenOK, SerialInv, TypeInv, TypeOK, PageOps
<1> PICK status : status = IF j.seen.status = "published" THEN "private" ELSE page[j.page].status
  OBVIOUS
<1>2. status # "published" /\ (status = "published") = FALSE
  BY <1>1
<1>3. /\ page' = [page EXCEPT ![j.page].status = status, ![j.page].edited = FALSE]
      /\ UNCHANGED assigned /\ Finish(w)
  BY <1>2 DEF WriteUpdate, Known
<1>4. RowsOK'
  <2>1. \A p \in Pages \ {j.page} : page'[p] = page[p]
    BY <1>1, <1>3, SetEffect
  <2>2. /\ page'[j.page].kind = page[j.page].kind /\ page'[j.page].source = page[j.page].source
        /\ page'[j.page].parent = page[j.page].parent /\ ~page'[j.page].edited
    BY <1>1, <1>3, SetEffect
  <2> QED BY <1>1, <1>2, <1>3, <2>1, <2>2, StatusSafe DEF RowsOK, LabelTrue
<1> QED BY <1>1, <1>3, <1>4, FinishSafe DEF Known

LEMMA WriteStatusSafe ==
  ASSUME TypeInv', NEW w \in Workers, NEW j, Known(w, j), NEW op \in {"publish", "unpublish"},
         NEW status, WriteStatus(w, op, status)
  PROVE  SerialInv'
<1>1. /\ TypeOK /\ RowsOK /\ page \in [Pages -> Row] /\ j.page \in Pages
      /\ pc[w] = "write" /\ j.op = op
  BY DEF WriteStatus, Writes, Known, JobOK, SeenOK, SerialInv, TypeInv, TypeOK, PageOps
<1> PICK ph : ph = IF j.seen.kind = "landing" THEN "companions" ELSE "idle"
  OBVIOUS
<1>2. /\ page' = [page EXCEPT ![j.page].status = status, ![j.page].edited = FALSE]
      /\ UNCHANGED assigned /\ Answer(w, ph, j)
  BY DEF WriteStatus, Known
<1>3. RowsOK'
  <2>1. \A p \in Pages \ {j.page} : page'[p] = page[p]
    BY <1>1, <1>2, SetEffect
  <2>2. /\ page'[j.page].kind = page[j.page].kind /\ page'[j.page].source = page[j.page].source
        /\ page'[j.page].parent = page[j.page].parent /\ ~page'[j.page].edited
    BY <1>1, <1>2, SetEffect
  <2> QED BY <1>1, <1>2, <2>1, <2>2, StatusSafe DEF RowsOK, LabelTrue
<1>4. ph # "idle" => JobOK(ph, j)'
  BY <1>1 DEF JobOK, Route, PageOps, SeenOK, SlotOK, GateOK, CompanionOK
<1> QED BY <1>2, <1>3, <1>4, AnswerSafe

\* What the write of its companions does to a page, and to any other row.
LEMMA CompanionsEffect ==
  ASSUME TypeOK, NEW w \in Workers, WriteCompanions(w), NEW p \in Pages
  PROVE  /\ page'[p].kind = page[p].kind /\ page'[p].source = page[p].source
         /\ page'[p].parent = page[p].parent
         /\ (page[p].kind = "thankYou" /\ ~page'[p].edited) \/ page'[p] = page[p]
<1> PICK row \in Row : row = page[p]
  BY DEF TypeOK
<1> PICK status : status = IF job[w].op = "publish" THEN "published" ELSE "private"
  OBVIOUS
<1> PICK new : new = [row EXCEPT !.status = status, !.edited = FALSE]
  OBVIOUS
<1>1. page'[p] = IF p \in Companions(job[w].page) THEN new ELSE row
  BY DEF WriteCompanions
<1>2. /\ new.kind = row.kind /\ new.source = row.source /\ new.parent = row.parent /\ ~new.edited
  BY DEF Row
<1> QED BY <1>1, <1>2 DEF Companions

LEMMA WriteCompanionsSafe ==
  ASSUME TypeInv', NEW w \in Workers, NEW j, Known(w, j), WriteCompanions(w)
  PROVE  SerialInv'
<1>1. TypeOK /\ RowsOK
  BY DEF Known, SerialInv, TypeInv
<1>2. RowsOK'
  <2>1. UNCHANGED assigned
    BY DEF WriteCompanions
  <2>2. \A p \in Pages :
          /\ page'[p].kind = page[p].kind /\ page'[p].source = page[p].source
          /\ page'[p].parent = page[p].parent
          /\ ~page'[p].edited \/ page'[p] = page[p]
    BY <1>1, CompanionsEffect
  <2> QED BY <1>1, <2>1, <2>2, StatusSafe DEF RowsOK, LabelTrue
<1> QED BY <1>2, FinishSafe DEF WriteCompanions, Known

LEMMA RemoveCompanionsSafe ==
  ASSUME TypeInv', NEW w \in Workers, NEW j, Known(w, j), RemoveCompanions(w)
  PROVE  SerialInv'
<1>1. /\ TypeOK /\ RowsOK /\ pc[w] = "children" /\ j.op = "remove" /\ j.page \in Pages
      /\ page' = Without(Companions(j.page)) /\ UNCHANGED assigned /\ GoOn(w, "write", j)
  BY DEF RemoveCompanions, Known, JobOK, Route, SeenOK, PageOps, SerialInv, TypeInv
<1>2. RowsOK'
  BY <1>1, WithoutSafe
<1>3. Companions(j.page)' = {}
  <2>1. ASSUME NEW q \in Pages, page'[q].kind = "thankYou", page'[q].parent = j.page
        PROVE  FALSE
    <3>1. q \notin Companions(j.page)
      BY <1>1, <2>1, WithoutEffect, AbsentType
    <3>2. page[q].kind = "thankYou" /\ page[q].parent = j.page
      BY <1>1, <2>1, <3>1, WithoutEffect, PageAssumption
    <3> QED BY <3>1, <3>2 DEF Companions
  <2> QED BY <2>1 DEF Companions
<1>4. JobOK("write", j)'
  BY <1>1, <1>3 DEF JobOK, Route, PageOps, SeenOK, SlotOK, GateOK, CompanionOK
<1> QED BY <1>1, <1>2, <1>4, AnswerSafe DEF Answer

LEMMA WriteRemoveSafe ==
  ASSUME TypeInv', NEW w \in Workers, NEW j, Known(w, j), WriteRemove(w)
  PROVE  SerialInv'
<1>1. TypeOK /\ RowsOK /\ page' = Without({j.page}) /\ UNCHANGED assigned /\ Finish(w)
  BY DEF WriteRemove, Known, SerialInv, TypeInv
<1>2. RowsOK'
  BY <1>1, WithoutSafe
<1> QED BY <1>1, <1>2, FinishSafe DEF Known

\* A copy keeps the source of its original, which is still assigned.
LEMMA DuplicateSafe ==
  ASSUME TypeInv', NEW w \in Workers, NEW j, Known(w, j), WriteDuplicate(w)
  PROVE  SerialInv'
<1> PICK s \in Row : s = j.seen
  BY DEF Known, Job
<1>1. /\ TypeOK /\ RowsOK /\ page \in [Pages -> Row] /\ j.page \in Pages
      /\ pc[w] = "write" /\ j.op = "duplicate" /\ s = page[j.page] /\ UNCHANGED assigned
  BY DEF WriteDuplicate, Writes, Known, JobOK, SeenOK, SerialInv, TypeInv, TypeOK, PageOps
<1> PICK p \in Free : /\ Insert(p, NewRow(s.kind, "private", s.source, s.parent))
                      /\ GoOn(w, "companion", [j EXCEPT !.copy = p])
  BY DEF WriteDuplicate, Known
<1> PICK row : row = NewRow(s.kind, "private", s.source, s.parent)
  OBVIOUS
<1>2. /\ row \in Row /\ row.kind = s.kind /\ row.status = "private"
      /\ row.source = s.source /\ row.parent = s.parent
  BY DEF NewRow, Row, Statuses
<1>3. /\ p \in Pages /\ page[p].kind = "absent" /\ p # s.parent
      /\ row.parent # NoPage => page[row.parent].kind # "absent"
      /\ page' = [page EXCEPT ![p] = row]
  BY <1>2 DEF Free, Insert, Exists, Known
<1>4. RowsOK'
  <2>1. Held(row.source)
    BY <1>1, <1>2 DEF Held, RowsOK, SlotHeld
  <2> QED BY <1>1, <1>2, <1>3, <2>1, InsertSafe
<1>5. Companions(p)' = {}
  <2>1. ASSUME NEW q \in Pages, page'[q].parent = p PROVE FALSE
    <3>1. q # p
      BY <1>1, <1>2, <1>3, <2>1
    <3>2. page[q].parent = p /\ p # NoPage
      BY <1>1, <1>3, <2>1, <3>1, PageAssumption
    <3> QED BY <1>1, <1>3, <3>2 DEF RowsOK, ParentsExist
  <2> QED BY <2>1 DEF Companions
<1> DEFINE i == [j EXCEPT !.copy = p]
<1>6. GoOn(w, "companion", i) /\ i.op = j.op /\ i.page = j.page /\ i.copy = p
  BY DEF Known, Job
<1> HIDE DEF i
<1>7. JobOK("companion", i)'
  BY <1>1, <1>5, <1>6 DEF JobOK, Route, PageOps, SeenOK, SlotOK, GateOK, CompanionOK
<1> QED BY <1>4, <1>6, <1>7, AnswerSafe DEF Answer

LEMMA CopySafe ==
  ASSUME TypeInv', NEW w \in Workers, NEW j, Known(w, j), WriteCopy(w)
  PROVE  SerialInv'
<1> PICK s \in Row : s = j.seen
  BY DEF Known, Job
<1>1. /\ TypeOK /\ RowsOK /\ pc[w] = "copy" /\ Held(s.source) /\ UNCHANGED assigned /\ Finish(w)
  BY DEF WriteCopy, Known, JobOK, SlotOK, SerialInv, TypeInv, TypeOK
<1> PICK q \in Free : Insert(q, NewRow("thankYou", "private", s.source, j.copy))
  BY DEF WriteCopy, Known
<1> PICK row : row = NewRow("thankYou", "private", s.source, j.copy)
  OBVIOUS
<1>2. row \in Row /\ row.status = "private" /\ row.source = s.source /\ row.parent = j.copy
  BY DEF NewRow, Row, Statuses, Known, Job
<1>3. /\ q \in Pages /\ page[q].kind = "absent" /\ page' = [page EXCEPT ![q] = row]
      /\ row.parent # NoPage => page[row.parent].kind # "absent"
  BY <1>2 DEF Free, Insert, Exists
<1>4. RowsOK'
  BY <1>1, <1>2, <1>3, InsertSafe
<1> QED BY <1>1, <1>4, FinishSafe DEF Known

\* A slot is given back only when no page is built from its template.
LEMMA AssignmentsSafe ==
  ASSUME TypeInv', NEW w \in Workers, NEW j, Known(w, j), WriteAssignments(w)
  PROVE  SerialInv'
<1>1. /\ TypeOK /\ RowsOK /\ SlotOK("write", j) /\ UNCHANGED page /\ Finish(w)
      /\ j.op \in {"assign", "unassign", "adminSet"}
  BY DEF WriteAssignments, Writes, Known, JobOK, SerialInv, TypeInv
<1>2. assigned' = CASE j.op = "assign"   -> assigned \cup {j.template}
                    [] j.op = "unassign" -> assigned \ {j.template}
                    [] OTHER             -> j.templates
  BY DEF WriteAssignments, Known
<1>3. ASSUME NEW p \in Pages, page[p].source \in Templates PROVE page[p].source \in assigned'
  <2>1. page[p].source \in assigned
    BY <1>1, <1>3 DEF RowsOK, SlotHeld
  <2>2. CASE j.op = "assign"
    BY <1>2, <2>1, <2>2
  <2>3. CASE j.op = "unassign"
    BY <1>1, <1>2, <2>1, <2>3 DEF SlotOK, BuiltFrom
  <2>4. CASE j.op = "adminSet"
    BY <1>1, <1>2, <2>1, <2>4 DEF SlotOK, BuiltFrom
  <2> QED BY <1>1, <2>2, <2>3, <2>4
<1>4. RowsOK'
  BY <1>1, <1>3 DEF RowsOK, SlotHeld, LabelTrue, ParentsExist
<1> QED BY <1>1, <1>4, FinishSafe DEF Known

LEMMA WritersBusy == ASSUME NEW w, Write(w) PROVE pc[w] # "idle"
<1>1. CASE InsertThankYou(w)
  BY <1>1 DEF InsertThankYou
<1>2. CASE WriteCreate(w) \/ WriteUpdate(w)
  BY <1>2 DEF WriteCreate, WriteUpdate, Writes
<1>3. CASE WriteStatus(w, "publish", "published") \/ WriteStatus(w, "unpublish", "private")
  BY <1>3 DEF WriteStatus, Writes
<1>4. CASE WriteCompanions(w)
  <2>1. pc[w] = "companions"
    BY <1>4, Zenon DEF WriteCompanions
  <2> QED BY <2>1
<1>5. CASE RemoveCompanions(w) \/ WriteRemove(w) \/ WriteDuplicate(w)
  BY <1>5 DEF RemoveCompanions, WriteRemove, WriteDuplicate, Writes
<1>6. CASE WriteCopy(w) \/ WriteAssignments(w)
  BY <1>6 DEF WriteCopy, WriteAssignments, Writes
<1> QED BY <1>1, <1>2, <1>3, <1>4, <1>5, <1>6 DEF Write

LEMMA WriteSafe ==
  ASSUME SerialInv, TypeInv', NEW w \in Workers, Write(w)
  PROVE  SerialInv'
<1> PICK j : j = job[w]
  OBVIOUS
<1>1. pc[w] # "idle"
  BY WritersBusy
<1>2. Known(w, j)
  BY <1>1, Knowing
<1> QED BY <1>2, HealSafe, CreateSafe, UpdateSafe, WriteStatusSafe, WriteCompanionsSafe,
           RemoveCompanionsSafe, WriteRemoveSafe, DuplicateSafe, CopySafe, AssignmentsSafe DEF Write

\* What the deletion of a template does to a page.
LEMMA DeleteEffect ==
  ASSUME TypeOK, NEW t \in Templates, DeleteTemplate(t), NEW p \in Pages
  PROVE  /\ page'[p].kind = page[p].kind /\ page'[p].status = page[p].status
         /\ page'[p].parent = page[p].parent /\ page'[p].edited = page[p].edited
         /\ page'[p].source = IF page[p].source = t THEN NoTemplate ELSE page[p].source
<1> PICK row \in Row : row = page[p]
  BY DEF TypeOK
<1>1. page'[p] = IF row.source = t THEN [row EXCEPT !.source = NoTemplate] ELSE row
  BY DEF DeleteTemplate
<1>2. /\ [row EXCEPT !.source = NoTemplate].kind = row.kind
      /\ [row EXCEPT !.source = NoTemplate].status = row.status
      /\ [row EXCEPT !.source = NoTemplate].parent = row.parent
      /\ [row EXCEPT !.source = NoTemplate].edited = row.edited
      /\ [row EXCEPT !.source = NoTemplate].source = NoTemplate
  BY DEF Row
<1> QED BY <1>1, <1>2

LEMMA DeleteTemplateSafe ==
  ASSUME ~Overlap, SerialInv, TypeInv', NEW t \in Templates, DeleteTemplate(t)
  PROVE  SerialInv'
<1>1. Alone /\ UNCHANGED <<pc, job>> /\ assigned' = assigned \ {t}
  BY DEF DeleteTemplate
<1>2. TypeOK /\ RowsOK /\ page \in [Pages -> Row]
  BY DEF SerialInv, TypeInv, TypeOK
<1>3. \A p \in Pages :
        /\ page'[p].kind = page[p].kind /\ page'[p].status = page[p].status
        /\ page'[p].parent = page[p].parent /\ page'[p].edited = page[p].edited
        /\ page'[p].source = IF page[p].source = t THEN NoTemplate ELSE page[p].source
  BY <1>2, DeleteEffect
<1>4. SlotHeld' /\ LabelTrue'
  BY <1>1, <1>2, <1>3, TemplateAssumption DEF RowsOK, SlotHeld, LabelTrue
<1>5. ASSUME NEW p \in Pages, page'[p].parent # NoPage
      PROVE  page'[page'[p].parent].kind # "absent"
  <2> PICK x : x = page[p].parent
    OBVIOUS
  <2>1. x = page'[p].parent /\ page[x].kind # "absent"
    BY <1>2, <1>3, <1>5 DEF RowsOK, ParentsExist
  <2>2. x \in Pages
    <3> PICK row \in Row : row = page[p]
      BY <1>2
    <3> QED BY <1>5, <2>1 DEF Row
  <2> QED BY <1>3, <2>1, <2>2
<1>6. RowsOK'
  BY <1>4, <1>5 DEF RowsOK, ParentsExist
<1>7. \A v \in Workers : pc'[v] = "idle"
  BY <1>1 DEF Alone
<1> QED BY <1>1, <1>6, <1>7, QuietSafe

LEMMA NextSafe ==
  ASSUME ~Overlap, SerialInv, [Next]_vars
  PROVE  SerialInv'
<1>1. TypeInv'
  BY NextType DEF SerialInv
<1>2. ASSUME NEW w \in Workers, Refuse(w) PROVE SerialInv'
  BY <1>1, <1>2, RowsStay, FinishSafe DEF Refuse
<1>3. ASSUME NEW bill \in Bills, Billing(bill) PROVE SerialInv'
  <2>1. \A v \in Workers : pc'[v] = "idle"
    BY <1>3 DEF Billing, Alone
  <2>2. RowsOK'
    BY <1>3 DEF SerialInv, RowsOK, SlotHeld, LabelTrue, ParentsExist, Billing
  <2> QED BY <1>1, <2>1, <2>2, QuietSafe
<1>4. CASE UNCHANGED vars
  <2>1. UNCHANGED <<pc, job>> /\ UNCHANGED rows
    BY <1>4 DEF vars, rows
  <2>2. ASSUME NEW w \in Workers, pc'[w] # "idle" PROVE JobOK(pc[w], job[w])'
    <3> PICK ph, j : ph = pc[w] /\ j = job[w]
      OBVIOUS
    <3>1. JobOK(ph, j)'
      BY <2>1, <2>2, RowsStay DEF SerialInv
    <3>2. ph = pc'[w] /\ j = job'[w]
      BY <2>1
    <3> QED BY <3>1, <3>2, Zenon
  <2> QED BY <1>1, <2>1, <2>2, RowsStay DEF SerialInv, OneBusy
<1> QED BY <1>1, <1>2, <1>3, <1>4, ArriveSafe, CheckSafe, WriteSafe, DeleteTemplateSafe DEF Next

LEMMA InitSafe == Init => SerialInv
<1> SUFFICES ASSUME Init PROVE SerialInv
  OBVIOUS
<1>1. TypeInv /\ \A w \in Workers : pc[w] = "idle"
  BY InitType DEF Init
<1>2. RowsOK
  <2>1. CASE page = [p \in Pages |-> Absent]
    BY <2>1, AbsentType, TemplateAssumption
    DEF RowsOK, SlotHeld, LabelTrue, ParentsExist
  <2>2. ASSUME NEW p \in Pages, NEW q \in Pages, NEW t \in assigned, page = Portal(p, q, t),
               assigned \in SUBSET Templates
        PROVE  RowsOK
    <3> PICK a, b : /\ a = NewRow("landing", "published", t, NoPage)
                    /\ b = NewRow("thankYou", "published", ThankYouOf[t], p)
      OBVIOUS
    <3>1. /\ a.kind = "landing" /\ a.source = t /\ a.parent = NoPage /\ ~a.edited
          /\ b.kind = "thankYou" /\ b.source = ThankYouOf[t] /\ b.parent = p /\ ~b.edited
      BY DEF NewRow
    <3>2. \A r \in Pages : page[r] = IF r = p THEN a
                                     ELSE IF r = q /\ ThankYouOf[t] # NoTemplate THEN b
                                     ELSE Absent
      BY <2>2 DEF Portal
    <3>3. ThankYouOf[t] \notin Templates
      BY <2>2, TemplateAssumption
    <3> QED BY <2>2, <3>1, <3>2, <3>3, AbsentType, TemplateAssumption
            DEF RowsOK, SlotHeld, LabelTrue, ParentsExist
  <2> QED BY <2>1, <2>2 DEF Init
<1> QED BY <1>1, <1>2 DEF SerialInv, OneBusy

LEMMA Serial == ASSUME ~Overlap PROVE Spec => []SerialInv
<1>1. SerialInv /\ [Next]_vars => SerialInv'
  BY NextSafe
<1> QED BY <1>1, InitSafe, PTL DEF Spec

\* Handlers that do not overlap never free the slot of a template a page is built from.
THEOREM SlotSafe == ASSUME ~Overlap PROVE Spec => []SlotHeld
BY Serial, PTL DEF SerialInv, RowsOK

\* Handlers that do not overlap never leave an edit on the organisation's domain that was not
\* published.
THEOREM SiteSafe == ASSUME ~Overlap PROVE Spec => []SiteAsPublished
<1>1. SerialInv => SiteAsPublished
  BY DEF SerialInv, RowsOK, LabelTrue, SiteAsPublished, OnDomain
<1> QED BY <1>1, Serial, PTL

-----------------------------------------------------------------------------
(* What a step does to a page.                                             *)

\* A row of the set is inserted; all others stay as they are.
Inserts(R) == \E q \in Pages, row \in R : page[q].kind = "absent" /\ page' = [page EXCEPT ![q] = row]

PageWrite(w) ==
  \/ InsertThankYou(w) \/ WriteCreate(w) \/ WriteUpdate(w)
  \/ WriteStatus(w, "publish", "published") \/ WriteStatus(w, "unpublish", "private")
  \/ WriteCompanions(w) \/ RemoveCompanions(w) \/ WriteRemove(w)
  \/ WriteDuplicate(w) \/ WriteCopy(w)

LEMMA PageWriters ==
  ASSUME SerialInv, [Next]_vars
  PROVE  \/ UNCHANGED page
         \/ \E t \in Templates : DeleteTemplate(t)
         \/ \E w \in Workers : \E j : Known(w, j) /\ PageWrite(w)
<1> USE DEF rows
<1>1. ASSUME NEW w \in Workers, Arrive(w) PROVE UNCHANGED page
  BY <1>1 DEF Arrive, OnPage, Create, Assign, Unassign, AdminSet, Begin
<1>2. ASSUME NEW w \in Workers, Check(w) PROVE UNCHANGED page
  BY <1>2 DEF Check, Own, ReadPlan, CountPages, ReadAssignment, ReadAssignments, CountInUse,
              CountAssigned, ReadGate, ReadTarget, CountLive, CountDistinct, FindCompanion
<1>3. ASSUME NEW w \in Workers, Write(w)
      PROVE  UNCHANGED page \/ \E v \in Workers : \E j : Known(v, j) /\ PageWrite(v)
  <2>1. CASE WriteAssignments(w)
    BY <2>1 DEF WriteAssignments
  <2>2. CASE PageWrite(w)
    <3>1. pc[w] # "idle"
      BY <1>3, WritersBusy
    <3> PICK j : j = job[w]
      OBVIOUS
    <3> QED BY <2>2, <3>1, Knowing
  <2> QED BY <1>3, <2>1, <2>2 DEF Write, PageWrite
<1>4. ASSUME NEW w \in Workers, Refuse(w) PROVE UNCHANGED page
  BY <1>4 DEF Refuse
<1>5. CASE UNCHANGED vars
  BY <1>5 DEF vars
<1> QED BY <1>1, <1>2, <1>3, <1>4, <1>5 DEF Next, Billing

\* Rows are inserted private, or as a companion.
LEMMA InsertedRows ==
  ASSUME NEW w \in Workers, NEW j, Known(w, j),
         InsertThankYou(w) \/ WriteDuplicate(w) \/ WriteCopy(w)
  PROVE  Inserts({row \in Row : row.kind = "thankYou" \/ row.status = "private"})
<1>1. CASE InsertThankYou(w)
  <2> PICK q \in Pages, row \in Row : MadeFor(j.page, q, row)
    BY <1>1, ThankYouInserted
  <2> QED BY DEF MadeFor, Inserts
<1>2. CASE WriteDuplicate(w)
  <2> PICK s \in Row : s = j.seen
    BY DEF Known, Job
  <2> PICK p \in Free : Insert(p, NewRow(s.kind, "private", s.source, s.parent))
    BY <1>2 DEF WriteDuplicate, Known
  <2> PICK row : row = NewRow(s.kind, "private", s.source, s.parent)
    OBVIOUS
  <2>1. row \in Row /\ row.status = "private"
    BY DEF NewRow, Row, Statuses
  <2> QED BY <2>1 DEF Inserts, Insert, Free
<1>3. CASE WriteCopy(w)
  <2> PICK s \in Row : s = j.seen
    BY DEF Known, Job
  <2> PICK p \in Free : Insert(p, NewRow("thankYou", "private", s.source, j.copy))
    BY <1>3 DEF WriteCopy, Known
  <2> PICK row : row = NewRow("thankYou", "private", s.source, j.copy)
    OBVIOUS
  <2>1. row \in Row /\ row.status = "private"
    BY DEF NewRow, Row, Statuses, Known, Job
  <2> QED BY <2>1 DEF Inserts, Insert, Free
<1> QED BY <1>1, <1>2, <1>3

\* A landing page becomes public, or is removed, only by the handler that was asked to.
LEMMA PageFate ==
  ASSUME SerialInv, [Next]_vars, NEW p \in Pages
  PROVE  /\ Publishes(p) => \E w \in Workers : \E j :
              Known(w, j) /\ WriteStatus(w, "publish", "published") /\ j.page = p
                          /\ p \in Landings
         /\ p \in Landings /\ page'[p].kind = "absent" => \E w \in Workers : \E j :
              Known(w, j) /\ WriteRemove(w) /\ j.page = p
<1> DEFINE Same == /\ page'[p].kind = page[p].kind \/ page[p].kind = "absent"
                   /\ page'[p].kind = "landing" /\ page'[p].status = "published" => p \in Live
<1>1. TypeOK /\ page \in [Pages -> Row]
  BY DEF SerialInv, TypeInv, TypeOK
<1>2. ASSUME UNCHANGED page PROVE Same
  BY <1>2 DEF Live, Landings
<1>3. ASSUME NEW t \in Templates, DeleteTemplate(t) PROVE Same
  <2> PICK row \in Row : row = page[p]
    BY <1>1
  <2>1. page'[p] = IF row.source = t THEN [row EXCEPT !.source = NoTemplate] ELSE row
    BY <1>3 DEF DeleteTemplate
  <2>2. /\ [row EXCEPT !.source = NoTemplate].kind = row.kind
        /\ [row EXCEPT !.source = NoTemplate].status = row.status
    BY DEF Row
  <2> QED BY <2>1, <2>2 DEF Live, Landings
<1>4. ASSUME NEW w \in Workers, NEW j, Known(w, j),
             InsertThankYou(w) \/ WriteDuplicate(w) \/ WriteCopy(w)
      PROVE  Same
  <2> PICK q \in Pages, row \in {row \in Row : row.kind = "thankYou" \/ row.status = "private"} :
             page[q].kind = "absent" /\ page' = [page EXCEPT ![q] = row]
    BY <1>4, InsertedRows DEF Inserts
  <2> QED BY <1>1 DEF Live, Landings
<1>5. ASSUME NEW w \in Workers, NEW j, Known(w, j), WriteCreate(w) PROVE Same
  <2> PICK y : y = IF j.template = NoTemplate THEN NoTemplate ELSE ThankYouOf[j.template]
    OBVIOUS
  <2> PICK q \in Free, r \in Free :
        page' = [page EXCEPT ![q] = NewRow("landing", "private", j.template, NoPage),
                             ![r] = NewRow("thankYou", "private", y, q)]
    BY <1>5 DEF WriteCreate, Known
  <2> PICK a, b : /\ a = NewRow("landing", "private", j.template, NoPage)
                  /\ b = NewRow("thankYou", "private", y, q)
    OBVIOUS
  <2>0. /\ page' = [page EXCEPT ![q] = a, ![r] = b]
        /\ a.status = "private" /\ b.status = "private"
    BY DEF NewRow
  <2>1. page[q].kind = "absent" /\ page[r].kind = "absent"
    BY DEF Free
  <2> QED BY <1>1, <2>0, <2>1 DEF Live, Landings
<1>6. ASSUME NEW j, NEW status,
             page' = [page EXCEPT ![j.page].status = status, ![j.page].edited = FALSE]
      PROVE  /\ page'[p].kind = page[p].kind
             /\ p # j.page \/ status # "published" => Same
  <2>1. CASE p = j.page
    BY <1>1, <1>6, <2>1, SetEffect DEF Live, Landings
  <2>2. CASE p # j.page
    <3>1. page'[p] = page[p]
      BY <1>1, <1>6, <2>2
    <3> QED BY <3>1 DEF Live, Landings
  <2> QED BY <2>1, <2>2
<1>7. ASSUME NEW w \in Workers, NEW j, Known(w, j), WriteUpdate(w) PROVE Same
  <2>1. j.seen = page[j.page] /\ j.page \in Pages
    BY <1>7 DEF WriteUpdate, Writes, Known, JobOK, SeenOK, PageOps
  <2> PICK status : status = IF j.seen.status = "published" THEN "private" ELSE page[j.page].status
    OBVIOUS
  <2>2. status # "published" /\ (status = "published") = FALSE
    BY <2>1
  <2>3. page' = [page EXCEPT ![j.page].status = status, ![j.page].edited = FALSE]
    BY <1>7, <2>2 DEF WriteUpdate, Known
  <2> QED BY <1>6, <1>7, <2>2, <2>3
<1>8. ASSUME NEW w \in Workers, NEW j, Known(w, j), WriteStatus(w, "unpublish", "private")
      PROVE  Same
  <2> PICK status : status = "private"
    OBVIOUS
  <2>1. page' = [page EXCEPT ![j.page].status = status, ![j.page].edited = FALSE]
    BY <1>8 DEF WriteStatus, Known
  <2>2. status # "published"
    OBVIOUS
  <2> QED BY <1>6, <1>8, <2>1, <2>2
<1>9. ASSUME NEW w \in Workers, NEW j, Known(w, j), WriteStatus(w, "publish", "published")
      PROVE  page'[p].kind = page[p].kind /\ (p # j.page => Same)
  BY <1>6, <1>9 DEF WriteStatus, Known
<1>10. ASSUME NEW w \in Workers, NEW j, Known(w, j), WriteCompanions(w) PROVE Same
  <2>1. page'[p].kind = page[p].kind /\ (page[p].kind = "thankYou" \/ page'[p] = page[p])
    BY <1>1, <1>10, CompanionsEffect
  <2> QED BY <2>1 DEF Live, Landings
<1>11. ASSUME NEW D, page' = Without(D), p \notin D PROVE Same
  <2>1. page'[p].kind = page[p].kind /\ page'[p].status = page[p].status
    BY <1>1, <1>11, WithoutEffect
  <2> QED BY <2>1 DEF Live, Landings
<1>12. ASSUME NEW w \in Workers, NEW j, Known(w, j), RemoveCompanions(w)
       PROVE  Same \/ (page[p].kind = "thankYou" /\ page'[p].kind = "absent")
  <2>1. page' = Without(Companions(j.page))
    BY <1>12 DEF RemoveCompanions, Known
  <2>2. CASE p \in Companions(j.page)
    BY <1>1, <2>1, <2>2, WithoutEffect, AbsentType DEF Companions
  <2> QED BY <1>11, <2>1, <2>2
<1>13. ASSUME NEW w \in Workers, NEW j, Known(w, j), WriteRemove(w)
       PROVE  Same \/ (p = j.page /\ page'[p].kind = "absent")
  <2>1. page' = Without({j.page})
    BY <1>13 DEF WriteRemove, Known
  <2>2. CASE p = j.page
    <3>1. p \in {j.page}
      BY <2>2
    <3>2. page'[p] = Absent
      BY <1>1, <2>1, <3>1, WithoutEffect
    <3> QED BY <2>2, <3>2, AbsentType
  <2> QED BY <1>11, <2>1, <2>2
<1>14. Same => ~Publishes(p) /\ ~(p \in Landings /\ page'[p].kind = "absent")
  BY DEF Publishes, Landings
<1>15. CASE UNCHANGED page \/ \E t \in Templates : DeleteTemplate(t)
  BY <1>2, <1>3, <1>14, <1>15
<1>16. ASSUME NEW w \in Workers, NEW j, Known(w, j), PageWrite(w)
       PROVE  \/ Same
              \/ page[p].kind = "thankYou" /\ page'[p].kind = "absent"
              \/ WriteStatus(w, "publish", "published") /\ p = j.page
                   /\ page'[p].kind = page[p].kind
              \/ WriteRemove(w) /\ p = j.page /\ page'[p].kind = "absent"
  BY <1>4, <1>5, <1>7, <1>8, <1>9, <1>10, <1>12, <1>13, <1>16 DEF PageWrite
<1> HIDE DEF Same
<1> QED BY <1>14, <1>15, <1>16, PageWriters DEF Publishes, Landings

LEMMA LiveFinite ==
  ASSUME TypeOK, NEW P \in SUBSET Pages
  PROVE  IsFiniteSet(Live) /\ IsFiniteSet(LiveSources(P))
<1>1. Live \in SUBSET Pages /\ IsFiniteSet(Pages)
  BY PageAssumption DEF Live, Landings
<1>2. LiveSources(P) \in SUBSET (Templates \cup ThankYous)
  <2>1. ASSUME NEW p \in P PROVE page[p].source \in Sources
    <3> PICK row \in Row : row = page[p]
      BY DEF TypeOK
    <3> QED BY DEF Row
  <2> QED BY <2>1 DEF LiveSources, Sources
<1>3. IsFiniteSet(Templates \cup ThankYous)
  BY TemplateAssumption, FS_Union
<1> QED BY <1>1, <1>2, <1>3, FS_Subset

\* A handler that publishes has passed the gate for the page as it is now.
LEMMA PublishedByGate ==
  ASSUME SerialInv, [Next]_vars, NEW p \in Pages, Publishes(p)
  PROVE  /\ sub = "usable" /\ CanPublish(plan)
         /\ page[p].source \in Templates => page[p].source \in assigned \cap Terms[plan].tiers
         /\ Within(Cardinality(Live) + 1, Terms[plan].live)
         /\ \/ page[p].source \in LiveSources(Live) \cup {NoTemplate}
            \/ Within(Cardinality(LiveSources(Live)) + 1, Terms[plan].templates)
<1> PICK w \in Workers : \E j : Known(w, j) /\ WriteStatus(w, "publish", "published") /\ j.page = p
  BY PageFate
<1> PICK j : Known(w, j) /\ WriteStatus(w, "publish", "published") /\ j.page = p
  OBVIOUS
<1>1. GateOK("write", j) /\ j.op = "publish"
  BY DEF WriteStatus, Writes, Known, JobOK
<1>2. Live \ {j.page} = Live
  BY DEF Publishes
<1> QED BY <1>1, <1>2 DEF GateOK

\* Handlers that do not overlap publish only what the subscription, the plan and the
\* assignment allow at that moment.
THEOREM EntitledSafe == ASSUME ~Overlap PROVE Spec => PublishEntitled
<1>1. ASSUME SerialInv, [Next]_vars
      PROVE  [\A p \in Pages : Publishes(p) =>
                /\ sub = "usable" /\ CanPublish(plan)
                /\ page[p].source \in Templates =>
                     page[p].source \in assigned \cap Terms[plan].tiers]_vars
  BY <1>1, PublishedByGate
<1> QED BY <1>1, Serial, PTL DEF Spec, PublishEntitled

\* Handlers that do not overlap never publish one page, or use one template, too many.
THEOREM LimitSafe == ASSUME ~Overlap PROVE Spec => PublishWithinLimits
<1>1. ASSUME SerialInv, [Next]_vars
      PROVE  [\A p \in Pages : Publishes(p) =>
                /\ Within(Cardinality(Live \cup {p}), Terms[plan].live)
                /\ \/ LiveSources({p}) \subseteq LiveSources(Live)
                   \/ Within(Cardinality(LiveSources(Live \cup {p})), Terms[plan].templates)]_vars
  <2> SUFFICES ASSUME NEW p \in Pages, Publishes(p)
               PROVE  /\ Within(Cardinality(Live \cup {p}), Terms[plan].live)
                      /\ \/ LiveSources({p}) \subseteq LiveSources(Live)
                         \/ Within(Cardinality(LiveSources(Live \cup {p})), Terms[plan].templates)
    OBVIOUS
  <2>1. TypeOK /\ p \notin Live /\ Live \in SUBSET Pages
    BY <1>1 DEF Publishes, Live, Landings, SerialInv, TypeInv
  <2>2. IsFiniteSet(Live) /\ IsFiniteSet(LiveSources(Live))
    BY <2>1, LiveFinite
  <2>3. Cardinality(Live \cup {p}) = Cardinality(Live) + 1
    BY <2>1, <2>2, FS_AddElement
  <2> PICK t : t = page[p].source
    OBVIOUS
  <2>4. CASE t \in LiveSources(Live) \cup {NoTemplate}
    <3>1. LiveSources({p}) \subseteq LiveSources(Live)
      BY <2>4 DEF LiveSources
    <3> QED BY <1>1, <2>3, <3>1, PublishedByGate
  <2>5. CASE t \notin LiveSources(Live) \cup {NoTemplate}
    <3>1. LiveSources(Live \cup {p}) = LiveSources(Live) \cup {t}
      BY <2>5 DEF LiveSources
    <3>2. Cardinality(LiveSources(Live \cup {p})) = Cardinality(LiveSources(Live)) + 1
      BY <2>2, <2>5, <3>1, FS_AddElement
    <3> QED BY <1>1, <2>3, <2>5, <3>2, PublishedByGate
  <2> QED BY <2>4, <2>5
<1> QED BY <1>1, Serial, PTL DEF Spec, PublishWithinLimits

\* Handlers that do not overlap remove a landing page only after its thank-you pages.
THEOREM RemovedSafe == ASSUME ~Overlap PROVE Spec => RemovedWithCompanions
<1>1. ASSUME SerialInv, [Next]_vars
      PROVE  [\A p \in Landings : page'[p].kind = "absent" => Companions(p) = {}]_vars
  <2> SUFFICES ASSUME NEW p \in Landings, page'[p].kind = "absent" PROVE Companions(p) = {}
    OBVIOUS
  <2>1. p \in Pages /\ page[p].kind = "landing"
    BY DEF Landings
  <2> PICK w \in Workers : \E j : Known(w, j) /\ WriteRemove(w) /\ j.page = p
    BY <1>1, <2>1, PageFate
  <2> PICK j : Known(w, j) /\ WriteRemove(w) /\ j.page = p
    OBVIOUS
  <2>2. CompanionOK("write", j) /\ j.op = "remove"
    BY DEF WriteRemove, Writes, Known, JobOK
  <2> QED BY <2>1, <2>2 DEF CompanionOK
<1> QED BY <1>1, Serial, PTL DEF Spec, RemovedWithCompanions

\* Handlers that do not overlap give a landing page one companion, and no second one.
THEOREM CompanionSafe == ASSUME ~Overlap PROVE Spec => OneCompanionEach
<1> DEFINE Allowed(q) ==
      \/ Companions(page'[q].parent) = {}
      \/ \E w \in Workers : job[w].op = "duplicate" /\ job[w].seen.kind = "thankYou"
                            /\ pc[w] = "write"
<1>1. ASSUME SerialInv, [Next]_vars, NEW q \in Pages,
             page[q].kind = "absent" /\ page'[q].kind = "thankYou"
      PROVE  Allowed(q)
  <2>1. TypeOK /\ RowsOK /\ page \in [Pages -> Row]
    BY <1>1 DEF SerialInv, TypeInv, TypeOK
  <2>2. ASSUME NEW w \in Workers, NEW j, Known(w, j), InsertThankYou(w) PROVE Allowed(q)
    <3> PICK r \in Pages, row \in Row : MadeFor(j.page, r, row)
      BY <2>2, ThankYouInserted
    <3>1. q = r /\ page'[q].parent = j.page
      BY <1>1, <2>1 DEF MadeFor
    <3>2. Companions(j.page) = {}
      BY <2>2 DEF InsertThankYou, Known, JobOK, CompanionOK
    <3> QED BY <3>1, <3>2
  <2>3. ASSUME NEW w \in Workers, NEW j, Known(w, j), WriteCreate(w) PROVE Allowed(q)
    <3> PICK y : y = IF j.template = NoTemplate THEN NoTemplate ELSE ThankYouOf[j.template]
      OBVIOUS
    <3> PICK p \in Free, r \in Free :
          /\ p # r
          /\ page' = [page EXCEPT ![p] = NewRow("landing", "private", j.template, NoPage),
                                  ![r] = NewRow("thankYou", "private", y, p)]
      BY <2>3 DEF WriteCreate, Known
    <3> PICK a, b : /\ a = NewRow("landing", "private", j.template, NoPage)
                    /\ b = NewRow("thankYou", "private", y, p)
      OBVIOUS
    <3>1. a.kind = "landing" /\ b.parent = p /\ page' = [page EXCEPT ![p] = a, ![r] = b]
      BY DEF NewRow
    <3>2. page[p].kind = "absent" /\ p \in Pages
      BY DEF Free
    <3>3. q = r /\ page'[q].parent = p
      BY <1>1, <2>1, <3>1
    <3>4. Companions(p) = {}
      BY <2>1, <3>2, PageAssumption DEF Companions, RowsOK, ParentsExist
    <3> QED BY <3>3, <3>4
  <2>4. ASSUME NEW w \in Workers, NEW j, Known(w, j), WriteDuplicate(w) PROVE Allowed(q)
    <3> PICK s \in Row : s = j.seen
      BY <2>4 DEF Known, Job
    <3> PICK p \in Free : Insert(p, NewRow(s.kind, "private", s.source, s.parent))
      BY <2>4 DEF WriteDuplicate, Known
    <3> PICK row : row = NewRow(s.kind, "private", s.source, s.parent)
      OBVIOUS
    <3>1. row.kind = s.kind /\ page' = [page EXCEPT ![p] = row]
      BY DEF NewRow, Insert
    <3>2. q = p /\ page'[q].kind = s.kind
      BY <1>1, <2>1, <3>1
    <3>3. job[w].seen.kind = "thankYou" /\ job[w].op = "duplicate" /\ pc[w] = "write"
      BY <1>1, <2>4, <3>2 DEF WriteDuplicate, Writes, Known
    <3> QED BY <3>3
  <2>5. ASSUME NEW w \in Workers, NEW j, Known(w, j), WriteCopy(w) PROVE Allowed(q)
    <3> PICK s \in Row : s = j.seen
      BY <2>5 DEF Known, Job
    <3> PICK p \in Free : Insert(p, NewRow("thankYou", "private", s.source, j.copy))
      BY <2>5 DEF WriteCopy, Known
    <3> PICK row : row = NewRow("thankYou", "private", s.source, j.copy)
      OBVIOUS
    <3>1. row.parent = j.copy /\ page' = [page EXCEPT ![p] = row]
      BY DEF NewRow, Insert
    <3>2. page'[q].parent = j.copy
      BY <1>1, <2>1, <3>1
    <3>3. Companions(j.copy) = {}
      BY <2>5 DEF WriteCopy, Known, JobOK, Route, CompanionOK, PageOps
    <3> QED BY <3>2, <3>3
  <2>6. ASSUME NEW p, NEW status,
               page' = [page EXCEPT ![p].status = status, ![p].edited = FALSE]
        PROVE  FALSE
    <3>1. CASE q = p
      BY <1>1, <2>1, <2>6, <3>1, SetEffect
    <3> QED BY <1>1, <2>1, <2>6, <3>1
  <2>7. ASSUME NEW w \in Workers, NEW j, Known(w, j), WriteUpdate(w) PROVE FALSE
    <3>1. j.seen = page[j.page] /\ j.page \in Pages
      BY <2>7 DEF WriteUpdate, Writes, Known, JobOK, SeenOK, PageOps
    <3> PICK status : status = IF j.seen.status = "published" THEN "private"
                               ELSE page[j.page].status
      OBVIOUS
    <3>2. (status = "published") = FALSE
      BY <3>1
    <3>3. page' = [page EXCEPT ![j.page].status = status, ![j.page].edited = FALSE]
      BY <2>7, <3>2 DEF WriteUpdate, Known
    <3> QED BY <2>6, <3>3
  <2>8. ASSUME NEW w \in Workers, NEW j, Known(w, j), NEW op, NEW status,
               WriteStatus(w, op, status)
        PROVE  FALSE
    BY <2>6, <2>8 DEF WriteStatus, Known
  <2>9. ASSUME NEW w \in Workers, WriteCompanions(w) PROVE FALSE
    BY <1>1, <2>1, <2>9, CompanionsEffect
  <2>10. ASSUME NEW D, page' = Without(D) PROVE FALSE
    <3>1. page'[q].kind = "absent"
      BY <1>1, <2>1, <2>10, WithoutEffect, AbsentType
    <3> QED BY <1>1, <3>1
  <2>11. ASSUME NEW t \in Templates, DeleteTemplate(t) PROVE FALSE
    <3> PICK row \in Row : row = page[q]
      BY <2>1
    <3>1. page'[q] = IF row.source = t THEN [row EXCEPT !.source = NoTemplate] ELSE row
      BY <2>11 DEF DeleteTemplate
    <3>2. [row EXCEPT !.source = NoTemplate].kind = row.kind
      BY DEF Row
    <3> QED BY <1>1, <3>1, <3>2
  <2>12. ASSUME NEW w \in Workers, NEW j, Known(w, j), RemoveCompanions(w) \/ WriteRemove(w)
         PROVE  FALSE
    BY <2>10, <2>12 DEF RemoveCompanions, WriteRemove, Known
  <2> HIDE DEF Allowed
  <2>13. ASSUME NEW w \in Workers, NEW j, Known(w, j), PageWrite(w) PROVE Allowed(q)
    BY <2>2, <2>3, <2>4, <2>5, <2>7, <2>8, <2>9, <2>12, <2>13 DEF PageWrite
  <2>14. UNCHANGED page => FALSE
    BY <1>1
  <2> QED BY <1>1, <2>11, <2>13, <2>14, PageWriters
<1>2. ASSUME SerialInv, [Next]_vars
      PROVE  [\A q \in Pages : (page[q].kind = "absent" /\ page'[q].kind = "thankYou") =>
                Allowed(q)]_vars
  BY <1>1, <1>2
<1> QED BY <1>2, Serial, PTL DEF Spec, OneCompanionEach

-----------------------------------------------------------------------------
(* Handlers that check and write in several calls keep the rules of        *)
(* TemplateSlots, where each change is one step.                           *)

PlanThatCounts == IF sub = "usable" THEN plan ELSE Basic

\* What was found of plan and slots still holds when a template is to be taken, or all of them
\* are to be replaced.
RoomOK(ph, j) ==
  /\ j.op = "assign" =>
       /\ ph \in {"held", "quota", "write"} =>
            j.plan = PlanThatCounts /\ j.template \in Terms[j.plan].grants
       /\ ph \in {"quota", "write"} => j.template \notin assigned
       /\ ph = "write" => Within(Cardinality(assigned) + 1, Terms[j.plan].templates)
  /\ j.op = "adminSet" /\ ph = "write" =>
       (sub # "none" => Within(Cardinality(j.templates), Terms[plan].templates))

RoomInv == \A w \in Workers : RoomOK(pc[w], job[w])

\* Nothing is claimed of a handler that is idle, or does neither.
LEMMA RoomIdle == ASSUME NEW ph, NEW j, ph = "idle" \/ j.op \notin {"assign", "adminSet"}
                  PROVE  RoomOK(ph, j)'
BY DEF RoomOK

\* The only handler at work, or the one that begins, is the only one to be looked at.
LEMMA RoomGoOn ==
  ASSUME SerialInv, NEW w \in Workers, NEW ph, NEW j, \A v \in Workers \ {w} : pc[v] = "idle",
         pc' = [pc EXCEPT ![w] = ph], job' = [job EXCEPT ![w] = j], RoomOK(ph, j)'
  PROVE  RoomInv'
<1>1. /\ pc \in [Workers -> Phases] /\ job \in [Workers -> Job]
  BY DEF SerialInv, TypeInv, TypeOK
<1>2. ASSUME NEW v \in Workers PROVE RoomOK(pc[v], job[v])'
  <2>1. CASE v = w
    <3>1. pc'[v] = ph /\ job'[v] = j
      BY <1>1, <2>1
    <3> QED BY <3>1 DEF RoomOK, PlanThatCounts
  <2>2. CASE v # w
    <3>1. pc'[v] = "idle"
      BY <1>1, <2>2
    <3> QED BY <3>1 DEF RoomOK
  <2> QED BY <2>1, <2>2
<1> QED BY <1>2 DEF RoomInv

LEMMA RoomAnswer ==
  ASSUME NEW w \in Workers, NEW j, Known(w, j), NEW ph, NEW i, Answer(w, ph, i) \/ GoOn(w, ph, i),
         RoomOK(ph, i)'
  PROVE  RoomInv'
<1>1. CASE GoOn(w, ph, i)
  BY <1>1, RoomGoOn DEF GoOn, Known
<1>2. CASE Finish(w)
  <2>1. RoomOK("idle", NoJob)'
    BY RoomIdle
  <2> QED BY <1>2, <2>1, RoomGoOn DEF Finish, GoOn, Known
<1> QED BY <1>1, <1>2 DEF Answer

LEMMA RoomArrive ==
  ASSUME ~Overlap, SerialInv, NEW w \in Workers, Arrive(w)
  PROVE  RoomInv'
<1>1. ASSUME NEW j, NEW ph, Begin(w, j, ph),
             j.op = "assign" => ph = "plan", j.op = "adminSet" => ph = "held"
      PROVE  RoomInv'
  <2>1. RoomOK(ph, j)'
    BY <1>1 DEF RoomOK
  <2> QED BY <1>1, <2>1, RoomGoOn DEF Begin, Alone
<1> USE AskedType DEF Ops, PageOps, Sources
<1>2. ASSUME NEW op \in PageOps, NEW p \in Pages, OnPage(w, op, p) PROVE RoomInv'
  <2> PICK j : j = Asked(op, p, NoTemplate, {})
    OBVIOUS
  <2>1. j.op = op
    OBVIOUS
  <2> QED BY <1>1, <1>2, <2>1 DEF OnPage
<1>3. ASSUME NEW t \in Templates \cup {NoTemplate}, Create(w, t) PROVE RoomInv'
  <2> PICK j : j = Asked("create", NoPage, t, {})
    OBVIOUS
  <2>1. j.op = "create"
    OBVIOUS
  <2> QED BY <1>1, <1>3, <2>1 DEF Create
<1>4. ASSUME NEW t \in Templates, Assign(w, t) PROVE RoomInv'
  <2> PICK j : j = Asked("assign", NoPage, t, {})
    OBVIOUS
  <2>1. j.op = "assign"
    OBVIOUS
  <2> QED BY <1>1, <1>4, <2>1 DEF Assign
<1>5. ASSUME NEW t \in Templates, Unassign(w, t) PROVE RoomInv'
  <2> PICK j : j = Asked("unassign", NoPage, t, {})
    OBVIOUS
  <2>1. j.op = "unassign"
    OBVIOUS
  <2> QED BY <1>1, <1>5, <2>1 DEF Unassign
<1>6. ASSUME NEW T \in SUBSET Templates, AdminSet(w, T) PROVE RoomInv'
  <2> PICK j : j = Asked("adminSet", NoPage, NoTemplate, T)
    OBVIOUS
  <2>1. j.op = "adminSet"
    OBVIOUS
  <2> QED BY <1>1, <1>6, <2>1 DEF AdminSet
<1> QED BY <1>2, <1>3, <1>4, <1>5, <1>6 DEF Arrive

LEMMA RoomCheck ==
  ASSUME SerialInv, RoomInv, NEW w \in Workers, Check(w)
  PROVE  RoomInv'
<1> PICK j : j = job[w]
  OBVIOUS
<1>1. pc[w] # "idle" /\ UNCHANGED rows
  BY DEF Check, Own, ReadPlan, CountPages, ReadAssignment, ReadAssignments, CountInUse,
         CountAssigned, ReadGate, ReadTarget, CountLive, CountDistinct, FindCompanion
<1>2. Known(w, j) /\ RoomOK(pc[w], j) /\ j \in Job /\ pc[w] \in Route(j.op)
  BY <1>1, Knowing DEF RoomInv, Known, JobOK
<1>3. ASSUME NEW ph, NEW i, ph = "idle" \/ RoomOK(ph, i), GoOn(w, ph, i) \/ Answer(w, ph, i)
      PROVE  RoomInv'
  <2>1. RoomOK(ph, i)'
    BY <1>1, <1>3 DEF RoomOK, PlanThatCounts, rows
  <2> QED BY <1>2, <1>3, <2>1, RoomAnswer
<1>4. ASSUME NEW ph, NEW i, j.op \notin {"assign", "adminSet"}, i.op = j.op,
             GoOn(w, ph, i) \/ Answer(w, ph, i)
      PROVE  RoomInv'
  BY <1>3, <1>4 DEF RoomOK
<1>5. CASE Own(w)
  <2> PICK row, ph :
        Answer(w, ph, [j EXCEPT !.seen = row]) /\ pc[w] = "own"
    BY <1>5 DEF Own
  <2>1. [j EXCEPT !.seen = row].op = j.op /\ j.op \notin {"assign", "adminSet"}
    BY <1>2 DEF Job, Route
  <2> QED BY <1>4, <2>1
<1>6. CASE ReadPlan(w)
  <2> PICK p, ph : /\ p = PlanThatCounts
                   /\ ph = IF j.op = "assign" THEN "held" ELSE "count"
    OBVIOUS
  <2> DEFINE i == [j EXCEPT !.plan = p]
  <2>1. GoOn(w, ph, i) /\ (j.op = "assign" => j.template \in Terms[p].grants) /\ pc[w] = "plan"
    BY <1>6 DEF ReadPlan, PlanThatCounts
  <2>2. i.op = j.op /\ i.plan = p /\ i.template = j.template
    BY <1>2 DEF Job
  <2> HIDE DEF i
  <2>3. j.op # "adminSet"
    BY <1>2, <2>1 DEF Route
  <2>4. RoomOK(ph, i)
    BY <2>1, <2>2, <2>3 DEF RoomOK
  <2> QED BY <1>3, <2>1, <2>4
<1>7. CASE CountPages(w)
  <2>1. pc[w] = "count" /\ j.op \notin {"assign", "adminSet"}
    BY <1>2, <1>7 DEF CountPages, Route
  <2> QED BY <1>4, <1>7, <2>1 DEF CountPages
<1>8. CASE ReadAssignment(w)
  <2>1. j.op \notin {"assign", "adminSet"}
    BY <1>8 DEF ReadAssignment
  <2> QED BY <1>4, <1>8, <2>1 DEF ReadAssignment
<1>9. CASE ReadAssignments(w)
  <2>1. CASE j.op = "assign"
    <3> PICK ph : ph = IF j.template \in assigned THEN "idle" ELSE "quota"
      OBVIOUS
    <3>1. Answer(w, ph, j) /\ pc[w] = "held"
      BY <1>9, <2>1 DEF ReadAssignments
    <3>2. ph = "idle" \/ RoomOK(ph, j)
      BY <1>2, <2>1, <3>1 DEF RoomOK
    <3> QED BY <1>3, <3>1, <3>2
  <2>2. CASE j.op # "assign"
    <3> PICK gone : GoOn(w, "inUse", [j EXCEPT !.gone = gone])
      BY <1>9, <2>2 DEF ReadAssignments
    <3> DEFINE i == [j EXCEPT !.gone = gone]
    <3>1. i.op = j.op
      BY <1>2 DEF Job
    <3> HIDE DEF i
    <3>2. RoomOK("inUse", i)
      BY <2>2, <3>1 DEF RoomOK
    <3> QED BY <1>3, <3>2 DEF i
  <2> QED BY <2>1, <2>2
<1>10. CASE CountInUse(w)
  <2> PICK ph : ph = IF j.op = "adminSet" THEN "quota" ELSE "write"
    OBVIOUS
  <2>1. GoOn(w, ph, j) /\ pc[w] = "inUse"
    BY <1>10 DEF CountInUse
  <2>2. j.op # "assign"
    BY <1>2, <2>1 DEF Route
  <2>3. RoomOK(ph, j)
    BY <2>2 DEF RoomOK
  <2> QED BY <1>3, <2>1, <2>3
<1>11. CASE CountAssigned(w)
  <2>1. /\ pc[w] = "quota" /\ GoOn(w, "write", j)
        /\ IF j.op = "assign" THEN Within(Cardinality(assigned) + 1, Terms[j.plan].templates)
           ELSE sub # "none" => Within(Cardinality(j.templates), Terms[plan].templates)
    BY <1>11 DEF CountAssigned
  <2>2. RoomOK("write", j)
    BY <1>2, <2>1 DEF RoomOK
  <2> QED BY <1>3, <2>1, <2>2
<1>12. CASE ReadGate(w)
  <2>1. GoOn(w, "target", [j EXCEPT !.plan = plan]) /\ pc[w] = "gate"
    BY <1>12 DEF ReadGate
  <2>2. [j EXCEPT !.plan = plan].op = j.op /\ j.op \notin {"assign", "adminSet"}
    BY <1>2, <2>1 DEF Job, Route
  <2> QED BY <1>4, <2>1, <2>2
<1>13. CASE ReadTarget(w)
  <2> PICK t : GoOn(w, "live", [j EXCEPT !.template = t]) /\ pc[w] = "target"
    BY <1>13 DEF ReadTarget
  <2>1. [j EXCEPT !.template = t].op = j.op /\ j.op \notin {"assign", "adminSet"}
    BY <1>2 DEF Job, Route
  <2> QED BY <1>4, <2>1
<1>14. CASE CountLive(w)
  <2>1. pc[w] = "live" /\ j.op \notin {"assign", "adminSet"}
    BY <1>2, <1>14 DEF CountLive, Route
  <2> QED BY <1>4, <1>14, <2>1 DEF CountLive
<1>15. CASE CountDistinct(w)
  <2>1. /\ pc[w] = "distinct" /\ j.op \notin {"assign", "adminSet"} /\ GoOn(w, "write", j)
    BY <1>2, <1>15 DEF CountDistinct, Route
  <2> QED BY <1>4, <2>1
<1>16. CASE FindCompanion(w)
  <2>1. pc[w] = "companion" /\ j.op \notin {"assign", "adminSet"}
    BY <1>2, <1>16 DEF FindCompanion, Route
  <2>2. ASSUME NEW row, NEW ph, Answer(w, ph, [j EXCEPT !.seen = row]) PROVE RoomInv'
    <3>1. [j EXCEPT !.seen = row].op = j.op
      BY <1>2 DEF Job
    <3> QED BY <1>4, <2>1, <2>2, <3>1
  <2> QED BY <1>4, <1>16, <2>1, <2>2 DEF FindCompanion
<1> QED BY <1>5, <1>6, <1>7, <1>8, <1>9, <1>10, <1>11, <1>12, <1>13, <1>14, <1>15, <1>16 DEF Check

LEMMA RoomWrite ==
  ASSUME SerialInv, NEW w \in Workers, Write(w)
  PROVE  RoomInv'
<1> PICK j : j = job[w]
  OBVIOUS
<1>1. pc[w] # "idle"
  BY WritersBusy
<1>2. Known(w, j) /\ j \in Job /\ pc[w] \in Route(j.op)
  BY <1>1, Knowing DEF Known, JobOK
<1>3. ASSUME NEW ph, NEW i, ph = "idle" \/ i.op \notin {"assign", "adminSet"},
             GoOn(w, ph, i) \/ Answer(w, ph, i) \/ Finish(w)
      PROVE  RoomInv'
  BY <1>2, <1>3, RoomIdle, RoomAnswer DEF Answer
<1>4. ASSUME Finish(w) PROVE RoomInv'
  BY <1>3, <1>4
<1>5. CASE InsertThankYou(w)
  <2>1. j.op \notin {"assign", "adminSet"}
    BY <1>2, <1>5 DEF InsertThankYou, Route
  <2> QED BY <1>3, <1>5, <2>1 DEF InsertThankYou
<1>6. CASE WriteCreate(w)
  <2> PICK p : GoOn(w, "own", [j EXCEPT !.page = p]) /\ j.op = "create"
    BY <1>6 DEF WriteCreate, Writes
  <2>1. [j EXCEPT !.page = p].op = j.op
    BY <1>2 DEF Job
  <2> QED BY <1>3, <2>1
<1>7. CASE WriteStatus(w, "publish", "published") \/ WriteStatus(w, "unpublish", "private")
  <2>1. j.op \notin {"assign", "adminSet"}
    BY <1>7 DEF WriteStatus, Writes
  <2> QED BY <1>3, <1>7, <2>1 DEF WriteStatus
<1>8. CASE RemoveCompanions(w)
  <2>1. j.op \notin {"assign", "adminSet"}
    BY <1>2, <1>8 DEF RemoveCompanions, Route
  <2> QED BY <1>3, <1>8, <2>1 DEF RemoveCompanions
<1>9. CASE WriteDuplicate(w)
  <2> PICK p : GoOn(w, "companion", [j EXCEPT !.copy = p]) /\ j.op = "duplicate"
    BY <1>9 DEF WriteDuplicate, Writes
  <2>1. [j EXCEPT !.copy = p].op = j.op
    BY <1>2 DEF Job
  <2> QED BY <1>3, <2>1
<1>10. CASE WriteUpdate(w) \/ WriteRemove(w)
  <2>1. Finish(w)
    BY <1>10 DEF WriteUpdate, WriteRemove
  <2> QED BY <1>4, <2>1
<1>11. CASE WriteCompanions(w)
  <2>1. Finish(w)
    BY <1>11, Zenon DEF WriteCompanions
  <2> QED BY <1>4, <2>1
<1>12. CASE WriteCopy(w) \/ WriteAssignments(w)
  <2>1. Finish(w)
    BY <1>12 DEF WriteCopy, WriteAssignments
  <2> QED BY <1>4, <2>1
<1> QED BY <1>5, <1>6, <1>7, <1>8, <1>9, <1>10, <1>11, <1>12 DEF Write

LEMMA RoomSafe ==
  ASSUME ~Overlap, SerialInv, RoomInv, [Next]_vars
  PROVE  RoomInv'
<1>1. ASSUME NEW w \in Workers, Refuse(w) PROVE RoomInv'
  <2> PICK j : j = job[w]
    OBVIOUS
  <2>1. Known(w, j) /\ RoomOK("idle", NoJob)'
    BY <1>1, Knowing, RoomIdle DEF Refuse
  <2> QED BY <1>1, <2>1, RoomAnswer DEF Refuse, Finish
<1>2. ASSUME \A v \in Workers : pc'[v] = "idle" PROVE RoomInv'
  BY <1>2 DEF RoomInv, RoomOK
<1>3. CASE UNCHANGED vars
  <2>1. ASSUME NEW v \in Workers PROVE RoomOK(pc[v], job[v])'
    <3> PICK ph, j : ph = pc[v] /\ j = job[v]
      OBVIOUS
    <3>1. ph = pc'[v] /\ j = job'[v] /\ RoomOK(ph, j)'
      BY <1>3 DEF RoomInv, RoomOK, PlanThatCounts, vars
    <3> QED BY <3>1, Zenon
  <2> QED BY <2>1 DEF RoomInv
<1>4. ASSUME NEW bill \in Bills, Billing(bill) PROVE RoomInv'
  BY <1>2, <1>4 DEF Billing, Alone
<1>5. ASSUME NEW t \in Templates, DeleteTemplate(t) PROVE RoomInv'
  BY <1>2, <1>5 DEF DeleteTemplate, Alone
<1> QED BY <1>1, <1>3, <1>4, <1>5, RoomArrive, RoomCheck, RoomWrite DEF Next

BySlots ==
  \/ \E t \in Templates : Slots!Take(t) \/ Slots!GiveBack(t) \/ Slots!Withdraw(t)
  \/ \E T \in SUBSET Templates : Slots!Deal(T)
  \/ \E p \in Pages, t \in Templates : Slots!Build(p, t)
  \/ \E P \in SUBSET Pages : Slots!Discard(P)
  \/ \E bill \in Bills : Slots!Bill(bill)

LEMMA SameCount == \A S : Slots!Cardinality(S) = Cardinality(S)
BY DEF Slots!Cardinality, Cardinality

LEMMA SlotStep == BySlots \/ UNCHANGED Slots!vars => [Slots!Next]_(Slots!vars)
BY DEF BySlots, Slots!Next

\* While kinds and sources stay as they are, every page is built from what it was.
LEMMA BuiltStays ==
  ASSUME \A p \in Pages : page'[p].kind = page[p].kind /\ page'[p].source = page[p].source,
         UNCHANGED <<assigned, catalog, plan, sub>>
  PROVE  UNCHANGED Slots!vars
<1>1. Built' = Built
  BY DEF Built, Exists
<1> QED BY <1>1 DEF Slots!vars

LEMMA BuiltBecomes ==
  ASSUME NEW q \in Pages, NEW t, \A p \in Pages : Built'[p] = IF p = q THEN t ELSE Built[p]
  PROVE  Built' = [Built EXCEPT ![q] = t]
BY DEF Built

\* Status and label are written.
LEMMA BuiltLabelled ==
  ASSUME TypeOK, NEW p \in Pages, NEW status, UNCHANGED <<assigned, catalog, plan, sub>>,
         page' = [page EXCEPT ![p].status = status, ![p].edited = FALSE]
  PROVE  UNCHANGED Slots!vars
<1>1. \A q \in Pages \ {p} : page'[q] = page[q]
  BY SetEffect
<1>2. page'[p].kind = page[p].kind /\ page'[p].source = page[p].source
  BY SetEffect
<1> QED BY <1>1, <1>2, BuiltStays

\* A row is inserted: a page is built from a template that is assigned, or from none.
LEMMA BuiltAdded ==
  ASSUME TypeOK, NEW q \in Pages, NEW row, page[q].kind = "absent", Held(row.source),
         page' = [page EXCEPT ![q] = row], UNCHANGED <<assigned, catalog, plan, sub>>
  PROVE  BySlots \/ UNCHANGED Slots!vars
<1>1. page \in [Pages -> Row]
  BY DEF TypeOK
<1> PICK t : t = IF row.kind # "absent" /\ row.source \in Templates THEN row.source ELSE NoTemplate
  OBVIOUS
<1>2. Built[q] = NoTemplate
  BY DEF Built, Exists
<1>3. Built' = [Built EXCEPT ![q] = t]
  <2>1. ASSUME NEW p \in Pages PROVE Built'[p] = IF p = q THEN t ELSE Built[p]
    <3>1. CASE p = q
      BY <1>1, <3>1 DEF Built, Exists
    <3>2. CASE p # q
      BY <1>1, <3>2 DEF Built, Exists
    <3> QED BY <3>1, <3>2
  <2> QED BY <2>1, BuiltBecomes
<1>4. CASE t = NoTemplate
  <2>1. Built' = Built
    BY <1>2, <1>3, <1>4 DEF Built
  <2> QED BY <2>1 DEF Slots!vars
<1>5. CASE t # NoTemplate
  <2>1. t \in Templates /\ t \in assigned
    BY <1>5 DEF Held
  <2>2. Slots!Build(q, t)
    BY <1>2, <1>3, <2>1 DEF Slots!Build
  <2> QED BY <2>1, <2>2 DEF BySlots
<1> QED BY <1>4, <1>5

\* Rows are deleted.
LEMMA BuiltRemoved ==
  ASSUME TypeOK, NEW D \in SUBSET Pages, page' = Without(D), UNCHANGED <<assigned, catalog, plan, sub>>
  PROVE  BySlots
<1>1. ASSUME NEW p \in Pages PROVE Built'[p] = IF p \in D THEN NoTemplate ELSE Built[p]
  <2>1. CASE p \in D
    <3>1. page'[p] = Absent
      BY <2>1, WithoutEffect
    <3> QED BY <2>1, <3>1, AbsentType DEF Built, Exists
  <2>2. CASE p \notin D
    <3>1. page'[p].kind = page[p].kind /\ page'[p].source = page[p].source
      BY <2>2, WithoutEffect
    <3> QED BY <2>2, <3>1 DEF Built, Exists
  <2> QED BY <2>1, <2>2
<1>2. Built' = [p \in Pages |-> IF p \in D THEN NoTemplate ELSE Built[p]]
  BY <1>1 DEF Built
<1>3. Slots!Discard(D)
  BY <1>2 DEF Slots!Discard, Slots!Clear
<1> QED BY <1>3 DEF BySlots

LEMMA PageSlots ==
  ASSUME NEW w \in Workers, NEW j, Known(w, j), PageWrite(w)
  PROVE  BySlots \/ UNCHANGED Slots!vars
<1> DEFINE Kept == UNCHANGED <<assigned, catalog, plan, sub>>
           Goal == BySlots \/ UNCHANGED Slots!vars
<1>1. /\ TypeOK /\ RowsOK /\ page \in [Pages -> Row]
  BY DEF Known, SerialInv, TypeInv, TypeOK
<1>2. CASE InsertThankYou(w)
  <2> PICK q \in Pages, row \in Row : MadeFor(j.page, q, row)
    BY <1>2, ThankYouInserted
  <2>1. Held(row.source) /\ page[q].kind = "absent" /\ page' = [page EXCEPT ![q] = row]
    BY TemplateAssumption DEF MadeFor, Held
  <2>2. Kept
    BY <1>2 DEF InsertThankYou
  <2> QED BY <1>1, <2>1, <2>2, BuiltAdded
<1>3. CASE WriteDuplicate(w)
  <2> PICK s \in Row : s = j.seen
    BY DEF Known, Job
  <2>1. Held(s.source) /\ Kept
    <3>1. s = page[j.page] /\ j.page \in Pages
      BY <1>3 DEF WriteDuplicate, Writes, Known, JobOK, SeenOK, PageOps
    <3> QED BY <1>1, <1>3, <3>1 DEF WriteDuplicate, Writes, Held, RowsOK, SlotHeld
  <2> PICK p \in Free : Insert(p, NewRow(s.kind, "private", s.source, s.parent))
    BY <1>3 DEF WriteDuplicate, Known
  <2> PICK row : row = NewRow(s.kind, "private", s.source, s.parent)
    OBVIOUS
  <2>2. /\ row.source = s.source /\ page' = [page EXCEPT ![p] = row]
        /\ p \in Pages /\ page[p].kind = "absent"
    BY DEF NewRow, Insert, Free
  <2> QED BY <1>1, <2>1, <2>2, BuiltAdded
<1>4. CASE WriteCopy(w)
  <2> PICK s \in Row : s = j.seen
    BY DEF Known, Job
  <2>1. Held(s.source) /\ Kept
    BY <1>4 DEF WriteCopy, Known, JobOK, SlotOK
  <2> PICK q \in Free : Insert(q, NewRow("thankYou", "private", s.source, j.copy))
    BY <1>4 DEF WriteCopy, Known
  <2> PICK row : row = NewRow("thankYou", "private", s.source, j.copy)
    OBVIOUS
  <2>2. /\ row.source = s.source /\ page' = [page EXCEPT ![q] = row]
        /\ q \in Pages /\ page[q].kind = "absent"
    BY DEF NewRow, Insert, Free
  <2> QED BY <1>1, <2>1, <2>2, BuiltAdded
<1>5. CASE WriteCreate(w)
  <2> PICK t, y : /\ t = j.template
                  /\ y = IF t = NoTemplate THEN NoTemplate ELSE ThankYouOf[t]
    OBVIOUS
  <2> PICK p \in Free, q \in Free :
        /\ p # q
        /\ page' = [page EXCEPT ![p] = NewRow("landing", "private", t, NoPage),
                                ![q] = NewRow("thankYou", "private", y, p)]
    BY <1>5 DEF WriteCreate, Known
  <2> PICK a, b : /\ a = NewRow("landing", "private", t, NoPage)
                  /\ b = NewRow("thankYou", "private", y, p)
    OBVIOUS
  <2>1. /\ a.kind = "landing" /\ a.source = t /\ b.kind = "thankYou" /\ b.source = y
        /\ page' = [page EXCEPT ![p] = a, ![q] = b]
    BY DEF NewRow
  <2>2. /\ p \in Pages /\ q \in Pages /\ page[p].kind = "absent" /\ page[q].kind = "absent"
    BY DEF Free
  <2>3. /\ t \in Templates \cup {NoTemplate} /\ Held(t) /\ Kept
        /\ y \notin Templates
    <3>1. t \in catalog \cup {NoTemplate} /\ Kept /\ Held(t)
      BY <1>5 DEF WriteCreate, Writes, Known, JobOK, SlotOK
    <3> QED BY <1>1, <3>1, TemplateAssumption DEF TypeOK
  <2>4. Built[p] = NoTemplate /\ Built' = [Built EXCEPT ![p] = t]
    <3>1. ASSUME NEW r \in Pages PROVE Built'[r] = IF r = p THEN t ELSE Built[r]
      <4>1. CASE r = p
        BY <1>1, <2>1, <2>2, <2>3, <4>1, TemplateAssumption DEF Built, Exists
      <4>2. CASE r = q
        BY <1>1, <2>1, <2>2, <2>3, <4>2 DEF Built, Exists
      <4>3. CASE r \notin {p, q}
        BY <1>1, <2>1, <4>3 DEF Built, Exists
      <4> QED BY <4>1, <4>2, <4>3
    <3>2. Built' = [Built EXCEPT ![p] = t]
      BY ONLY <2>2, <3>1, BuiltBecomes
    <3> QED BY <2>2, <3>2 DEF Built, Exists
  <2>5. CASE t = NoTemplate
    <3>1. Built' = Built
      BY <2>4, <2>5 DEF Built
    <3> QED BY <2>3, <3>1 DEF Slots!vars
  <2>6. CASE t \in Templates
    <3>1. Slots!Build(p, t)
      BY <2>3, <2>4, <2>6 DEF Slots!Build, Held
    <3> QED BY <2>2, <2>6, <3>1 DEF BySlots
  <2> QED BY <2>3, <2>5, <2>6
<1>6. CASE WriteUpdate(w)
  <2>1. j.page \in Pages /\ j.seen = page[j.page]
    BY <1>6 DEF WriteUpdate, Writes, Known, JobOK, SeenOK, PageOps
  <2> PICK status : status = IF j.seen.status = "published" THEN "private"
                             ELSE page[j.page].status
    OBVIOUS
  <2>2. (status = "published") = FALSE
    BY <2>1
  <2>3. page' = [page EXCEPT ![j.page].status = status, ![j.page].edited = FALSE]
    BY <1>6, <2>2 DEF WriteUpdate, Known
  <2>4. Kept
    BY <1>6, Zenon DEF WriteUpdate, Writes
  <2>5. UNCHANGED Slots!vars
    BY ONLY <1>1, <2>1, <2>3, <2>4, BuiltLabelled, Zenon
  <2> QED BY <2>5
<1>7. ASSUME NEW op \in PageOps, NEW status, WriteStatus(w, op, status) PROVE Goal
  <2>1. j.page \in Pages
    BY <1>7 DEF WriteStatus, Writes, Known, JobOK, SeenOK
  <2>2. page' = [page EXCEPT ![j.page].status = status, ![j.page].edited = FALSE]
    BY <1>7 DEF WriteStatus, Known
  <2>3. Kept
    BY <1>7, Zenon DEF WriteStatus, Writes
  <2>4. UNCHANGED Slots!vars
    BY ONLY <1>1, <2>1, <2>2, <2>3, BuiltLabelled, Zenon
  <2> QED BY <2>4
<1>8. CASE WriteCompanions(w)
  <2>1. \A q \in Pages : page'[q].kind = page[q].kind /\ page'[q].source = page[q].source
    BY <1>1, <1>8, CompanionsEffect
  <2>2. Kept
    BY <1>8, Zenon DEF WriteCompanions
  <2> QED BY <2>1, <2>2, BuiltStays
<1>9. CASE RemoveCompanions(w)
  <2>1. page' = Without(Companions(j.page)) /\ Kept /\ Companions(j.page) \in SUBSET Pages
    BY <1>9 DEF RemoveCompanions, Known, Companions
  <2> QED BY <1>1, <2>1, BuiltRemoved
<1>10. CASE WriteRemove(w)
  <2>1. j.page \in Pages
    BY <1>10 DEF WriteRemove, Writes, Known, JobOK, SeenOK, PageOps
  <2>2. page' = Without({j.page}) /\ Kept
    BY <1>10 DEF WriteRemove, Writes, Known
  <2> QED BY <1>1, <2>1, <2>2, BuiltRemoved
<1> HIDE DEF Goal
<1>11. WriteStatus(w, "publish", "published") \/ WriteStatus(w, "unpublish", "private") => Goal
  BY <1>7 DEF PageOps
<1>12. Goal
  BY <1>2, <1>3, <1>4, <1>5, <1>6, <1>8, <1>9, <1>10, <1>11 DEF PageWrite, Goal
<1> QED BY <1>12 DEF Goal

\* An assignment, a return or a replacement that was checked call by call is one step.
LEMMA AssignmentSlots ==
  ASSUME NEW w \in Workers, NEW j, Known(w, j), RoomOK(pc[w], j), WriteAssignments(w)
  PROVE  BySlots \/ UNCHANGED Slots!vars
<1> PICK T : T = CASE j.op = "assign"   -> assigned \cup {j.template}
                   [] j.op = "unassign" -> assigned \ {j.template}
                   [] OTHER             -> j.templates
  OBVIOUS
<1>1. /\ T \subseteq catalog /\ assigned' = T /\ UNCHANGED page
      /\ UNCHANGED <<catalog, plan, sub>>
      /\ pc[w] = "write" /\ j.op \in {"assign", "unassign", "adminSet"} /\ SlotOK("write", j)
  BY DEF WriteAssignments, Writes, Known, JobOK
<1>2. catalog \subseteq Templates /\ assigned \subseteq Templates /\ Built' = Built
  BY <1>1 DEF Known, SerialInv, TypeInv, TypeOK, Built, Exists
<1>3. ASSUME NEW S \in SUBSET Templates, BuiltFrom(S) = {} PROVE Slots!Unused(S)
  <2>1. ASSUME NEW p \in Pages PROVE Built[p] \notin S
    BY <1>3, TemplateAssumption DEF Built, BuiltFrom
  <2> QED BY <2>1 DEF Slots!Unused
<1>4. CASE j.op = "assign"
  <2>1. j.template \in catalog /\ j.template \in Templates
    BY <1>1, <1>2, <1>4
  <2>2. /\ j.template \in Terms[PlanThatCounts].grants /\ j.template \notin assigned
        /\ Within(Cardinality(assigned) + 1, Terms[PlanThatCounts].templates)
    BY <1>1, <1>4 DEF RoomOK
  <2>3. Slots!Take(j.template)
    BY <1>1, <1>2, <1>4, <2>1, <2>2, SameCount
    DEF Slots!Take, Slots!Room, Slots!Unlimited, Within, Unlimited, PlanThatCounts
  <2> QED BY <2>1, <2>3 DEF BySlots
<1>5. CASE j.op = "unassign"
  <2>1. CASE j.template \in assigned
    <3>1. j.template \in Templates /\ {j.template} \in SUBSET Templates
      BY <1>2, <2>1
    <3>2. Slots!Unused({j.template})
      BY <1>1, <1>3, <1>5, <3>1 DEF SlotOK
    <3>3. Slots!GiveBack(j.template)
      BY <1>1, <1>2, <1>5, <2>1, <3>2 DEF Slots!GiveBack
    <3> QED BY <3>1, <3>3 DEF BySlots
  <2>2. CASE j.template \notin assigned
    BY <1>1, <1>2, <1>5, <2>2 DEF Slots!vars
  <2> QED BY <2>1, <2>2
<1>6. CASE j.op = "adminSet"
  <2>1. T = j.templates /\ T \in SUBSET Templates
    BY <1>1, <1>2, <1>6
  <2>2. Slots!Unused(assigned \ T)
    BY <1>1, <1>2, <1>3, <1>6, <2>1 DEF SlotOK
  <2>3. sub # "none" => Within(Cardinality(T), Terms[plan].templates)
    BY <1>1, <1>6, <2>1 DEF RoomOK
  <2>4. Slots!Deal(T)
    BY <1>1, <1>2, <2>2, <2>3, SameCount DEF Slots!Deal, Slots!Room, Slots!Unlimited, Within, Unlimited
  <2> QED BY <2>1, <2>4 DEF BySlots
<1> QED BY <1>1, <1>4, <1>5, <1>6

LEMMA DeletionSlots ==
  ASSUME SerialInv, NEW t \in Templates, DeleteTemplate(t)
  PROVE  BySlots
<1>1. TypeOK
  BY DEF SerialInv, TypeInv
<1>2. ASSUME NEW p \in Pages PROVE Built'[p] = IF Built[p] = t THEN NoTemplate ELSE Built[p]
  <2>1. /\ page'[p].kind = page[p].kind
        /\ page'[p].source = IF page[p].source = t THEN NoTemplate ELSE page[p].source
    BY <1>1, DeleteEffect
  <2> QED BY <2>1, TemplateAssumption DEF Built, Exists
<1>3. Built' = [p \in Pages |-> IF p \in {q \in Pages : Built[q] = t} THEN NoTemplate ELSE Built[p]]
  BY <1>2 DEF Built
<1>4. Slots!Withdraw(t)
  BY <1>3 DEF DeleteTemplate, Slots!Withdraw, Slots!Clear
<1> QED BY <1>4 DEF BySlots

LEMMA NextSlots ==
  ASSUME SerialInv, RoomInv, [Next]_vars
  PROVE  [Slots!Next]_(Slots!vars)
<1> DEFINE Goal == BySlots \/ UNCHANGED Slots!vars
<1>1. ASSUME UNCHANGED rows PROVE Goal
  BY <1>1, BuiltStays DEF rows
<1>2. ASSUME NEW w \in Workers, Arrive(w) PROVE Goal
  BY <1>1, <1>2 DEF Arrive, OnPage, Create, Assign, Unassign, AdminSet, Begin
<1>3. ASSUME NEW w \in Workers, Check(w) PROVE Goal
  BY <1>1, <1>3 DEF Check, Own, ReadPlan, CountPages, ReadAssignment, ReadAssignments, CountInUse,
              CountAssigned, ReadGate, ReadTarget, CountLive, CountDistinct, FindCompanion
<1>4. ASSUME NEW w \in Workers, Write(w) PROVE Goal
  <2> PICK j : j = job[w]
    OBVIOUS
  <2>1. Known(w, j) /\ RoomOK(pc[w], j)
    BY <1>4, WritersBusy, Knowing DEF RoomInv
  <2>2. PageWrite(w) \/ WriteAssignments(w)
    BY <1>4 DEF Write, PageWrite
  <2> QED BY <2>1, <2>2, PageSlots, AssignmentSlots
<1>5. ASSUME NEW w \in Workers, Refuse(w) PROVE Goal
  BY <1>1, <1>5 DEF Refuse
<1>6. ASSUME NEW bill \in Bills, Billing(bill) PROVE Goal
  <2>1. Built' = Built
    BY <1>6 DEF Billing, Built, Exists
  <2>2. Slots!Bill(bill)
    BY <1>6, <2>1 DEF Billing, Slots!Bill
  <2> QED BY <2>2 DEF BySlots
<1>7. ASSUME NEW t \in Templates, DeleteTemplate(t) PROVE Goal
  BY <1>7, DeletionSlots
<1>8. ASSUME UNCHANGED vars PROVE Goal
  BY <1>1, <1>8 DEF vars, rows
<1> HIDE DEF Goal
<1>9. Goal
  BY <1>2, <1>3, <1>4, <1>5, <1>6, <1>7, <1>8 DEF Next
<1> QED BY <1>9, SlotStep DEF Goal

LEMMA InitSlots == Init => RoomInv /\ Slots!Init
<1> SUFFICES ASSUME Init PROVE RoomInv /\ Slots!Init
  OBVIOUS
<1>1. RoomInv
  BY DEF Init, RoomInv, RoomOK
<1>2. SlotHeld
  BY InitSafe DEF SerialInv, RowsOK
<1>3. Built \in [Pages -> assigned \cup {NoTemplate}]
  BY <1>2 DEF Built, SlotHeld
<1> QED BY <1>1, <1>3 DEF Init, Slots!Init

\* Handlers that do not overlap take, give back, fill and free the slots of the plan as if each
\* had looked at plan, slots and pages and written in one step, whatever the plans, the
\* templates, the pages and what billing does meanwhile.
THEOREM SlotsImplemented == ASSUME ~Overlap PROVE Spec => KeepsSlots
<1>1. RoomInv /\ SerialInv /\ [Next]_vars => RoomInv'
  BY RoomSafe
<1>2. SerialInv /\ RoomInv /\ [Next]_vars => [Slots!Next]_(Slots!vars)
  BY NextSlots
<1> QED BY <1>1, <1>2, InitSlots, Serial, PTL DEF Spec, KeepsSlots, Slots!Spec

=============================================================================
