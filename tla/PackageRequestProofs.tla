------------------------- MODULE PackageRequestProofs -------------------------
(* Theorems about PackageRequests, for every value of its constants. *)
EXTENDS PackageRequests, TLAPS

\* A handler that looks a request up was given the id of one.
TypeInv == TypeOK /\ \A w \in Workers : pc[w] = "request" => job[w].request \in Requests

-----------------------------------------------------------------------------
(* Type correctness.                                                       *)

LEMMA AskedType ==
  ASSUME NEW op \in Ops, NEW r \in Requests \cup {NoRequest}, NEW p \in Package,
         NEW keys \in SUBSET Keys, NEW add \in {0, 1}
  PROVE  /\ Asked(op, r, p, keys, add) \in Job
         /\ Asked(op, r, p, keys, add).op = op
         /\ Asked(op, r, p, keys, add).request = r
         /\ Asked(op, r, p, keys, add).package = p
         /\ Asked(op, r, p, keys, add).keys = keys
         /\ Asked(op, r, p, keys, add).add = add
<1>1. [k \in Keys |-> Unlimited] \in Limits
  BY DEF Limits
<1>2. [package |-> BasicMonthly, state |-> "cancelled"] \in Sub
  BY PlanAssumption DEF Sub, BasicMonthly, Package, States
<1> QED BY <1>1, <1>2 DEF Asked, Job

LEMMA NoJobType == NoJob \in Job /\ NoJob.op = "none" /\ BasicMonthly \in Package
<1>1. BasicMonthly \in Package
  BY PlanAssumption DEF BasicMonthly, Package
<1>2. "none" \in Ops
  BY DEF Ops
<1>3. NoJob \in Job
  BY <1>1, <1>2, AskedType DEF NoJob
<1> QED BY <1>1, <1>3 DEF NoJob, Asked

LEMMA AfterType ==
  ASSUME NEW op, NEW phase
  PROVE  After(op, phase) \in Phases \ {"idle", "request"}
BY DEF After, Phases

LEMMA BeginType ==
  ASSUME TypeInv, NEW w \in Workers, NEW j \in Job, NEW phase \in Phases, Begin(w, j, phase),
         phase = "request" => j.request \in Requests
  PROVE  TypeInv'
BY DEF TypeInv, TypeOK, Begin, rows

LEMMA GoOnType ==
  ASSUME TypeInv, NEW w \in Workers, NEW j \in Job, NEW phase \in Phases \ {"request"},
         GoOn(w, phase, j)
  PROVE  TypeInv'
BY DEF TypeInv, TypeOK, GoOn, rows

LEMMA FinishType ==
  ASSUME TypeInv, NEW w \in Workers, Finish(w)
  PROVE  /\ pc' \in [Workers -> Phases] /\ job' \in [Workers -> Job]
         /\ \A v \in Workers : pc'[v] = "request" => job'[v].request \in Requests
BY NoJobType DEF TypeInv, TypeOK, Finish, Phases

LEMMA ArriveType ==
  ASSUME TypeInv, NEW w \in Workers, Arrive(w)
  PROVE  TypeInv'
<1> USE BeginType, AskedType, NoJobType DEF Phases, Ops, Decisions, Adds, Keys
<1>1. ASSUME NEW p \in Package, Submit(w, p) PROVE TypeInv'
  BY <1>1 DEF Submit
<1>2. ASSUME NEW p \in Package, ChangePlan(w, p) PROVE TypeInv'
  BY <1>2 DEF ChangePlan
<1>3. ASSUME NEW p \in Package, AdminSwitch(w, p) PROVE TypeInv'
  BY <1>3 DEF AdminSwitch
<1>4. ASSUME NEW op \in Decisions, NEW r \in Requests, Decide(w, op, r) PROVE TypeInv'
  <2>1. Asked(op, r, BasicMonthly, Keys, 0) \in Job
        /\ Asked(op, r, BasicMonthly, Keys, 0).request = r
    OBVIOUS
  <2>2. Begin(w, Asked(op, r, BasicMonthly, Keys, 0), "request")
    BY <1>4 DEF Decide
  <2> QED BY <2>1, <2>2
<1>5. CASE AddProject(w)
  BY <1>5 DEF AddProject
<1>6. CASE AddPage(w)
  BY <1>6 DEF AddPage
<1>7. ASSUME NEW p \in Package, AdminCreate(w, p) PROVE TypeInv'
  BY <1>7 DEF AdminCreate
<1> QED BY <1>1, <1>2, <1>3, <1>4, <1>5, <1>6, <1>7 DEF Arrive

LEMMA CheckType ==
  ASSUME TypeInv, NEW w \in Workers, Check(w)
  PROVE  TypeInv'
<1> PICK j \in Job : j = job[w]
  BY DEF TypeInv, TypeOK
<1> USE AfterType, GoOnType
<1>1. CASE ReadRequest(w)
  <2> PICK r \in [status : Decided \cup {"absent", "pending"}, package : Package] :
        r = request[j.request]
    BY <1>1 DEF ReadRequest, TypeInv, TypeOK
  <2>1. limits[r.package.plan] \in Limits
    BY DEF TypeInv, TypeOK, Package
  <2>2. [j EXCEPT !.package = r.package, !.limits = limits[r.package.plan]] \in Job
    BY <2>1 DEF Job
  <2> QED BY <1>1, <2>2 DEF ReadRequest
<1>2. CASE ReadSub(w)
  <2>1. sub \in Sub /\ limits[sub.package.plan] \in Limits
    BY DEF TypeInv, TypeOK, Sub, Package
  <2>2. [j EXCEPT !.seen = sub,
                  !.limits = IF j.op \in Adds THEN limits[sub.package.plan] ELSE @] \in Job
    BY <2>1 DEF Job
  <2>3. \A p \in {"write", "basic", "plan"} : p \in Phases \ {"request"}
    BY DEF Phases
  <2> QED BY <1>2, <2>2, <2>3 DEF ReadSub
<1>3. CASE ReadPending(w)
  BY <1>3 DEF ReadPending
<1>4. CASE ReadPlan(w)
  <2>1. limits[j.package.plan] \in Limits
    BY DEF TypeInv, TypeOK, Job, Package
  <2>2. [j EXCEPT !.limits = limits[j.package.plan]] \in Job
    BY <2>1 DEF Job
  <2> QED BY <1>4, <2>2 DEF ReadPlan
<1>5. CASE ReadBasic(w)
  <2>1. limits[Basic] \in Limits
    BY PlanAssumption DEF TypeInv, TypeOK
  <2>2. [j EXCEPT !.limits = limits[Basic]] \in Job
    BY <2>1 DEF Job
  <2> QED BY <1>5, <2>2 DEF ReadBasic, Phases
<1>6. ASSUME NEW k \in Keys, Count(w, k) PROVE TypeInv'
  <2>1. [j EXCEPT !.keys = j.keys \ {k}] \in Job
    BY DEF Job
  <2> QED BY <1>6, <2>1 DEF Count, Phases
<1> QED BY <1>1, <1>2, <1>3, <1>4, <1>5, <1>6 DEF Check

LEMMA WriteType ==
  ASSUME TypeInv, NEW w \in Workers, Write(w)
  PROVE  TypeInv'
<1> PICK j \in Job : j = job[w]
  BY DEF TypeInv, TypeOK
<1> DEFINE Requested == [status : Decided \cup {"absent", "pending"}, package : Package]
<1> DEFINE Written == /\ Finish(w) /\ UNCHANGED <<limits, active>>
                      /\ request' \in [Requests -> Requested]
                      /\ sub' \in Sub /\ usage' \in [Keys -> Nat]
<1>1. Written
  <2> USE DEF Writes, TypeInv, TypeOK
  <2>1. CASE WriteSubmit(w)
    <3>1. [status |-> "pending", package |-> j.package] \in Requested
      BY DEF Job
    <3> QED BY <2>1, <3>1 DEF WriteSubmit
  <2>2. CASE WriteApprove(w)
    <3>1. [package |-> j.package, state |-> "usable"] \in Sub
      BY DEF Job, Sub, States
    <3>2. request' \in [Requests -> Requested]
      BY <2>2 DEF WriteApprove, Decided
    <3> QED BY <2>2, <3>1, <3>2 DEF WriteApprove
  <2>3. CASE WriteChangePlan(w)
    <3>1. [package |-> j.package,
           state |-> IF j.seen.state = "usable" THEN sub.state ELSE "usable"] \in Sub
      BY DEF Job, Sub, States
    <3> QED BY <2>3, <3>1 DEF WriteChangePlan
  <2>4. CASE WriteAdminSwitch(w)
    <3>1. [sub EXCEPT !.package = j.package] \in Sub
      BY DEF Job, Sub
    <3> QED BY <2>4, <3>1 DEF WriteAdminSwitch
  <2>5. ASSUME NEW op, NEW verdict \in Decided, Decline(w, op, verdict)
        PROVE  Written
    BY <2>5 DEF Decline
  <2>6. ASSUME NEW op, NEW k \in Keys, Grow(w, op, k)
        PROVE  Written
    BY <2>6 DEF Grow
  <2>7. CASE WriteAdminCreate(w)
    <3>1. \A state \in States : [package |-> j.package, state |-> state] \in Sub
      BY DEF Job, Sub
    <3> QED BY <2>7, <3>1 DEF WriteAdminCreate
  <2> QED BY <2>1, <2>2, <2>3, <2>4, <2>5, <2>6, <2>7 DEF Write, Decided, Keys
<1> QED BY <1>1, FinishType DEF TypeInv, TypeOK

LEMMA SurroundingsType ==
  ASSUME TypeInv,
         \/ \E state \in States : Lifecycle(state)
         \/ \E p \in Package : Attach(p)
         \/ \E p \in Plans, offer \in Offers, on \in BOOLEAN : EditPlan(p, offer, on)
         \/ \E k \in Keys : Shrink(k)
  PROVE  TypeInv'
<1> USE DEF TypeInv, TypeOK
<1>1. ASSUME NEW state \in States, Lifecycle(state) PROVE TypeInv'
  <2>1. [sub EXCEPT !.state = state] \in Sub
    BY DEF Sub
  <2> QED BY <1>1, <2>1 DEF Lifecycle
<1>2. ASSUME NEW p \in Plans, NEW offer \in Offers, NEW on \in BOOLEAN, EditPlan(p, offer, on)
      PROVE  TypeInv'
  BY <1>2, OfferAssumption DEF EditPlan
<1>3. ASSUME NEW k \in Keys, Shrink(k) PROVE TypeInv'
  BY <1>3 DEF Shrink
<1>4. ASSUME NEW p \in Package, Attach(p) PROVE TypeInv'
  <2>1. [package |-> p, state |-> "usable"] \in Sub
    BY DEF Sub, States
  <2> QED BY <1>4, <2>1 DEF Attach
<1> QED BY <1>1, <1>2, <1>3, <1>4

LEMMA NextType == ASSUME TypeInv, [Next]_vars PROVE TypeInv'
<1>1. ASSUME NEW w \in Workers, Refuse(w) PROVE TypeInv'
  BY <1>1, FinishType DEF Refuse, rows, TypeInv, TypeOK
<1>2. CASE UNCHANGED vars
  BY <1>2 DEF vars, TypeInv, TypeOK
<1> QED BY <1>1, <1>2, ArriveType, CheckType, WriteType, SurroundingsType DEF Next

LEMMA InitType == Init => TypeInv
<1> SUFFICES ASSUME Init PROVE TypeInv
  OBVIOUS
<1>1. /\ request \in [Requests -> [status : Decided \cup {"absent", "pending"},
                                   package : Package]]
      /\ job \in [Workers -> Job]
  BY NoJobType DEF Init
<1>2. /\ sub \in Sub /\ usage \in [Keys -> Nat] /\ limits \in [Plans -> Limits]
      /\ active \in [Plans -> BOOLEAN]
  BY OfferAssumption DEF Init, Sub
<1> QED BY <1>1, <1>2 DEF Init, TypeInv, TypeOK, Phases

\* In every reachable state of every instance, overlapping or not, the rows, the usage and
\* the locals of all handlers hold values of their types.
THEOREM TypeCorrect == Spec => []TypeOK
BY InitType, NextType, PTL DEF Spec, TypeInv

-----------------------------------------------------------------------------
(* Without overlap: what a handler has read and checked still holds while  *)
(* it is the only one that runs.                                           *)

Switches  == {"approve", "changePlan", "adminSwitch", "adminCreate"}
Grown(op) == IF op = "addPage" THEN "pages" ELSE "projects"
Fits(p)   == \A k \in Keys : Within(usage[k], limits[p.plan][k])

\* The phases each operation goes through.
Route(op) ==
  CASE op = "approve"     -> {"request", "count", "sub", "write"}
    [] op \in {"reject", "cancel"} -> {"request", "write"}
    [] op = "submit"      -> {"sub", "pending", "plan", "count", "write"}
    [] op = "changePlan"  -> {"plan", "count", "sub", "write"}
    [] op = "adminSwitch" -> {"sub", "plan", "count", "write"}
    [] op = "adminCreate" -> {"plan", "sub", "count", "write"}
    [] op = "addProject"  -> {"sub", "count", "write"}
    [] op = "addPage"     -> {"sub", "basic", "count", "write"}
    [] OTHER              -> {}

\* A decision is made on a pending request, and on the package it asks for.
DecisionOK(ph, j) ==
  j.op \in Decisions =>
    /\ j.request \in Requests
    /\ ph # "request" => /\ request[j.request].status = "pending"
                         /\ j.package = request[j.request].package

\* A submission has seen the subscription, no open request, and another package.
SubmitOK(ph, j) ==
  j.op = "submit" =>
    /\ ph # "sub" => j.seen = sub /\ sub.state # "cancelled"
    /\ ph \in {"plan", "count", "write"} => \A r \in Requests : request[r].status # "pending"
    /\ ph \in {"count", "write"} => j.package # sub.package

\* A switch has counted what the organisation uses against the plan it is about to write.
SwitchOK(ph, j) ==
  j.op \in Switches =>
    /\ ph \in {"request", "plan", "count"} => j.add = 0
    /\ ph \in {"request", "plan"} => j.keys = Keys
    /\ ph = "count" => /\ j.limits = limits[j.package.plan]
                       /\ \A k \in Keys \ j.keys : Within(usage[k], j.limits[k])
    /\ ph = "sub" => CASE j.op = "adminSwitch" -> j.add = 0 /\ j.keys = Keys
                       [] j.op = "adminCreate" -> /\ j.add = 0 /\ j.keys = Keys
                                                  /\ j.limits = limits[j.package.plan]
                       [] OTHER -> Fits(j.package)
    /\ ph = "write" => Fits(j.package) \/ j.package.plan = sub.package.plan

\* What is about to be added has been counted against the limit that binds.
GrowthOK(ph, j) ==
  j.op \in Adds =>
    /\ ph # "write" => j.add = 1 /\ j.keys = {Grown(j.op)}
    /\ ph = "basic" => sub.state # "usable"
    /\ ph = "count" => j.limits[Grown(j.op)] = Bound(Grown(j.op))
    /\ ph = "write" => Within(usage[Grown(j.op)] + 1, Bound(Grown(j.op)))

JobOK(ph, j) ==
  ph \in Route(j.op) /\ DecisionOK(ph, j) /\ SubmitOK(ph, j) /\ SwitchOK(ph, j) /\ GrowthOK(ph, j)

OneBusy == \A v, w \in Workers : pc[v] # "idle" /\ pc[w] # "idle" => v = w

SerialInv ==
  /\ TypeInv /\ OneBusy /\ AtMostOnePending
  /\ \A w \in Workers : pc[w] # "idle" => JobOK(pc[w], job[w])

\* Nobody is at work: nothing is claimed of any handler.
LEMMA QuietSafe ==
  ASSUME TypeInv', AtMostOnePending', \A v \in Workers : pc'[v] = "idle"
  PROVE  SerialInv'
BY DEF SerialInv, OneBusy

\* Once the only handler at work has finished, nobody is.
LEMMA FinishSafe ==
  ASSUME SerialInv, NEW w \in Workers, pc[w] # "idle", Finish(w), TypeInv', AtMostOnePending'
  PROVE  SerialInv'
<1>1. \A v \in Workers : pc'[v] = "idle"
  BY DEF SerialInv, OneBusy, TypeInv, TypeOK, Finish
<1> QED BY <1>1, QuietSafe

\* The only handler at work goes on, or begins, with what the invariant asks of it.
LEMMA GoOnSafe ==
  ASSUME SerialInv, NEW w \in Workers, NEW ph, NEW j, TypeInv',
         \A v \in Workers \ {w} : pc[v] = "idle",
         pc' = [pc EXCEPT ![w] = ph], job' = [job EXCEPT ![w] = j], UNCHANGED rows, JobOK(ph, j)
  PROVE  SerialInv'
<1>1. /\ pc \in [Workers -> Phases] /\ job \in [Workers -> Job]
  BY DEF SerialInv, TypeInv, TypeOK
<1>2. OneBusy' /\ AtMostOnePending'
  BY <1>1 DEF SerialInv, OneBusy, AtMostOnePending, rows
<1>3. ASSUME NEW v \in Workers, pc'[v] # "idle" PROVE JobOK(pc[v], job[v])'
  <2>1. v = w /\ pc'[v] = ph /\ job'[v] = j
    BY <1>1, <1>3
  <2> QED BY <2>1 DEF JobOK, DecisionOK, SubmitOK, SwitchOK, GrowthOK, Fits, Bound, rows
<1> QED BY <1>2, <1>3 DEF SerialInv

LEMMA ArriveSafe ==
  ASSUME ~Overlap, SerialInv, TypeInv', NEW w \in Workers, Arrive(w)
  PROVE  SerialInv'
<1>1. ASSUME NEW j, NEW ph, Ready(w), Begin(w, j, ph), JobOK(ph, j) PROVE SerialInv'
  BY <1>1, GoOnSafe DEF Ready, Begin, Alone
<1> USE NoJobType, AskedType DEF JobOK, Route, DecisionOK, SubmitOK, SwitchOK, GrowthOK,
        Grown, Switches, Decisions, Adds, Ops, Keys
<1>2. ASSUME NEW p \in Package, Submit(w, p) PROVE SerialInv'
  <2>1. JobOK("sub", Asked("submit", NoRequest, p, Keys, 0))
    OBVIOUS
  <2> QED BY <1>1, <1>2, <2>1 DEF Submit
<1>3. ASSUME NEW p \in Package, ChangePlan(w, p) PROVE SerialInv'
  <2>1. JobOK("plan", Asked("changePlan", NoRequest, p, Keys, 0))
    OBVIOUS
  <2> QED BY <1>1, <1>3, <2>1 DEF ChangePlan
<1>4. ASSUME NEW p \in Package, AdminSwitch(w, p) PROVE SerialInv'
  <2>1. JobOK("sub", Asked("adminSwitch", NoRequest, p, Keys, 0))
    OBVIOUS
  <2> QED BY <1>1, <1>4, <2>1 DEF AdminSwitch
<1>5. ASSUME NEW op \in Decisions, NEW r \in Requests, Decide(w, op, r) PROVE SerialInv'
  <2>1. JobOK("request", Asked(op, r, BasicMonthly, Keys, 0))
    OBVIOUS
  <2> QED BY <1>1, <1>5, <2>1 DEF Decide
<1>6. CASE AddProject(w)
  <2>1. JobOK("sub", Asked("addProject", NoRequest, BasicMonthly, {"projects"}, 1))
    OBVIOUS
  <2> QED BY <1>1, <1>6, <2>1 DEF AddProject
<1>7. CASE AddPage(w)
  <2>1. JobOK("sub", Asked("addPage", NoRequest, BasicMonthly, {"pages"}, 1))
    OBVIOUS
  <2> QED BY <1>1, <1>7, <2>1 DEF AddPage
<1>8. ASSUME NEW p \in Package, AdminCreate(w, p) PROVE SerialInv'
  <2>1. JobOK("plan", Asked("adminCreate", NoRequest, p, Keys, 0))
    OBVIOUS
  <2> QED BY <1>1, <1>8, <2>1 DEF AdminCreate
<1> QED BY <1>2, <1>3, <1>4, <1>5, <1>6, <1>7, <1>8 DEF Arrive

LEMMA CheckSafe ==
  ASSUME SerialInv, TypeInv', NEW w \in Workers, Check(w)
  PROVE  SerialInv'
<1> PICK j \in Job : j = job[w]
  BY DEF SerialInv, TypeInv, TypeOK
<1>1. pc[w] # "idle"
  BY DEF Check, ReadRequest, ReadSub, ReadPending, ReadPlan, ReadBasic, Count
<1>2. JobOK(pc[w], j) /\ \A v \in Workers \ {w} : pc[v] = "idle"
  BY <1>1 DEF SerialInv, OneBusy
<1>3. ASSUME NEW i, NEW ph, GoOn(w, ph, i), JobOK(ph, i) PROVE SerialInv'
  BY <1>2, <1>3, GoOnSafe DEF GoOn
<1> USE DEF JobOK, Route, Decisions, Adds, Switches
<1>4. CASE ReadRequest(w)
  <2> PICK r : r = request[j.request]
    OBVIOUS
  <2> DEFINE i == [j EXCEPT !.package = r.package, !.limits = limits[r.package.plan]]
             ph == After(j.op, "request")
  <2>1. /\ j.op \in Decisions /\ r.status = "pending" /\ GoOn(w, ph, i)
        /\ ph = IF j.op = "approve" THEN "count" ELSE "write"
    BY <1>2, <1>4 DEF ReadRequest, After
  <2>2. /\ i.op = j.op /\ i.request = j.request /\ i.keys = j.keys /\ i.add = j.add
        /\ i.package = r.package /\ i.limits = limits[r.package.plan]
    BY DEF Job
  <2> HIDE DEF i, ph
  <2>3. JobOK(ph, i)
    BY <1>2, <1>4, <2>1, <2>2
    DEF DecisionOK, SubmitOK, SwitchOK, GrowthOK, ReadRequest
  <2> QED BY <1>3, <2>1, <2>3
<1>5. CASE ReadSub(w)
  <2> DEFINE i == [j EXCEPT !.seen = sub,
                            !.limits = IF j.op \in Adds THEN limits[sub.package.plan] ELSE @]
             ph == IF Unchecked(j) THEN "write"
                   ELSE IF FallsBack(j.op, sub.state) THEN "basic"
                   ELSE IF j.op = "adminSwitch" THEN "plan" ELSE After(j.op, "sub")
  <2>1. /\ GoOn(w, ph, i) /\ pc[w] = "sub"
        /\ j.op = "submit" => sub.state # "cancelled"
    BY <1>5 DEF ReadSub
  <2>2. /\ i.op = j.op /\ i.request = j.request /\ i.keys = j.keys /\ i.add = j.add
        /\ i.package = j.package /\ i.seen = sub
        /\ i.limits = IF j.op \in Adds THEN limits[sub.package.plan] ELSE j.limits
    BY DEF Job
  <2> HIDE DEF i
  <2> USE <1>2, <2>1, <2>2 DEF DecisionOK, SubmitOK, SwitchOK, GrowthOK
  <2>3. CASE j.op = "submit"
    BY <2>3, <1>3 DEF Unchecked, FallsBack, After
  <2>4. CASE j.op \in {"approve", "changePlan"}
    BY <2>4, <1>3 DEF Unchecked, FallsBack, After
  <2>5. CASE j.op = "adminSwitch"
    BY <2>5, <1>3 DEF Unchecked, FallsBack, After
  <2>6. CASE j.op = "addProject"
    <3>1. sub.state \in States
      BY DEF SerialInv, TypeInv, TypeOK, Sub
    <3> QED BY <2>6, <3>1, <1>3 DEF States, Unchecked, FallsBack, After, Grown, Bound, Within
  <2>7. CASE j.op = "addPage"
    BY <2>7, <1>3 DEF Unchecked, FallsBack, After, Grown, Bound
  <2>8. CASE j.op = "adminCreate"
    BY <2>8, <1>3 DEF Unchecked, FallsBack, After
  <2> QED BY <2>3, <2>4, <2>5, <2>6, <2>7, <2>8
<1>6. CASE ReadPending(w)
  <2>1. /\ pc[w] = "pending" /\ GoOn(w, "plan", j)
        /\ \A r \in Requests : request[r].status # "pending"
    BY <1>6 DEF ReadPending, After
  <2>2. j.op = "submit"
    BY <1>2, <2>1
  <2>3. JobOK("plan", j)
    BY <1>2, <2>1, <2>2 DEF DecisionOK, SubmitOK, SwitchOK, GrowthOK
  <2> QED BY <1>3, <2>1, <2>3
<1>7. CASE ReadPlan(w)
  <2> DEFINE i == [j EXCEPT !.limits = limits[j.package.plan]]
  <2> DEFINE ph == IF j.op = "adminCreate" THEN "sub" ELSE "count"
  <2>1. /\ pc[w] = "plan" /\ GoOn(w, ph, i)
        /\ ~(j.op = "submit" /\ j.package = j.seen.package)
    BY <1>7 DEF ReadPlan, After
  <2>2. /\ i.op = j.op /\ i.request = j.request /\ i.keys = j.keys /\ i.add = j.add
        /\ i.package = j.package /\ i.seen = j.seen /\ i.limits = limits[j.package.plan]
    BY DEF Job
  <2> HIDE DEF i
  <2>3. j.op \in {"submit", "changePlan", "adminSwitch", "adminCreate"}
    BY <1>2, <2>1
  <2>4. JobOK(ph, i)
    BY <1>2, <2>1, <2>2, <2>3 DEF DecisionOK, SubmitOK, SwitchOK, GrowthOK
  <2> QED BY <1>3, <2>1, <2>4
<1>8. CASE ReadBasic(w)
  <2> DEFINE i == [j EXCEPT !.limits = limits[Basic]]
  <2>1. pc[w] = "basic" /\ GoOn(w, "count", i)
    BY <1>8 DEF ReadBasic
  <2>2. i.op = j.op /\ i.keys = j.keys /\ i.add = j.add /\ i.limits = limits[Basic]
    BY DEF Job
  <2> HIDE DEF i
  <2>3. j.op = "addPage"
    BY <1>2, <2>1
  <2>4. JobOK("count", i)
    BY <1>2, <2>1, <2>2, <2>3 DEF DecisionOK, SubmitOK, SwitchOK, GrowthOK, Grown, Bound
  <2> QED BY <1>3, <2>1, <2>4
<1>9. ASSUME NEW k \in Keys, Count(w, k) PROVE SerialInv'
  <2> DEFINE i  == [j EXCEPT !.keys = j.keys \ {k}]
             ph == IF j.keys \ {k} = {} THEN After(j.op, "count") ELSE "count"
  <2>1. /\ pc[w] = "count" /\ k \in j.keys /\ Within(usage[k] + j.add, j.limits[k])
        /\ GoOn(w, ph, i)
    BY <1>9 DEF Count
  <2>2. /\ i.op = j.op /\ i.request = j.request /\ i.keys = j.keys \ {k} /\ i.add = j.add
        /\ i.package = j.package /\ i.seen = j.seen /\ i.limits = j.limits
    BY DEF Job
  <2>3. usage[k] \in Nat /\ j.keys \subseteq Keys
    BY DEF SerialInv, TypeInv, TypeOK, Job
  <2> HIDE DEF i
  <2> USE <1>2, <1>3, <2>1, <2>2, <2>3
      DEF DecisionOK, SubmitOK, SwitchOK, GrowthOK, After
  <2>4. CASE j.op = "submit"
    BY <2>4
  <2>5. CASE j.op \in Switches
    <3>1. \A l \in Keys \ i.keys : Within(usage[l], j.limits[l])
      BY <2>5
    <3>2. i.keys = {} => Fits(j.package)
      BY <2>5, <3>1 DEF Fits
    <3>3. JobOK(ph, i)
      BY <2>5, <3>1, <3>2
    <3> QED BY <3>3
  <2>6. CASE j.op \in Adds
    <3>1. j.keys = {Grown(j.op)} /\ j.add = 1 /\ k = Grown(j.op)
      BY <2>6
    <3>2. ph = "write" /\ Within(usage[k] + 1, Bound(k))
      BY <2>6, <3>1
    <3>3. JobOK(ph, i)
      BY <2>6, <3>1, <3>2
    <3> QED BY <3>3
  <2> QED BY <2>4, <2>5, <2>6
<1> QED BY <1>4, <1>5, <1>6, <1>7, <1>8, <1>9 DEF Check

LEMMA WriteSafe ==
  ASSUME SerialInv, TypeInv', NEW w \in Workers, Write(w)
  PROVE  SerialInv'
<1>1. pc[w] = "write" /\ Finish(w) /\ JobOK("write", job[w])
  BY DEF SerialInv, Write, WriteSubmit, WriteApprove, WriteChangePlan, WriteAdminSwitch,
         WriteAdminCreate, Decline, Grow, Writes
<1> request \in [Requests -> [status : Decided \cup {"absent", "pending"}, package : Package]]
  BY DEF SerialInv, TypeInv, TypeOK
<1>2. AtMostOnePending'
  <2> USE DEF SerialInv, AtMostOnePending
  <2>1. CASE WriteSubmit(w)
    <3>1. \A r \in Requests : request[r].status # "pending"
      BY <1>1, <2>1 DEF WriteSubmit, Writes, JobOK, SubmitOK
    <3>2. PICK r \in Requests :
            request' = [request EXCEPT ![r] = [status |-> "pending", package |-> job[w].package]]
      BY <2>1 DEF WriteSubmit, Free
    <3>3. \A q \in Requests : request'[q].status = "pending" => q = r
      BY <3>1, <3>2
    <3> QED BY <3>3
  <2>2. ASSUME NEW verdict \in Decided, NEW r,
               request' = [request EXCEPT ![r].status = verdict]
        PROVE  AtMostOnePending'
    <3>1. \A q \in Requests : request'[q].status = "pending" => request[q].status = "pending"
      BY <2>2 DEF Decided
    <3> QED BY <3>1
  <2>3. CASE WriteApprove(w)
    BY <2>2, <2>3 DEF WriteApprove, Decided
  <2>4. CASE Decline(w, "reject", "rejected") \/ Decline(w, "cancel", "cancelled")
    BY <2>2, <2>4 DEF Decline, Decided
  <2>5. ASSUME UNCHANGED request PROVE AtMostOnePending'
    BY <2>5
  <2> QED BY <2>1, <2>3, <2>4, <2>5 DEF Write, WriteChangePlan, WriteAdminSwitch,
                                             WriteAdminCreate, Grow
<1> QED BY <1>1, <1>2, FinishSafe

LEMMA NextSafe ==
  ASSUME ~Overlap, SerialInv, [Next]_vars
  PROVE  SerialInv'
<1>1. TypeInv'
  BY NextType DEF SerialInv
<1>2. ASSUME NEW w \in Workers, Refuse(w) PROVE SerialInv'
  <2>1. AtMostOnePending' /\ pc[w] # "idle" /\ Finish(w)
    BY <1>2 DEF SerialInv, AtMostOnePending, Refuse, rows
  <2> QED BY <1>1, <2>1, FinishSafe
<1>3. ASSUME Alone, UNCHANGED <<request, pc, job>> PROVE SerialInv'
  <2>1. \A v \in Workers : pc'[v] = "idle"
    BY <1>3 DEF Alone
  <2>2. AtMostOnePending'
    BY <1>3 DEF SerialInv, AtMostOnePending
  <2> QED BY <1>1, <2>1, <2>2, QuietSafe
<1>4. ASSUME NEW state \in States, Lifecycle(state) PROVE SerialInv'
  BY <1>3, <1>4 DEF Lifecycle
<1>5. ASSUME NEW p \in Plans, NEW offer \in Offers, NEW on \in BOOLEAN, EditPlan(p, offer, on)
      PROVE  SerialInv'
  BY <1>3, <1>5 DEF EditPlan
<1>6. ASSUME NEW k \in Keys, Shrink(k) PROVE SerialInv'
  BY <1>3, <1>6 DEF Shrink
<1>8. ASSUME NEW p \in Package, Attach(p) PROVE SerialInv'
  BY <1>3, <1>8 DEF Attach
<1>7. CASE UNCHANGED vars
  BY <1>1, <1>7 DEF vars, SerialInv, OneBusy, AtMostOnePending, JobOK, DecisionOK, SubmitOK,
                    SwitchOK, GrowthOK, Fits, Bound
<1> QED BY <1>1, <1>2, <1>4, <1>5, <1>6, <1>7, <1>8, ArriveSafe, CheckSafe, WriteSafe DEF Next

LEMMA InitSafe == Init => SerialInv
<1> SUFFICES ASSUME Init PROVE SerialInv
  OBVIOUS
<1>1. \A w \in Workers : pc[w] = "idle"
  BY DEF Init
<1>2. AtMostOnePending
  BY DEF Init, AtMostOnePending
<1> QED BY <1>1, <1>2, InitType DEF SerialInv, OneBusy

LEMMA Serial == ASSUME ~Overlap PROVE Spec => []SerialInv
<1>1. SerialInv /\ [Next]_vars => SerialInv'
  BY NextSafe
<1> QED BY <1>1, InitSafe, PTL DEF Spec

\* Handlers that do not overlap never leave an organisation with two open requests.
THEOREM PendingSafe == ASSUME ~Overlap PROVE Spec => []AtMostOnePending
BY Serial, PTL DEF SerialInv

\* What a step may write: a handler its rows in its last phase, the surroundings theirs.
LEMMA Writers ==
  ASSUME [Next]_vars
  PROVE  \/ UNCHANGED rows
         \/ \E w \in Workers : Write(w)
         \/ \E state \in States : Lifecycle(state)
         \/ \E p \in Package : Attach(p)
         \/ UNCHANGED <<request, sub>> /\ \E p \in Plans, o \in Offers, on \in BOOLEAN :
                                            EditPlan(p, o, on)
         \/ UNCHANGED <<request, sub>> /\ \E k \in Keys : Shrink(k)
<1> USE DEF rows
<1>1. ASSUME NEW w \in Workers, Arrive(w) PROVE UNCHANGED rows
  BY <1>1 DEF Arrive, Submit, ChangePlan, AdminSwitch, AdminCreate, Decide, AddProject, AddPage, Begin
<1>2. ASSUME NEW w \in Workers, Check(w) PROVE UNCHANGED rows
  BY <1>2 DEF Check, ReadRequest, ReadSub, ReadPending, ReadPlan, ReadBasic, Count, GoOn
<1>3. ASSUME NEW w \in Workers, Refuse(w) PROVE UNCHANGED rows
  BY <1>3 DEF Refuse
<1>4. CASE UNCHANGED vars
  BY <1>4 DEF vars
<1> QED BY <1>1, <1>2, <1>3, <1>4 DEF Next, EditPlan, Shrink

\* The rows a handler's write changes, and what the invariant says of them.
LEMMA WriteEffect ==
  ASSUME SerialInv, NEW w \in Workers, Write(w)
  PROVE  \/ WriteSubmit(w) /\ SubmitOK("write", job[w]) /\ job[w].op = "submit"
         \/ WriteApprove(w) /\ DecisionOK("write", job[w]) /\ SwitchOK("write", job[w])
              /\ job[w].op = "approve"
         \/ /\ WriteChangePlan(w) \/ WriteAdminSwitch(w) \/ WriteAdminCreate(w)
            /\ SwitchOK("write", job[w])
            /\ job[w].op \in {"changePlan", "adminSwitch", "adminCreate"}
         \/ /\ Decline(w, "reject", "rejected") \/ Decline(w, "cancel", "cancelled")
            /\ DecisionOK("write", job[w]) /\ job[w].op \in {"reject", "cancel"}
         \/ Grow(w, "addProject", "projects") /\ GrowthOK("write", job[w])
              /\ job[w].op = "addProject"
         \/ Grow(w, "addPage", "pages") /\ GrowthOK("write", job[w]) /\ job[w].op = "addPage"
BY DEF SerialInv, JobOK, Write, WriteSubmit, WriteApprove, WriteChangePlan, WriteAdminSwitch,
       WriteAdminCreate, Decline, Grow, Writes

\* Handlers that do not overlap never decide a request twice, whatever the organisation
\* and the Super Admin do.
THEOREM DecisionSafe == ASSUME ~Overlap PROVE Spec => DecidedIsFinal
<1> DEFINE Final == \A r \in Requests :
                      request[r].status \in Decided => request'[r].status = request[r].status
<1>1. SerialInv /\ [Next]_vars => Final
  <2> SUFFICES ASSUME SerialInv, [Next]_vars, NEW r \in Requests, request[r].status \in Decided
               PROVE  request'[r].status = request[r].status
    OBVIOUS
  <2>1. request \in [Requests -> [status : Decided \cup {"absent", "pending"}, package : Package]]
    BY DEF SerialInv, TypeInv, TypeOK
  <2>2. ASSUME NEW w \in Workers, Write(w) PROVE request'[r].status = request[r].status
    <3>1. CASE WriteSubmit(w)
      BY <2>1, <3>1 DEF WriteSubmit, Free, Decided
    <3>2. ASSUME NEW verdict, request' = [request EXCEPT ![job[w].request].status = verdict],
                 request[job[w].request].status = "pending"
          PROVE  request'[r].status = request[r].status
      BY <2>1, <3>2 DEF Decided
    <3>3. ASSUME UNCHANGED request PROVE request'[r].status = request[r].status
      BY <3>3
    <3> QED BY <2>2, <3>1, <3>2, <3>3, WriteEffect
            DEF WriteApprove, Decline, WriteChangePlan, WriteAdminSwitch, WriteAdminCreate, Grow,
                DecisionOK, Decisions
  <2> QED BY <2>2, Writers DEF rows, Lifecycle, Attach
<1> QED BY <1>1, Serial, PTL DEF Spec, DecidedIsFinal

\* Handlers that do not overlap move an organisation only to a plan it fits, by whichever
\* of the four ways; a plan is attached unchecked only where there is no subscription.
THEOREM SwitchSafe == ASSUME ~Overlap PROVE Spec => SwitchFitsUsage
<1> DEFINE Fit == sub'.package.plan # sub.package.plan =>
                    \/ \A k \in Keys : Within(usage[k], limits[sub'.package.plan][k])
                    \/ sub.state = "cancelled" /\ \A w \in Workers : pc[w] = "idle"
<1>1. SerialInv /\ [Next]_vars => Fit
  <2> SUFFICES ASSUME SerialInv, [Next]_vars PROVE Fit
    OBVIOUS
  <2>1. sub \in Sub
    BY DEF SerialInv, TypeInv, TypeOK
  <2>2. ASSUME NEW w \in Workers, Write(w) PROVE Fit
    <3>1. ASSUME sub'.package = job[w].package,
                 Fits(job[w].package) \/ job[w].package.plan = sub.package.plan
          PROVE  Fit
      BY <3>1 DEF Fits
    <3>2. CASE WriteApprove(w)
      BY <3>1, <3>2, <2>2, WriteEffect DEF WriteApprove, Writes, SwitchOK, Switches
    <3>3. CASE WriteChangePlan(w)
      BY <3>1, <3>3, <2>2, WriteEffect DEF WriteChangePlan, Writes, SwitchOK, Switches
    <3>4. CASE WriteAdminSwitch(w)
      <4>1. sub'.package = job[w].package
        BY <2>1, <3>4 DEF WriteAdminSwitch, Sub
      <4> QED BY <3>1, <3>4, <4>1, <2>2, WriteEffect DEF WriteAdminSwitch, Writes, SwitchOK, Switches
    <3>5. CASE WriteAdminCreate(w)
      <4>1. sub'.package = job[w].package
        BY <3>5 DEF WriteAdminCreate
      <4> QED BY <3>1, <3>5, <4>1, <2>2, WriteEffect DEF WriteAdminCreate, Writes, SwitchOK, Switches
    <3>6. CASE UNCHANGED sub
      BY <3>6
    <3> QED BY <2>2, <3>2, <3>3, <3>4, <3>5, <3>6 DEF Write, WriteSubmit, Decline, Grow
  <2>3. ASSUME NEW state \in States, Lifecycle(state) PROVE Fit
    BY <2>1, <2>3 DEF Lifecycle, Sub
  <2>4. ASSUME NEW p \in Package, Attach(p) PROVE Fit
    BY <2>4 DEF Attach, Alone
  <2> QED BY <2>2, <2>3, <2>4, Writers DEF rows
<1> QED BY <1>1, Serial, PTL DEF Spec, SwitchFitsUsage

\* Handlers that do not overlap add nothing beyond the limit that binds when they write.
THEOREM GrowthSafe == ASSUME ~Overlap PROVE Spec => GrowthWithinLimit
<1> DEFINE Bounded == \A k \in Keys : usage'[k] > usage[k] => Within(usage'[k], Bound(k))
<1>1. SerialInv /\ [Next]_vars => Bounded
  <2> SUFFICES ASSUME SerialInv, [Next]_vars PROVE Bounded
    OBVIOUS
  <2>1. usage \in [Keys -> Nat]
    BY DEF SerialInv, TypeInv, TypeOK
  <2>2. ASSUME NEW k \in Keys, usage' = [usage EXCEPT ![k] = @ + 1],
               Within(usage[k] + 1, Bound(k))
        PROVE  Bounded
    <3>1. ASSUME NEW l \in Keys, usage'[l] > usage[l] PROVE l = k /\ usage'[l] = usage[k] + 1
      BY <2>1, <2>2, <3>1
    <3> QED BY <2>2, <3>1
  <2>3. ASSUME NEW k \in Keys, Shrink(k) PROVE Bounded
    BY <2>1, <2>3 DEF Shrink
  <2>4. CASE UNCHANGED usage
    BY <2>1, <2>4
  <2>5. ASSUME NEW w \in Workers, Grow(w, "addProject", "projects") PROVE Bounded
    BY <2>2, <2>5, WriteEffect DEF Write, Grow, Writes, GrowthOK, Grown, Adds, Keys
  <2>6. ASSUME NEW w \in Workers, Grow(w, "addPage", "pages") PROVE Bounded
    BY <2>2, <2>6, WriteEffect DEF Write, Grow, Writes, GrowthOK, Grown, Adds, Keys
  <2> QED BY <2>3, <2>4, <2>5, <2>6, Writers
          DEF rows, Write, WriteSubmit, WriteApprove, WriteChangePlan, WriteAdminSwitch,
              WriteAdminCreate, Decline, Lifecycle, Attach, EditPlan
<1> QED BY <1>1, Serial, PTL DEF Spec, GrowthWithinLimit

-----------------------------------------------------------------------------
(* Without overlap, the requests implement PackageRequestContract.         *)

status     == [r \in Requests |-> request[r].status]
target     == [r \in Requests |-> request[r].package]
subscribed == sub.state # "cancelled"

\* A submission's write opens a request where the contract allows one.
LEMMA SubmitStep ==
  ASSUME SerialInv, NEW w \in Workers, WriteSubmit(w), SubmitOK("write", job[w]),
         job[w].op = "submit"
  PROVE  Contract!Next
<1> PICK p \in Package : p = job[w].package
  BY DEF SerialInv, TypeInv, TypeOK, Job
<1>1. PICK r \in Free :
        request' = [request EXCEPT ![r] = [status |-> "pending", package |-> p]]
  BY DEF WriteSubmit
<1>2. request \in [Requests -> [status : Decided \cup {"absent", "pending"}, package : Package]]
  BY DEF SerialInv, TypeInv, TypeOK
<1>3. r \in Requests /\ request[r].status = "absent"
  BY <1>1 DEF Free
<1>4. /\ sub.state # "cancelled" /\ sub.package # p /\ UNCHANGED sub
      /\ \A q \in Requests : request[q].status # "pending"
  BY DEF SubmitOK, WriteSubmit
<1>5. status' = [status EXCEPT ![r] = "pending"]
  BY <1>1, <1>2, <1>3 DEF status
<1>6. target' = [target EXCEPT ![r] = p]
  BY <1>1, <1>2, <1>3 DEF target
<1>7. Contract!Submit(r, p)
  BY <1>3, <1>4, <1>5, <1>6 DEF Contract!Submit, status, target
<1> QED BY <1>3, <1>7 DEF Contract!Next

\* A decision's write decides a request that is open.
LEMMA DecideStep ==
  ASSUME SerialInv, NEW w \in Workers, DecisionOK("write", job[w]), job[w].op \in Decisions,
         NEW verdict, request' = [request EXCEPT ![job[w].request].status = verdict],
         \/ verdict \in {"rejected", "cancelled"} /\ UNCHANGED sub
         \/ verdict = "approved" /\ sub' = [package |-> job[w].package, state |-> "usable"]
  PROVE  Contract!Next
<1> PICK r \in Requests : r = job[w].request
  BY DEF DecisionOK
<1>1. request \in [Requests -> [status : Decided \cup {"absent", "pending"}, package : Package]]
  BY DEF SerialInv, TypeInv, TypeOK
<1>2. request[r].status = "pending" /\ job[w].package = request[r].package
  BY DEF DecisionOK
<1>3. status' = [status EXCEPT ![r] = verdict]
  BY <1>1, <1>2 DEF status
<1>4. UNCHANGED target
  BY <1>1, <1>2 DEF target
<1>5. CASE verdict \in {"rejected", "cancelled"} /\ UNCHANGED sub
  <2>1. Contract!Decline(r, verdict)
    BY <1>2, <1>3, <1>4, <1>5 DEF Contract!Decline, status, target
  <2> QED BY <1>5, <2>1 DEF Contract!Next
<1>6. CASE verdict = "approved" /\ sub' = [package |-> job[w].package, state |-> "usable"]
  <2>1. Contract!Approve(r)
    BY <1>2, <1>3, <1>4, <1>6 DEF Contract!Approve, status, target
  <2> QED BY <2>1 DEF Contract!Next
<1> QED BY <1>5, <1>6

\* Anything else that changes the subscription is a switch.
LEMMA SwitchStep ==
  ASSUME UNCHANGED request, sub' \in Sub
  PROVE  Contract!Next
<1>1. sub'.package \in Package /\ (sub'.state # "cancelled") \in BOOLEAN
  BY DEF Sub
<1>2. Contract!Switch(sub'.package, sub'.state # "cancelled")
  BY DEF Contract!Switch
<1> QED BY <1>1, <1>2 DEF Contract!Next

\* Every step of handlers that do not overlap is a step of the contract or changes nothing
\* of it: each request is opened once, alone, and decided once, and an approval switches the
\* package in the step that records it.
THEOREM ContractSafe == ASSUME ~Overlap PROVE Spec => KeepsContract
<1>1. Init => Contract!Init
  <2> SUFFICES ASSUME Init PROVE Contract!Init
    OBVIOUS
  <2>1. sub.package \in Package /\ (sub.state # "cancelled") \in BOOLEAN
    BY DEF Init
  <2>2. [r \in Requests |-> request[r].status] = [r \in Requests |-> "absent"]
    BY DEF Init
  <2>3. [r \in Requests |-> request[r].package] \in [Requests -> Package]
    BY NoJobType DEF Init
  <2> QED BY <2>1, <2>2, <2>3 DEF Contract!Init
<1>2. SerialInv /\ SerialInv' /\ [Next]_vars => [Contract!Next]_(Contract!vars)
  <2> SUFFICES ASSUME SerialInv, SerialInv', [Next]_vars
               PROVE  Contract!Next \/ UNCHANGED Contract!vars
    OBVIOUS
  <2>1. CASE UNCHANGED <<request, sub>>
    BY <2>1 DEF Contract!vars
  <2>2. sub' \in Sub
    BY DEF SerialInv, TypeInv, TypeOK
  <2>3. ASSUME NEW w \in Workers, Write(w) PROVE Contract!Next \/ UNCHANGED <<request, sub>>
    BY <2>2, <2>3, WriteEffect, SubmitStep, DecideStep, SwitchStep
    DEF WriteApprove, WriteChangePlan, WriteAdminSwitch, WriteAdminCreate, Decline, Grow,
        Decisions
  <2>4. ASSUME NEW state \in States, Lifecycle(state) PROVE Contract!Next
    BY <2>2, <2>4, SwitchStep DEF Lifecycle
  <2>5. ASSUME NEW p \in Package, Attach(p) PROVE Contract!Next
    BY <2>2, <2>5, SwitchStep DEF Attach
  <2> QED BY <2>1, <2>3, <2>4, <2>5, Writers DEF rows
<1> QED BY <1>1, <1>2, Serial, PTL DEF Spec, KeepsContract, Contract!Spec
===============================================================================
