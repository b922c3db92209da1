--------------------------- MODULE PackageRequests ---------------------------
(***************************************************************************)
(* The package (plan and billing cycle) of one organisation: the requests  *)
(* to change it that the Super Admin approves or rejects, the ways of      *)
(* switching without a request (the organisation's own changePlan, the     *)
(* Super Admin's PATCH and, where there is no subscription, POST), the     *)
(* plans that onboarding and approval attach, and the plan limits: a       *)
(* switch must fit what the organisation uses, and what it uses grows only *)
(* within the plan.                                                        *)
(*                                                                         *)
(* Every database call is one action, a transaction is one.  How a         *)
(* subscription lapses and ends is the subject of SubscriptionLifecycle;   *)
(* here it is usable (active, trial, past_due), lapsed (expired, paused)   *)
(* or cancelled, which also stands for an organisation that never had one. *)
(***************************************************************************)
EXTENDS Integers, FiniteSets

CONSTANTS
  Requests,  \* the ids request rows can get
  NoRequest,
  Workers,   \* handlers that may be in flight
  Plans,
  Basic,     \* the system plan: what an organisation without a usable one falls back to
  Offers,    \* what the Super Admin may set the limits of a plan to
  MaxUsage,  \* bound: an organisation stops growing here
  Overlap    \* may a handler begin while another one awaits?

Unlimited == -1
\* Two of the five limits, one for each way of finding the plan that binds:
\* projects (like users) go by the subscription whatever its status, landing pages
\* (like templates) by the subscription if usable, else by the Basic plan.
Keys      == {"projects", "pages"}
Limits    == [Keys -> Nat \cup {Unlimited}]
Package   == [plan : Plans, cycle : {"monthly", "yearly"}]
States    == {"usable", "lapsed", "cancelled"}
Decided   == {"approved", "rejected", "cancelled"}
Decisions == {"approve", "reject", "cancel"}
Adds      == {"addProject", "addPage"}
Ops       == Decisions \cup Adds \cup
             {"none", "submit", "changePlan", "adminSwitch", "adminCreate"}
Phases    == {"idle", "request", "sub", "pending", "plan", "basic", "count", "write"}

ASSUME RequestAssumption == NoRequest \notin Requests
ASSUME PlanAssumption    == Basic \in Plans
ASSUME OfferAssumption   == Offers \subseteq Limits
ASSUME BoundAssumption   == MaxUsage \in Nat /\ Overlap \in BOOLEAN

VARIABLES
  request, \* package_change_requests: status and target package
  sub,     \* the subscription: package and state
  usage,   \* how much of each limited thing the organisation has
  limits,  \* Plan.limits
  active,  \* Plan.isActive
  pc,      \* where each handler waits
  job      \* what each handler was asked to do, and what it has read

vars == <<request, sub, usage, limits, active, pc, job>>
rows == <<request, sub, usage, limits, active>>

Within(n, max) == max = Unlimited \/ n <= max

BasicMonthly == [plan |-> Basic, cycle |-> "monthly"]

\* keys: the limits still to be checked, for an organisation with add more of them;
\* limits and seen: a plan's limits and the subscription, as they were read.
Asked(op, r, p, keys, add) ==
  [op |-> op, request |-> r, package |-> p, keys |-> keys, add |-> add,
   limits |-> [k \in Keys |-> Unlimited],
   seen |-> [package |-> BasicMonthly, state |-> "cancelled"]]

NoJob == Asked("none", NoRequest, BasicMonthly, {}, 0)

Init ==
  /\ request = [r \in Requests |-> [status |-> "absent", package |-> BasicMonthly]]
  /\ sub \in [package : Package, state : States]
  /\ usage = [k \in Keys |-> 0]
  /\ limits \in [Plans -> Offers]
  /\ active = [p \in Plans |-> TRUE]
  /\ pc = [w \in Workers |-> "idle"]
  /\ job = [w \in Workers |-> NoJob]

Alone == Overlap \/ \A w \in Workers : pc[w] = "idle"
Free  == {r \in Requests : request[r].status = "absent"}

-----------------------------------------------------------------------------
(* Handlers begin.                                                         *)

Ready(w) == pc[w] = "idle" /\ Alone

Begin(w, j, phase) ==
  /\ job' = [job EXCEPT ![w] = j]
  /\ pc' = [pc EXCEPT ![w] = phase]
  /\ UNCHANGED rows

\* A cycle the body leaves out is the subscription's: one of the values p takes.
\* Bound: a submission begins only while an id is left for it.
Submit(w, p) ==
  /\ Ready(w)
  /\ Cardinality({v \in Workers : job[v].op = "submit"}) < Cardinality(Free)
  /\ Begin(w, Asked("submit", NoRequest, p, Keys, 0), "sub")

Decide(w, op, r) ==
  /\ Ready(w)
  /\ request[r].status # "absent"
  /\ Begin(w, Asked(op, r, BasicMonthly, Keys, 0), "request")

ChangePlan(w, p) == Ready(w) /\ Begin(w, Asked("changePlan", NoRequest, p, Keys, 0), "plan")

AdminSwitch(w, p) == Ready(w) /\ Begin(w, Asked("adminSwitch", NoRequest, p, Keys, 0), "sub")

AdminCreate(w, p) == Ready(w) /\ Begin(w, Asked("adminCreate", NoRequest, p, Keys, 0), "plan")

AddProject(w) ==
  /\ Ready(w) /\ usage["projects"] < MaxUsage
  /\ Begin(w, Asked("addProject", NoRequest, BasicMonthly, {"projects"}, 1), "sub")

AddPage(w) ==
  /\ Ready(w) /\ usage["pages"] < MaxUsage
  /\ Begin(w, Asked("addPage", NoRequest, BasicMonthly, {"pages"}, 1), "sub")

-----------------------------------------------------------------------------
(* Handlers read and check, in the order of their code.                    *)

\* Mutant: the limits were checked when the request was submitted, so not on approval.
After_TrustsSubmit(op, phase) ==
  CASE phase = "request" -> IF op = "approve" THEN "sub" ELSE "write"
    [] phase = "sub"     -> IF op = "submit" THEN "pending"
                            ELSE IF op \in Adds \cup {"adminCreate"} THEN "count" ELSE "write"
    [] phase = "pending" -> "plan"
    [] phase = "plan"    -> IF op = "adminCreate" THEN "sub" ELSE "count"
    [] OTHER -> IF op = "changePlan" THEN "sub" ELSE "write"

After(op, phase) ==
  CASE phase = "request" -> IF op = "approve" THEN "count" ELSE "write"
    [] phase = "sub"     -> IF op = "submit" THEN "pending"
                            ELSE IF op \in Adds \cup {"adminCreate"} THEN "count" ELSE "write"
    [] phase = "pending" -> "plan"
    [] phase = "plan"    -> IF op = "adminCreate" THEN "sub" ELSE "count"
    [] OTHER -> IF op \in {"approve", "changePlan"} THEN "sub" ELSE "write"

\* The handler goes on in that phase, holding j.
GoOn(w, phase, j) ==
  /\ pc' = [pc EXCEPT ![w] = phase]
  /\ job' = [job EXCEPT ![w] = j]
  /\ UNCHANGED rows

Finish(w) ==
  /\ pc' = [pc EXCEPT ![w] = "idle"]
  /\ job' = [job EXCEPT ![w] = NoJob]

\* An answer of 400, 404 or 409 (the only way on for a handler whose check fails), a
\* failed database call, or a restart of the process.
Refuse(w) ==
  /\ pc[w] # "idle"
  /\ Finish(w)
  /\ UNCHANGED rows

\* Mutant: any request can be decided.
ReadRequest_Any(w) ==
  LET r == request[job[w].request] IN
  /\ pc[w] = "request"
  /\ GoOn(w, After(job[w].op, "request"),
          [job[w] EXCEPT !.package = r.package, !.limits = limits[r.package.plan]])

\* Cancel, approve and reject: the row, with its target plan, must be pending.
ReadRequest(w) ==
  LET r == request[job[w].request] IN
  /\ pc[w] = "request"
  /\ r.status = "pending"
  /\ GoOn(w, After(job[w].op, "request"),
          [job[w] EXCEPT !.package = r.package, !.limits = limits[r.package.plan]])

\* Mutant: a lapsed subscription still counts for landing pages.
FallsBack_Lapsed(op, state) == op = "addPage" /\ state = "cancelled"

FallsBack(op, state) == op = "addPage" /\ state # "usable"

\* A PATCH that keeps the plan checks nothing, nor does a project without a subscription.
Unchecked(j) ==
  \/ j.op = "adminSwitch" /\ j.package.plan = sub.package.plan
  \/ j.op = "addProject" /\ sub.state = "cancelled"

ReadSub(w) ==
  LET j  == job[w]
      on == IF Unchecked(j) THEN "write"
            ELSE IF FallsBack(j.op, sub.state) THEN "basic"
            ELSE IF j.op = "adminSwitch" THEN "plan" ELSE After(j.op, "sub")
  IN  /\ pc[w] = "sub"
      /\ j.op = "submit" => sub.state # "cancelled"
      /\ j.op = "adminCreate" => sub.state = "cancelled"
      /\ GoOn(w, on, [j EXCEPT !.seen = sub,
                               !.limits = IF j.op \in Adds THEN limits[sub.package.plan] ELSE @])

\* Mutant: an open request does not stand in the way of another.
ReadPending_Ignored(w) ==
  /\ pc[w] = "pending"
  /\ GoOn(w, After(job[w].op, "pending"), job[w])

ReadPending(w) ==
  /\ pc[w] = "pending"
  /\ \A r \in Requests : request[r].status # "pending"
  /\ GoOn(w, After(job[w].op, "pending"), job[w])

ReadPlan(w) ==
  LET j == job[w] IN
  /\ pc[w] = "plan"
  /\ active[j.package.plan]
  /\ ~(j.op = "submit" /\ j.package = j.seen.package)
  /\ GoOn(w, After(j.op, "plan"), [j EXCEPT !.limits = limits[j.package.plan]])

ReadBasic(w) ==
  /\ pc[w] = "basic"
  /\ GoOn(w, "count", [job[w] EXCEPT !.limits = limits[Basic]])

\* Each limit is counted by a query of its own, in any order.
Count(w, k) ==
  LET j    == job[w]
      left == j.keys \ {k}
  IN  /\ pc[w] = "count"
      /\ k \in j.keys
      /\ Within(usage[k] + j.add, j.limits[k])
      /\ GoOn(w, IF left = {} THEN After(j.op, "count") ELSE "count", [j EXCEPT !.keys = left])

-----------------------------------------------------------------------------
(* Handlers write.  An update names its row by the id alone.               *)

Writes(w, op) ==
  /\ pc[w] = "write" /\ job[w].op = op
  /\ Finish(w)
  /\ UNCHANGED <<limits, active>>

WriteSubmit(w) ==
  /\ Writes(w, "submit")
  /\ \E r \in Free : request' = [request EXCEPT ![r] =
                                   [status |-> "pending", package |-> job[w].package]]
  /\ UNCHANGED <<sub, usage>>

\* Mutant: what is stored is the name of the operation, not the status it leads to.
Decline_Verb(w, op, verdict) ==
  /\ Writes(w, op)
  /\ request' = [request EXCEPT ![job[w].request].status = op]
  /\ UNCHANGED <<sub, usage>>

Decline(w, op, verdict) ==
  /\ Writes(w, op)
  /\ request' = [request EXCEPT ![job[w].request].status = verdict]
  /\ UNCHANGED <<sub, usage>>

\* Mutant: the decision is recorded and the subscription left as it is.
WriteApprove_StatusOnly(w) ==
  /\ Writes(w, "approve")
  /\ request' = [request EXCEPT ![job[w].request].status = "approved"]
  /\ UNCHANGED <<sub, usage>>

\* One transaction; the subscription is updated, or created when none was seen.
WriteApprove(w) ==
  /\ Writes(w, "approve")
  /\ request' = [request EXCEPT ![job[w].request].status = "approved"]
  /\ sub' = [package |-> job[w].package, state |-> "usable"]
  /\ UNCHANGED usage

\* A subscription seen lapsed comes back to life, a missing one is created.
WriteChangePlan(w) ==
  /\ Writes(w, "changePlan")
  /\ sub' = [package |-> job[w].package,
             state   |-> IF job[w].seen.state = "usable" THEN sub.state ELSE "usable"]
  /\ UNCHANGED <<request, usage>>

WriteAdminSwitch(w) ==
  /\ Writes(w, "adminSwitch")
  /\ sub' = [sub EXCEPT !.package = job[w].package]
  /\ UNCHANGED <<request, usage>>

\* In whatever status the Super Admin names.
WriteAdminCreate(w) ==
  /\ Writes(w, "adminCreate")
  /\ \E state \in States : sub' = [package |-> job[w].package, state |-> state]
  /\ UNCHANGED <<request, usage>>

Grow(w, op, k) ==
  /\ Writes(w, op)
  /\ usage' = [usage EXCEPT ![k] = @ + 1]
  /\ UNCHANGED <<request, sub>>

-----------------------------------------------------------------------------
(* The surroundings: single writes.                                        *)

\* A subscription lapses, ends or is revived in place: its package stays.
Lifecycle(state) ==
  /\ Alone
  /\ sub' = [sub EXCEPT !.state = state]
  /\ UNCHANGED <<request, usage, limits, active, pc, job>>

\* An organisation without a subscription gets one, of the Basic plan when the last step of
\* its onboarding is submitted (again), or of the plan that the Super Admin names when
\* approving it.  Nobody looks at what it uses.
Attach(p) ==
  /\ Alone
  /\ sub.state = "cancelled"
  /\ active[p.plan]
  /\ sub' = [package |-> p, state |-> "usable"]
  /\ UNCHANGED <<request, usage, limits, active, pc, job>>

\* The Super Admin edits a plan; the system plan cannot be deactivated.
EditPlan(p, offer, on) ==
  /\ Alone
  /\ p = Basic => on
  /\ limits' = [limits EXCEPT ![p] = offer]
  /\ active' = [active EXCEPT ![p] = on]
  /\ UNCHANGED <<request, sub, usage, pc, job>>

\* A project or a page is deleted.
Shrink(k) ==
  /\ Alone
  /\ usage[k] > 0
  /\ usage' = [usage EXCEPT ![k] = @ - 1]
  /\ UNCHANGED <<request, sub, limits, active, pc, job>>

Arrive(w) ==
  \/ \E p \in Package : Submit(w, p) \/ ChangePlan(w, p) \/ AdminSwitch(w, p)
                          \/ AdminCreate(w, p)
  \/ \E op \in Decisions, r \in Requests : Decide(w, op, r)
  \/ AddProject(w) \/ AddPage(w)

Check(w) ==
  \/ ReadRequest(w) \/ ReadSub(w) \/ ReadPending(w) \/ ReadPlan(w) \/ ReadBasic(w)
  \/ \E k \in Keys : Count(w, k)

Write(w) ==
  \/ WriteSubmit(w) \/ WriteApprove(w) \/ WriteChangePlan(w) \/ WriteAdminSwitch(w)
  \/ WriteAdminCreate(w)
  \/ Decline(w, "reject", "rejected") \/ Decline(w, "cancel", "cancelled")
  \/ Grow(w, "addProject", "projects") \/ Grow(w, "addPage", "pages")

Next ==
  \/ \E w \in Workers : Arrive(w) \/ Check(w) \/ Write(w) \/ Refuse(w)
  \/ \E state \in States : Lifecycle(state)
  \/ \E p \in Package : Attach(p)
  \/ \E p \in Plans, offer \in Offers, on \in BOOLEAN : EditPlan(p, offer, on)
  \/ \E k \in Keys : Shrink(k)

Spec == Init /\ [][Next]_vars

-----------------------------------------------------------------------------
(* What the code promises.                                                 *)

Sub == [package : Package, state : States]
Job == [op : Ops, request : Requests \cup {NoRequest}, package : Package,
        keys : SUBSET Keys, add : {0, 1}, limits : Limits, seen : Sub]

\* Type invariant: rows, usage and the locals of every handler hold values of their types.
TypeOK ==
  /\ request \in [Requests -> [status : Decided \cup {"absent", "pending"}, package : Package]]
  /\ sub \in Sub
  /\ usage \in [Keys -> Nat]
  /\ limits \in [Plans -> Limits]
  /\ active \in [Plans -> BOOLEAN]
  /\ pc \in [Workers -> Phases]
  /\ job \in [Workers -> Job]

\* "Your organisation already has a pending package change request": submission refuses a
\* second one, so an organisation never has two open requests.
AtMostOnePending ==
  \A q, r \in Requests :
    request[q].status = "pending" /\ request[r].status = "pending" => q = r

\* "Request is no longer pending approval" and "Only pending package change requests can
\* be cancelled": a decided request keeps its decision, whoever else decides on it.
DecidedIsFinal ==
  [][\A r \in Requests :
       request[r].status \in Decided => request'[r].status = request[r].status]_vars

\* "Reject switching an org onto a plan when the org is already using more than that plan
\* would allow for any limit": whichever handler switches the plan, and whatever was added,
\* or the Super Admin edited, since the request was submitted.  Outside the handlers the plan
\* changes only where there is no subscription (Attach).
SwitchFitsUsage ==
  [][sub'.package.plan # sub.package.plan =>
       \/ \A k \in Keys : Within(usage[k], limits[sub'.package.plan][k])
       \/ sub.state = "cancelled" /\ \A w \in Workers : pc[w] = "idle"]_vars

\* The limit that binds now: that of the organisation's plan, or of the Basic plan.
Bound(k) ==
  IF sub.state = "usable" THEN limits[sub.package.plan][k]
  ELSE IF k = "pages" THEN limits[Basic][k]
  ELSE IF sub.state = "lapsed" THEN limits[sub.package.plan][k] ELSE Unlimited

\* "Assert that adding addCount more of key keeps the org within the plan": nothing is
\* added beyond the limit that binds at that moment, also after a lapse or a downgrade.
GrowthWithinLimit ==
  [][\A k \in Keys : usage'[k] > usage[k] => Within(usage'[k], Bound(k))]_vars

-----------------------------------------------------------------------------
(* The requests implement their contract.                                  *)

Contract == INSTANCE PackageRequestContract WITH
  Packages   <- Package,
  status     <- [r \in Requests |-> request[r].status],
  target     <- [r \in Requests |-> request[r].package],
  package    <- sub.package,
  subscribed <- sub.state # "cancelled"

\* Run one at a time, the handlers keep the contract: one open request, each decided once,
\* approval and switch in one step.
KeepsContract == Contract!Spec

=============================================================================
