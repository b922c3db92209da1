------------------------ MODULE SubscriptionLifecycle ------------------------
(***************************************************************************)
(* The subscriptions of one organisation: the sweep that applies the       *)
(* expiry rules (the hourly timer, and lazily at the head of most billing  *)
(* reads), the requests that renew, switch, create, edit and cancel a      *)
(* subscription, and the notices the sweep raises.                         *)
(*                                                                         *)
(* Every database call is one action.  The server is one Node process, so  *)
(* other requests run exactly where a handler awaits the database; with    *)
(* Overlap = FALSE a handler runs to its end before the next one begins    *)
(* (time still passes, members still read their notices), which is what    *)
(* the comments of the code assume.  Dates are days, NoDate is SQL NULL.   *)
(***************************************************************************)
EXTENDS Integers, FiniteSets

CONSTANTS
  Subs,          \* the ids subscription rows can get
  NoSub,         \* "no row found"
  Requests,      \* request handlers that may be in flight
  Timer,         \* the hourly sweeper: it only sweeps
  Members,       \* the active users of the organisation
  Configs,       \* expiry policies the Super Admin may set at any time
  DefaultConfig, \* the policy used when none can be read
  MonthlyTerm,   \* 30 days
  YearlyTerm,    \* 365 days
  CreateDtos,    \* bodies of POST /admin/subscriptions
  UpdateDtos,    \* bodies of PATCH /admin/subscriptions/:id
  Horizon,       \* bound: the clock stops here
  MaxFaults,     \* bound: failed database calls and process restarts
  Overlap        \* may a handler begin while another one awaits?

NoDate   == -1
Dates    == Nat \cup {NoDate}
Workers  == Requests \cup {Timer}
Cycles   == {"monthly", "yearly"}
Statuses == {"active", "past_due", "trial", "cancelled", "paused", "expired"}
Kinds    == {"past_due", "expiring", "expired"}
Ops      == {"none", "sweep", "orgRenew", "renew", "adminRenew", "changePlan", "create",
             "update", "approve", "attach"}
Phases   == {"idle", "sweep", "read", "rows", "count", "deliver", "lookup",
             "find", "write"}

Config == [grace : Nat, notify : Nat, behavior : {"restrict", "cancel"}]
\* SubscriptionStatusDto has no "expired".
Dto    == [status : (Statuses \ {"expired"}) \cup {"keep"}, cycle : Cycles \cup {"keep"},
           renewsAt : Dates, replan : BOOLEAN]

ASSUME SubsAssumption    == NoSub \notin Subs
ASSUME WorkerAssumption  == Timer \notin Requests
ASSUME ConfigAssumption  == Configs \subseteq Config /\ DefaultConfig \in Config
ASSUME TermAssumption    == MonthlyTerm \in Nat /\ YearlyTerm \in Nat
ASSUME DtoAssumption     == /\ CreateDtos \subseteq Dto /\ UpdateDtos \subseteq Dto
                            /\ \A d \in CreateDtos : d.status # "keep" /\ d.cycle # "keep"
ASSUME BoundAssumption   == Horizon \in Nat /\ MaxFaults \in Nat /\ Overlap \in BOOLEAN

VARIABLES
  now,     \* the clock
  sub,     \* the subscriptions table
  unread,  \* unread notifications: per row, kind and recipient
  pc,      \* where each handler waits
  req,     \* what each handler was asked to do
  sweep,   \* what the sweep of each handler holds in memory
  found,   \* the row each handler has read, as it was then
  faults

vars == <<now, sub, unread, pc, req, sweep, found, faults>>

Row == [status : Statuses \cup {"absent"}, cycle : Cycles, renewsAt : Nat,
        graceEndsAt : Dates]

Term(cycle) == IF cycle = "yearly" THEN YearlyTerm ELSE MonthlyTerm

NoDto   == [status |-> "keep", cycle |-> "keep", renewsAt |-> NoDate, replan |-> FALSE]
Absent  == [status |-> "absent", cycle |-> "monthly", renewsAt |-> 0, graceEndsAt |-> NoDate]
NoRow   == [id |-> NoSub, status |-> "absent", cycle |-> "monthly"]
NoSweep == [cfg |-> DefaultConfig, at |-> 0, todo |-> {}, id |-> NoSub, kind |-> "expired"]

Asked(op, target, dto, at) == [op |-> op, target |-> target, dto |-> dto, at |-> at]
NoReq    == Asked("none", NoSub, NoDto, 0)
SweepReq == Asked("sweep", NoSub, NoDto, 0)
RenewReq == Asked("renew", NoSub, NoDto, 0)
OrgRenewReq == Asked("orgRenew", NoSub, NoDto, 0)

Live(s)   == sub[s].status \notin {"absent", "cancelled"}
Free      == {s \in Subs : sub[s].status = "absent"}

(***************************************************************************)
(* The process has just booted: onApplicationBootstrap runs a sweep.       *)
(***************************************************************************)
Init ==
  /\ now = 0
  /\ sub = [s \in Subs |-> Absent]
  /\ unread = [s \in Subs |-> [k \in Kinds |-> [m \in Members |-> 0]]]
  /\ pc = [w \in Workers |-> IF w = Timer THEN "sweep" ELSE "idle"]
  /\ req = [w \in Workers |-> IF w = Timer THEN SweepReq ELSE NoReq]
  /\ sweep = [w \in Workers |-> NoSweep]
  /\ found = [w \in Workers |-> NoRow]
  /\ faults = 0

-----------------------------------------------------------------------------
(* Requests begin.                                                         *)

AllIdle == \A w \in Workers : pc[w] = "idle"

Begin(w, r, phase) ==
  /\ pc[w] = "idle"
  /\ Overlap \/ AllIdle
  /\ req' = [req EXCEPT ![w] = r]
  /\ pc' = [pc EXCEPT ![w] = phase]
  /\ UNCHANGED <<now, sub, unread, sweep, found, faults>>

Creators == {"changePlan", "create", "approve", "attach"}

\* Bound: a handler that may insert a row begins only while an id is left for it.
RoomToCreate == Cardinality({w \in Workers : req[w].op \in Creators}) < Cardinality(Free)

CycleDto(c) == [status |-> "active", cycle |-> c, renewsAt |-> NoDate, replan |-> TRUE]

\* The timer's tick, and every read that sweeps first.
BeginSweep(w) == Begin(w, SweepReq, "sweep")

\* The org renews: the service sweeps, then renewOrgSubscription sweeps again.
BeginRenew(w) == Begin(w, OrgRenewReq, "sweep")

BeginAdminRenew(w, s) ==
  /\ sub[s].status # "absent"
  /\ Begin(w, Asked("adminRenew", s, NoDto, 0), "lookup")

BeginUpdate(w, s, dto) ==
  /\ sub[s].status # "absent"
  /\ Begin(w, Asked("update", s, dto, 0), "lookup")

BeginCreate(w, dto) ==
  RoomToCreate /\ Begin(w, Asked("create", NoSub, dto, 0), "find")

BeginChangePlan(w, c) ==
  RoomToCreate /\ Begin(w, Asked("changePlan", NoSub, CycleDto(c), 0), "find")

\* Approving a package change computes the new renewsAt before it looks for the row.
BeginApprove(w, c) ==
  RoomToCreate /\ Begin(w, Asked("approve", NoSub, CycleDto(c), now), "find")

\* The end of onboarding attaches the Basic plan, the approval of a pending organisation
\* (and the activation of a draft, which has no row yet) the plan the admin chose.
BeginAttach(w, c) ==
  RoomToCreate /\ Begin(w, Asked("attach", NoSub, CycleDto(c), 0), "find")

-----------------------------------------------------------------------------
(* The sweep.  It decides on the rows as it read them, at the time and     *)
(* under the policy it read before them; only the decisions are kept.      *)

InTerm(r) == r.status \in {"active", "trial"}

\* Mutants of Verdict: the notify window lapses a term; a missing grace date counts as
\* long past; the status filter is lost; trials never lapse; restrict is ignored.
Verdict_Early(r, cfg, at) ==
  IF InTerm(r) /\ r.renewsAt <= at + cfg.notify THEN "lapse"
  ELSE IF r.status = "past_due" /\ r.graceEndsAt # NoDate /\ r.graceEndsAt <= at THEN "end"
  ELSE "none"
Verdict_NullGrace(r, cfg, at) ==
  IF InTerm(r) /\ r.renewsAt <= at THEN "lapse"
  ELSE IF r.status = "past_due" /\ r.graceEndsAt <= at THEN "end" ELSE "none"
Verdict_AnyStatus(r, cfg, at) ==
  IF InTerm(r) /\ r.renewsAt <= at THEN "lapse"
  ELSE IF r.graceEndsAt # NoDate /\ r.graceEndsAt <= at THEN "end" ELSE "none"
Verdict_NoTrials(r, cfg, at) ==
  IF r.status = "active" /\ r.renewsAt <= at THEN "lapse"
  ELSE IF r.status = "past_due" /\ r.graceEndsAt # NoDate /\ r.graceEndsAt <= at THEN "end"
  ELSE "none"
Verdict_OnlyCancel(r, cfg, at) ==
  IF InTerm(r) /\ r.renewsAt <= at THEN "lapse"
  ELSE IF /\ cfg.behavior = "cancel" /\ r.status = "past_due"
          /\ r.graceEndsAt # NoDate /\ r.graceEndsAt <= at THEN "end" ELSE "none"

Verdict(r, cfg, at) ==
  CASE InTerm(r) /\ r.renewsAt <= at -> "lapse"
    [] InTerm(r) /\ r.renewsAt > at /\ r.renewsAt <= at + cfg.notify -> "remind"
    [] r.status = "past_due" /\ r.graceEndsAt # NoDate /\ r.graceEndsAt <= at -> "end"
    [] OTHER -> "none"

Decision(s, cfg, at) ==
  [id |-> s, does |-> Verdict(sub[s], cfg, at), graceEndsAt |-> sub[s].renewsAt + cfg.grace]

\* The policy is read, then the clock.
SweepStart(w) ==
  /\ pc[w] = "sweep"
  /\ \E cfg \in Configs \cup {DefaultConfig} :
       sweep' = [sweep EXCEPT ![w].cfg = cfg, ![w].at = now]
  /\ pc' = [pc EXCEPT ![w] = "read"]
  /\ UNCHANGED <<now, sub, unread, req, found, faults>>

SweepRead(w) ==
  /\ pc[w] = "read"
  /\ sweep' = [sweep EXCEPT ![w].todo =
       {d \in {Decision(s, sweep[w].cfg, sweep[w].at) : s \in Subs} : d.does # "none"}]
  /\ pc' = [pc EXCEPT ![w] = "rows"]
  /\ UNCHANGED <<now, sub, unread, req, found, faults>>

\* Row d of the loop is taken up; its notice comes next.
TakeRow(w, d, does, kind) ==
  /\ pc[w] = "rows"
  /\ d \in sweep[w].todo
  /\ d.does = does
  /\ sweep' = [sweep EXCEPT ![w].todo = @ \ {d}, ![w].id = d.id, ![w].kind = kind]
  /\ pc' = [pc EXCEPT ![w] = "count"]
  /\ UNCHANGED <<now, unread, req, found, faults>>

\* The writes name the row by its id alone: whatever it holds by now is overwritten.
Lapse(w, d) ==
  /\ TakeRow(w, d, "lapse", "past_due")
  /\ sub' = [sub EXCEPT ![d.id].status = "past_due", ![d.id].graceEndsAt = d.graceEndsAt]

Remind(w, d) == TakeRow(w, d, "remind", "expiring") /\ UNCHANGED sub

EndGrace(w, d) ==
  /\ TakeRow(w, d, "end", "expired")
  /\ sub' = [sub EXCEPT ![d.id].status =
               IF sweep[w].cfg.behavior = "cancel" THEN "cancelled" ELSE "expired"]

\* Mutant: the count of unread notices is ignored.
CountUnread_Ignored(w) ==
  /\ pc[w] = "count"
  /\ pc' = [pc EXCEPT ![w] = "deliver"]
  /\ UNCHANGED <<now, sub, unread, req, sweep, found, faults>>

\* ensureOrgNotified: nobody is told again while somebody has not read the last one.
CountUnread(w) ==
  /\ pc[w] = "count"
  /\ pc' = [pc EXCEPT ![w] =
       IF \A m \in Members : unread[sweep[w].id][sweep[w].kind][m] = 0
       THEN "deliver" ELSE "rows"]
  /\ UNCHANGED <<now, sub, unread, req, sweep, found, faults>>

Deliver(w) ==
  /\ pc[w] = "deliver"
  /\ unread' = [unread EXCEPT ![sweep[w].id][sweep[w].kind] =
       [m \in Members |-> unread[sweep[w].id][sweep[w].kind][m] + 1]]
  /\ pc' = [pc EXCEPT ![w] = "rows"]
  /\ UNCHANGED <<now, sub, req, sweep, found, faults>>

\* Where the handler goes once its sweep has returned, normally or not.
LeaveSweep(w) ==
  /\ sweep' = [sweep EXCEPT ![w] = NoSweep]
  /\ CASE req[w].op = "sweep"    -> /\ pc' = [pc EXCEPT ![w] = "idle"]
                                    /\ req' = [req EXCEPT ![w] = NoReq]
       [] req[w].op = "orgRenew" -> /\ pc' = [pc EXCEPT ![w] = "sweep"]
                                    /\ req' = [req EXCEPT ![w] = RenewReq]
       [] OTHER                  -> /\ pc' = [pc EXCEPT ![w] = "find"]
                                    /\ UNCHANGED req

SweepDone(w) ==
  /\ pc[w] = "rows" /\ sweep[w].todo = {}
  /\ LeaveSweep(w)
  /\ UNCHANGED <<now, sub, unread, found, faults>>

-----------------------------------------------------------------------------
(* The handlers' own reads and writes.                                     *)

Seen(s) == [id |-> s, status |-> sub[s].status, cycle |-> sub[s].cycle]

Finish(w) ==
  /\ pc' = [pc EXCEPT ![w] = "idle"]
  /\ req' = [req EXCEPT ![w] = NoReq]
  /\ found' = [found EXCEPT ![w] = NoRow]

\* findUnique by id: an admin renews a cancelled row in place, any other by the org's route.
Lookup(w) ==
  /\ pc[w] = "lookup"
  /\ IF req[w].op = "adminRenew" /\ sub[req[w].target].status # "cancelled"
     THEN /\ pc' = [pc EXCEPT ![w] = "sweep"]
          /\ UNCHANGED found
     ELSE /\ pc' = [pc EXCEPT ![w] = "write"]
          /\ found' = [found EXCEPT ![w] = Seen(req[w].target)]
  /\ UNCHANGED <<now, sub, unread, req, sweep, faults>>

\* findFirst of a row that is not cancelled.  create() and attach stop
\* when there is one, so they never get as far as a write.
Find(w) ==
  /\ pc[w] = "find"
  /\ req[w].op \notin {"create", "attach"}
  /\ \E s \in Subs : Live(s) /\ found' = [found EXCEPT ![w] = Seen(s)]
  /\ pc' = [pc EXCEPT ![w] = "write"]
  /\ UNCHANGED <<now, sub, unread, req, sweep, faults>>

\* Mutant: the check for an existing row is dropped.
FindNone_Unchecked(w) ==
  /\ pc[w] = "find" /\ req[w].op \in Creators
  /\ found' = [found EXCEPT ![w] = NoRow]
  /\ pc' = [pc EXCEPT ![w] = "write"]
  /\ UNCHANGED <<now, sub, unread, req, sweep, faults>>

FindNone(w) ==
  /\ pc[w] = "find"
  /\ req[w].op \in Creators
  /\ \A s \in Subs : ~Live(s)
  /\ found' = [found EXCEPT ![w] = NoRow]
  /\ pc' = [pc EXCEPT ![w] = "write"]
  /\ UNCHANGED <<now, sub, unread, req, sweep, faults>>

\* 409 from create(), nothing to attach, or 400 "No active subscription to renew".
Refuse(w) ==
  /\ pc[w] = "find"
  /\ \/ req[w].op \in {"create", "attach"} /\ \E s \in Subs : Live(s)
     \/ req[w].op \notin Creators /\ \A s \in Subs : ~Live(s)
  /\ Finish(w)
  /\ UNCHANGED <<now, sub, unread, sweep, faults>>

Write(w, op, s, row) ==
  /\ pc[w] = "write" /\ req[w].op = op
  /\ sub' = [sub EXCEPT ![s] = row]
  /\ Finish(w)
  /\ UNCHANGED <<now, unread, sweep, faults>>

\* Mutant: the old grace date survives.
Activated_KeepsGrace(s, cycle, renewsAt) ==
  [sub[s] EXCEPT !.status = "active", !.cycle = cycle, !.renewsAt = renewsAt]

Activated(s, cycle, renewsAt) ==
  [sub[s] EXCEPT !.status = "active", !.cycle = cycle, !.renewsAt = renewsAt,
                 !.graceEndsAt = NoDate]

\* Mutant: the new term is added to what is left of the old one.
WriteRenew_Extends(w) ==
  LET s == found[w].id IN
  \E op \in {"renew", "adminRenew"} :
    Write(w, op, s, Activated(s, sub[s].cycle, sub[s].renewsAt + Term(found[w].cycle)))

\* The billing cycle is the one read before the write; the column itself is not written.
WriteRenew(w) ==
  LET s == found[w].id IN
  \E op \in {"renew", "adminRenew"} :
    Write(w, op, s, Activated(s, sub[s].cycle, now + Term(found[w].cycle)))

\* changePlan revives a row it read as expired or paused; otherwise only plan and cycle move.
WriteChangePlan(w) ==
  LET s == found[w].id
      c == req[w].dto.cycle
  IN  /\ s # NoSub
      /\ Write(w, "changePlan", s,
               IF found[w].status \in {"expired", "paused"}
               THEN Activated(s, c, now + Term(c))
               ELSE [sub[s] EXCEPT !.cycle = c])

WriteApprove(w) ==
  LET s == found[w].id
      c == req[w].dto.cycle
  IN  /\ s # NoSub
      /\ Write(w, "approve", s, Activated(s, c, req[w].at + Term(c)))

\* Mutant: a date the body leaves out is written all the same.
WriteUpdate_NoDate(w) ==
  LET s == found[w].id IN
  Write(w, "update", s, [sub[s] EXCEPT !.renewsAt = req[w].dto.renewsAt])

\* A PATCH writes what it names; a plan alone writes back the cycle read before.
WriteUpdate(w) ==
  LET s   == found[w].id
      dto == req[w].dto
      new == [status      |-> IF dto.status = "keep" THEN sub[s].status ELSE dto.status,
              cycle       |-> IF dto.cycle # "keep" THEN dto.cycle
                              ELSE IF dto.replan THEN found[w].cycle ELSE sub[s].cycle,
              renewsAt    |-> IF dto.renewsAt = NoDate THEN sub[s].renewsAt ELSE dto.renewsAt,
              graceEndsAt |-> IF dto.status \in {"keep", "past_due"}
                              THEN sub[s].graceEndsAt ELSE NoDate]
  IN  Write(w, "update", s, new)

\* The term of a new row: given, or counted from now; an approval counted it earlier.
FirstTermEnd(r) ==
  IF r.dto.renewsAt # NoDate THEN r.dto.renewsAt
  ELSE (IF r.op = "approve" THEN r.at ELSE now) + Term(r.dto.cycle)

WriteCreate(w) ==
  /\ found[w].id = NoSub
  /\ \E s \in Free, op \in Creators :
       Write(w, op, s, [status |-> req[w].dto.status, cycle |-> req[w].dto.cycle,
                        renewsAt |-> FirstTermEnd(req[w]), graceEndsAt |-> NoDate])

\* DELETE is a soft cancel: one write that depends on nothing read.
AdminCancel(s) ==
  /\ sub[s].status # "absent"
  /\ Overlap \/ AllIdle
  /\ sub' = [sub EXCEPT ![s].status = "cancelled", ![s].graceEndsAt = NoDate]
  /\ UNCHANGED <<now, unread, pc, req, sweep, found, faults>>

-----------------------------------------------------------------------------
(* The surroundings.                                                       *)

MarkRead(m, s, k) ==
  /\ unread[s][k][m] > 0
  /\ unread' = [unread EXCEPT ![s][k][m] = @ - 1]
  /\ UNCHANGED <<now, sub, pc, req, sweep, found, faults>>

Tick ==
  /\ now < Horizon
  /\ now' = now + 1
  /\ UNCHANGED <<sub, unread, pc, req, sweep, found, faults>>

\* A database call fails.  A sweep swallows the error and returns; a handler answers 500.
FailSweep(w) ==
  /\ faults < MaxFaults
  /\ pc[w] \in {"read", "rows", "count", "deliver"}
  /\ faults' = faults + 1
  /\ LeaveSweep(w)
  /\ UNCHANGED <<now, sub, unread, found>>

FailRequest(w) ==
  /\ faults < MaxFaults
  /\ pc[w] \in {"lookup", "find", "write"}
  /\ faults' = faults + 1
  /\ Finish(w)
  /\ UNCHANGED <<now, sub, unread, sweep>>

\* The process restarts: handlers are lost, the boot sweep begins.
Restart ==
  /\ faults < MaxFaults
  /\ faults' = faults + 1
  /\ pc' = [w \in Workers |-> IF w = Timer THEN "sweep" ELSE "idle"]
  /\ req' = [w \in Workers |-> IF w = Timer THEN SweepReq ELSE NoReq]
  /\ sweep' = [w \in Workers |-> NoSweep]
  /\ found' = [w \in Workers |-> NoRow]
  /\ UNCHANGED <<now, sub, unread>>

SweepStep(w) ==
  \/ SweepStart(w) \/ SweepRead(w) \/ CountUnread(w) \/ Deliver(w) \/ SweepDone(w)
  \/ \E d \in sweep[w].todo : Lapse(w, d) \/ Remind(w, d) \/ EndGrace(w, d)

HandlerStep(w) ==
  \/ Lookup(w) \/ Find(w) \/ FindNone(w) \/ Refuse(w)
  \/ WriteRenew(w) \/ WriteChangePlan(w) \/ WriteApprove(w) \/ WriteUpdate(w) \/ WriteCreate(w)

Arrive(w) ==
  \/ BeginRenew(w)
  \/ \E s \in Subs : BeginAdminRenew(w, s) \/ \E dto \in UpdateDtos : BeginUpdate(w, s, dto)
  \/ \E dto \in CreateDtos : BeginCreate(w, dto)
  \/ \E c \in Cycles : BeginChangePlan(w, c) \/ BeginApprove(w, c) \/ BeginAttach(w, c)

Next ==
  \/ \E w \in Workers : BeginSweep(w) \/ SweepStep(w) \/ FailSweep(w)
  \/ \E w \in Requests : Arrive(w) \/ HandlerStep(w) \/ FailRequest(w)
  \/ \E s \in Subs : AdminCancel(s)
  \/ \E m \in Members, s \in Subs, k \in Kinds : MarkRead(m, s, k)
  \/ Tick
  \/ Restart

Spec == Init /\ [][Next]_vars

(***************************************************************************)
(* Fairness: time passes, every database call is answered, and the timer   *)
(* fires again after each sweep.  Nothing is assumed of users.             *)
(***************************************************************************)
Fairness ==
  /\ WF_vars(Tick)
  /\ WF_vars(BeginSweep(Timer))
  /\ \A w \in Workers : WF_vars(SweepStep(w))
  /\ \A w \in Requests : WF_vars(HandlerStep(w))

FairSpec == Spec /\ Fairness

-----------------------------------------------------------------------------
(* What the code promises.                                                 *)

Sweep == [cfg : Config, at : Nat, id : Subs \cup {NoSub}, kind : Kinds,
          todo : SUBSET [id : Subs, does : {"lapse", "remind", "end"}, graceEndsAt : Nat]]
Req   == [op : Ops, target : Subs \cup {NoSub}, dto : Dto, at : Nat]
Found == [id : Subs \cup {NoSub}, status : Statuses \cup {"absent"}, cycle : Cycles]

\* Type invariant: every column and every local of a handler holds a value of its type.
TypeOK ==
  /\ now \in Nat
  /\ sub \in [Subs -> Row]
  /\ unread \in [Subs -> [Kinds -> [Members -> Nat]]]
  /\ pc \in [Workers -> Phases]
  /\ req \in [Workers -> Req]
  /\ sweep \in [Workers -> Sweep]
  /\ found \in [Workers -> Found]
  /\ faults \in Nat

\* schema.prisma on graceEndsAt: "Set on the active/trial -> past_due transition and
\* cleared on renewal".  No interleaving of sweeps, renewals, plan changes and edits leaves
\* a grace date on a row that is running or paused, where the next lapse would inherit it.
GraceOnlyAfterLapse ==
  \A s \in Subs :
    sub[s].status \in {"absent", "active", "trial", "paused"} => sub[s].graceEndsAt = NoDate

\* A row enters its grace window (a new grace date appears) only when its term is over by
\* then: a renewal that came first is never followed by the lapse of the old term.
LapseOnlyAtTermEnd ==
  [][\A s \in Subs :
       (sub'[s].graceEndsAt # sub[s].graceEndsAt /\ sub'[s].graceEndsAt # NoDate)
         => InTerm(sub[s]) /\ sub[s].renewsAt <= now]_vars

\* A subscription becomes expired only from past_due and only when its own grace date has
\* come: a row renewed, switched or edited in the meantime is not expired.
ExpiryOnlyAfterGrace ==
  [][\A s \in Subs :
       (sub'[s].status = "expired" /\ sub[s].status # "expired")
         => /\ sub[s].status = "past_due"
            /\ sub[s].graceEndsAt # NoDate /\ sub[s].graceEndsAt <= now]_vars

\* "Run one pass of the lifecycle over every non-cancelled subscription": no write of a
\* sweep (a step of its row loop) falls on a cancelled row, so a cancellation is final for it.
SweepLeavesCancelledAlone ==
  [][\A w \in Workers, s \in Subs :
       (pc[w] = "rows" /\ pc'[w] = "count" /\ sub[s].status = "cancelled")
         => sub'[s] = sub[s]]_vars

\* "transitions apply once": a subscription that has ended comes back only by the write of
\* a request (which leaves its handler idle), never by a sweep.
EndedStaysEnded ==
  [][\A s \in Subs :
       (sub[s].status = "expired" /\ sub'[s].status # "expired")
         => \A w \in Workers : ~(pc[w] = "rows" /\ pc'[w] = "count")]_vars

\* "notifications are deduped": no member ever has two unread notices of one kind about
\* one subscription, however many sweeps pass over it.
OneUnreadNotice ==
  \A s \in Subs, k \in Kinds, m \in Members : unread[s][k][m] <= 1

\* "At most one non-cancelled subscription per org".
AtMostOneLive == \A s, t \in Subs : Live(s) /\ Live(t) => s = t

\* "enforced by SubscriptionsService.create()": a row is inserted (by create, a plan change,
\* an approval or onboarding) only while the organisation has no live row.
InsertOnlyWithoutLive ==
  [][\A s \in Subs :
       (sub[s].status = "absent" /\ sub'[s].status # "absent") => \A t \in Subs : ~Live(t)]_vars

Rules == INSTANCE SubscriptionRules WITH Policies <- Configs \cup {DefaultConfig}

\* Handlers that read a row, await and write it by its id come to the same as the rules
\* applied to the row in one step: none of them acts on what has changed since it looked
\* (a decision of the sweep, a cycle written back, a row that is no longer live).
KeepsRules == Rules!Spec

\* "guarantees transitions eventually happen even for orgs nobody touches": a running term
\* that ends within the horizon is lapsed by some sweep or prolonged, whatever overlaps,
\* fails or restarts.
TermEnds ==
  \A s \in Subs :
    (InTerm(sub[s]) /\ sub[s].renewsAt <= Horizon)
      ~> ~(InTerm(sub[s]) /\ sub[s].renewsAt <= Horizon)

\* The same for a grace window: it is closed by a sweep, or by the organisation paying.
GraceEnds ==
  \A s \in Subs :
    (sub[s].status = "past_due" /\ sub[s].graceEndsAt \in 0..Horizon)
      ~> ~(sub[s].status = "past_due" /\ sub[s].graceEndsAt \in 0..Horizon)

=============================================================================
