-------------------------- MODULE SubscriptionRules --------------------------
(***************************************************************************)
(* The rules by which the subscriptions of one organisation change, as if  *)
(* every sweep of a row and every request came about in a single step, on  *)
(* the rows as they are at that moment.                                    *)
(***************************************************************************)
EXTENDS Integers

CONSTANTS
  Subs,                     \* ids of rows
  Policies,                 \* expiry policies that may be in force
  MonthlyTerm, YearlyTerm,  \* days
  CreateDtos, UpdateDtos    \* bodies of the Super Admin's requests

VARIABLES now, sub

vars == <<now, sub>>

NoDate == -1
Cycles == {"monthly", "yearly"}
Term(cycle) == IF cycle = "yearly" THEN YearlyTerm ELSE MonthlyTerm

Present(s) == sub[s].status # "absent"
Live(s)    == sub[s].status \notin {"absent", "cancelled"}

Init ==
  /\ now = 0
  /\ sub = [s \in Subs |-> [status |-> "absent", cycle |-> "monthly", renewsAt |-> 0,
                            graceEndsAt |-> NoDate]]

Becomes(s, row) == sub' = [sub EXCEPT ![s] = row] /\ UNCHANGED now

-----------------------------------------------------------------------------
(* Time, and what it does to a row under a policy p.                       *)

Pass == now' = now + 1 /\ UNCHANGED sub

Lapse(s, p) ==
  /\ sub[s].status \in {"active", "trial"} /\ sub[s].renewsAt <= now
  /\ Becomes(s, [sub[s] EXCEPT !.status = "past_due",
                               !.graceEndsAt = sub[s].renewsAt + p.grace])

EndGrace(s, p) ==
  /\ sub[s].status = "past_due"
  /\ sub[s].graceEndsAt # NoDate /\ sub[s].graceEndsAt <= now
  /\ Becomes(s, [sub[s] EXCEPT !.status = IF p.behavior = "cancel" THEN "cancelled"
                                                                  ELSE "expired"])

-----------------------------------------------------------------------------
(* Requests.  A term is counted from `at`.                                 *)

Runs(s, cycle, at) ==
  Becomes(s, [status |-> "active", cycle |-> cycle, renewsAt |-> at + Term(cycle),
              graceEndsAt |-> NoDate])

\* By the organisation or, also for a cancelled row, by the Super Admin.
Renew(s) == Present(s) /\ Runs(s, sub[s].cycle, now)

\* A row that has stopped begins anew; a running one changes its cycle only.
ChangePlan(s, c) ==
  /\ Live(s)
  /\ IF sub[s].status \in {"expired", "paused"} THEN Runs(s, c, now)
     ELSE Becomes(s, [sub[s] EXCEPT !.cycle = c])

\* A package change: its term was counted when the approval began.
Approve(s, c) == Live(s) /\ \E at \in 0..now : Runs(s, c, at)

Vacant(s) == ~Present(s) /\ \A t \in Subs : ~Live(t)

\* The first subscription, or the one after those that were cancelled.
Subscribe(s, c) == Vacant(s) /\ \E at \in 0..now : Runs(s, c, at)

Create(s, dto) ==
  /\ Vacant(s)
  /\ Becomes(s, [status |-> dto.status, cycle |-> dto.cycle, graceEndsAt |-> NoDate,
                 renewsAt |-> IF dto.renewsAt # NoDate THEN dto.renewsAt
                              ELSE now + Term(dto.cycle)])

\* What the body does not name stays as it is; a grace window is closed by any other status.
Update(s, dto) ==
  /\ Present(s)
  /\ Becomes(s, [status      |-> IF dto.status = "keep" THEN sub[s].status ELSE dto.status,
                 cycle       |-> IF dto.cycle = "keep" THEN sub[s].cycle ELSE dto.cycle,
                 renewsAt    |-> IF dto.renewsAt = NoDate THEN sub[s].renewsAt ELSE dto.renewsAt,
                 graceEndsAt |-> IF dto.status \in {"keep", "past_due"}
                                 THEN sub[s].graceEndsAt ELSE NoDate])

Cancel(s) ==
  /\ Present(s)
  /\ Becomes(s, [sub[s] EXCEPT !.status = "cancelled", !.graceEndsAt = NoDate])

Next ==
  \/ Pass
  \/ /\ sub' # sub  \* what changes nothing is no step
     /\ \E s \in Subs :
          \/ \E p \in Policies : Lapse(s, p) \/ EndGrace(s, p)
          \/ Renew(s) \/ Cancel(s)
          \/ \E c \in Cycles : ChangePlan(s, c) \/ Approve(s, c) \/ Subscribe(s, c)
          \/ \E dto \in CreateDtos : Create(s, dto)
          \/ \E dto \in UpdateDtos : Update(s, dto)

Spec == Init /\ [][Next]_vars
=============================================================================
