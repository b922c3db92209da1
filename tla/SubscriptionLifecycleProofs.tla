--------------------- MODULE SubscriptionLifecycleProofs ---------------------
(* Theorems about SubscriptionLifecycle, for every value of its constants. *)
EXTENDS SubscriptionLifecycle, TLAPS

\* The body of a request that may insert a row names a status and a cycle, and a handler
\* that looks a row up by id was given the id of a row.
ReqsComplete ==
  \A w \in Workers :
    /\ req[w].op \in Creators => req[w].dto.status # "keep" /\ req[w].dto.cycle # "keep"
    /\ pc[w] = "lookup" => req[w].target \in Subs

TypeInv == TypeOK /\ ReqsComplete

\* The constant records are of their types.
LEMMA ConstantTypes ==
  /\ NoDto \in Dto /\ NoReq \in Req /\ SweepReq \in Req /\ RenewReq \in Req /\ NoSweep \in Sweep
  /\ NoRow \in Found /\ Absent \in Row
  /\ \A c \in Cycles : CycleDto(c) \in Dto
  /\ \A c \in Cycles : Term(c) \in Nat
<1>1. NoDto \in Dto /\ \A c \in Cycles : CycleDto(c) \in Dto
  BY DEF NoDto, CycleDto, Dto, Dates, NoDate, Statuses, Cycles
<1>2. NoReq \in Req /\ SweepReq \in Req /\ RenewReq \in Req
  BY <1>1 DEF NoReq, SweepReq, RenewReq, Asked, Req, Ops
<1>3. NoSweep \in Sweep
  BY ConfigAssumption DEF NoSweep, Sweep, Kinds
<1>4. NoRow \in Found /\ Absent \in Row
  BY DEF NoRow, Absent, Found, Row, Dates, NoDate, Cycles
<1>5. \A c \in Cycles : Term(c) \in Nat
  BY TermAssumption DEF Term
<1> QED BY <1>1, <1>2, <1>3, <1>4, <1>5

\* A request that begins is of its type and, if it may insert a row, complete.
LEMMA BeginType ==
  ASSUME TypeInv, NEW w \in Workers, NEW r \in Req, NEW phase \in Phases, Begin(w, r, phase),
         r.op \in Creators => r.dto.status # "keep" /\ r.dto.cycle # "keep",
         phase = "lookup" => r.target \in Subs
  PROVE  TypeInv'
BY DEF TypeInv, TypeOK, ReqsComplete, Begin

\* Leaving a sweep keeps the types.
LEMMA LeaveSweepType ==
  ASSUME TypeInv, NEW w \in Workers, LeaveSweep(w), UNCHANGED <<now, sub, unread, found>>,
         faults' \in Nat
  PROVE  TypeInv'
<1>1. /\ NoReq \in Req /\ NoSweep \in Sweep
      /\ NoReq.op \notin Creators
  BY ConstantTypes DEF NoReq, Asked, Creators
<1>2. pc' \in [Workers -> Phases] /\ sweep' \in [Workers -> Sweep]
  BY <1>1 DEF TypeInv, TypeOK, LeaveSweep, Phases
<1>3. /\ RenewReq \in Req
      /\ RenewReq.op \notin Creators
  BY ConstantTypes DEF RenewReq, Asked, Creators
<1> DEFINE G == ReqsComplete' /\ req' \in [Workers -> Req]
<1>4. ASSUME req[w].op = "sweep" PROVE G
  BY <1>1, <1>4 DEF LeaveSweep, TypeInv, TypeOK, ReqsComplete
<1>5. ASSUME req[w].op = "orgRenew" PROVE G
  BY <1>3, <1>5 DEF LeaveSweep, TypeInv, TypeOK, ReqsComplete
<1>6. ASSUME req[w].op \notin {"sweep", "orgRenew"} PROVE G
  BY <1>6 DEF LeaveSweep, TypeInv, TypeOK, ReqsComplete
<1>7. ReqsComplete' /\ req' \in [Workers -> Req]
  BY <1>4, <1>5, <1>6
<1> QED BY <1>2, <1>7 DEF TypeInv, TypeOK

\* Finishing a handler keeps the types of its locals.
LEMMA FinishType ==
  ASSUME TypeInv, NEW w \in Workers, Finish(w)
  PROVE  /\ pc' \in [Workers -> Phases] /\ req' \in [Workers -> Req]
         /\ found' \in [Workers -> Found] /\ ReqsComplete'
BY ConstantTypes DEF TypeInv, TypeOK, ReqsComplete, Finish, Phases, NoReq, Asked, Creators

\* Taking up a row of the loop keeps the types of the sweep.
LEMMA TakeRowType ==
  ASSUME TypeInv, NEW w \in Workers, NEW d \in sweep[w].todo, NEW does, NEW kind \in Kinds,
         TakeRow(w, d, does, kind)
  PROVE  /\ pc' \in [Workers -> Phases] /\ sweep' \in [Workers -> Sweep]
         /\ d.id \in Subs /\ d.graceEndsAt \in Nat
         /\ UNCHANGED <<now, unread, req, found, faults>> /\ ReqsComplete'
<1>1. sweep[w] \in Sweep /\ pc[w] \in Phases
  BY DEF TypeInv, TypeOK
<1>2. d.id \in Subs /\ d.graceEndsAt \in Nat
  BY <1>1 DEF Sweep
<1>3. [sweep[w] EXCEPT !.todo = @ \ {d}, !.id = d.id, !.kind = kind] \in Sweep
  BY <1>1, <1>2 DEF Sweep
<1>4. sweep' \in [Workers -> Sweep]
  BY <1>3 DEF TakeRow, TypeInv, TypeOK
<1>5. pc' \in [Workers -> Phases]
  BY DEF TakeRow, TypeInv, TypeOK, Phases
<1>6. ReqsComplete'
  BY DEF TypeInv, ReqsComplete, TakeRow
<1> QED BY <1>2, <1>4, <1>5, <1>6 DEF TakeRow

LEMMA SeenType ==
  ASSUME TypeInv, NEW s \in Subs
  PROVE  Seen(s) \in Found /\ Seen(s).id = s
BY DEF TypeInv, TypeOK, Seen, Found, Row

\* A decision of the sweep that calls for an action is of its type.
LEMMA DecisionType ==
  ASSUME TypeInv, NEW s \in Subs, NEW cfg \in Config, NEW at \in Nat,
         Decision(s, cfg, at).does # "none"
  PROVE  Decision(s, cfg, at) \in
           [id : Subs, does : {"lapse", "remind", "end"}, graceEndsAt : Nat]
<1>1. sub[s].renewsAt + cfg.grace \in Nat
  BY DEF TypeInv, TypeOK, Row, Config
<1>2. Verdict(sub[s], cfg, at) \in {"lapse", "remind", "end", "none"}
  BY DEF Verdict
<1> QED BY <1>1, <1>2 DEF Decision

\* Every request that arrives is of its type.
LEMMA ArriveType ==
  ASSUME TypeInv, NEW w \in Requests, Arrive(w)
  PROVE  TypeInv'
<1> w \in Workers
  BY DEF Workers
<1> USE BeginType, DtoAssumption
<1>1. \A op \in Ops, s \in Subs \cup {NoSub}, dto \in Dto, at \in Nat :
        /\ Asked(op, s, dto, at) \in Req
        /\ Asked(op, s, dto, at).op = op /\ Asked(op, s, dto, at).dto = dto
        /\ Asked(op, s, dto, at).target = s
  BY DEF Asked, Req
<1>2. NoDto \in Dto /\ NoSub \in Subs \cup {NoSub} /\ 0 \in Nat /\ now \in Nat
  BY ConstantTypes DEF TypeInv, TypeOK
<1>3. \A c \in Cycles : /\ CycleDto(c) \in Dto
                        /\ CycleDto(c).status # "keep" /\ CycleDto(c).cycle # "keep"
  <2>1. \A c \in Cycles : CycleDto(c) \in Dto
    BY ConstantTypes
  <2>2. \A c \in Cycles : CycleDto(c).status # "keep" /\ CycleDto(c).cycle # "keep"
    BY DEF CycleDto, Cycles
  <2> QED BY <2>1, <2>2
<1>4. ASSUME BeginRenew(w) PROVE TypeInv'
  BY <1>1, <1>2, <1>4 DEF BeginRenew, OrgRenewReq, Ops, Phases, Creators
<1>5. ASSUME NEW c \in Cycles, BeginAttach(w, c) PROVE TypeInv'
  BY <1>1, <1>2, <1>3, <1>5 DEF BeginAttach, Ops, Phases
<1>6. ASSUME NEW s \in Subs, BeginAdminRenew(w, s) PROVE TypeInv'
  BY <1>1, <1>2, <1>6 DEF BeginAdminRenew, Ops, Phases, Creators
<1>7. ASSUME NEW s \in Subs, NEW dto \in UpdateDtos, BeginUpdate(w, s, dto) PROVE TypeInv'
  BY <1>1, <1>2, <1>7 DEF BeginUpdate, Ops, Phases, Creators
<1>8. ASSUME NEW dto \in CreateDtos, BeginCreate(w, dto) PROVE TypeInv'
  BY <1>1, <1>2, <1>8 DEF BeginCreate, Ops, Phases
<1>9. ASSUME NEW c \in Cycles, BeginChangePlan(w, c) PROVE TypeInv'
  BY <1>1, <1>2, <1>3, <1>9 DEF BeginChangePlan, Ops, Phases
<1>10. ASSUME NEW c \in Cycles, BeginApprove(w, c) PROVE TypeInv'
  BY <1>1, <1>2, <1>3, <1>10 DEF BeginApprove, Ops, Phases
<1> QED BY <1>4, <1>5, <1>6, <1>7, <1>8, <1>9, <1>10 DEF Arrive

\* What a handler writes to a row is a row.
LEMMA ActivatedType ==
  ASSUME TypeInv, NEW s \in Subs, NEW c \in Cycles, NEW d \in Nat
  PROVE  Activated(s, c, d) \in Row /\ Activated(s, c, d).graceEndsAt = NoDate
<1>1. sub[s] \in Row
  BY DEF TypeInv, TypeOK
<1> QED BY <1>1 DEF Activated, Row, Statuses, Dates

LEMMA WriteType ==
  ASSUME TypeInv, NEW w \in Workers, NEW op, NEW s, NEW row, Write(w, op, s, row),
         s \in Subs => row \in Row
  PROVE  TypeInv'
<1>1. sub' \in [Subs -> Row]
  BY DEF Write, TypeInv, TypeOK
<1> QED BY <1>1, FinishType DEF Write, TypeInv, TypeOK

\* A step of a handler keeps the types.
LEMMA HandlerStepType ==
  ASSUME TypeInv, NEW w \in Workers, HandlerStep(w)
  PROVE  TypeInv'
<1>1. /\ found[w].cycle \in Cycles /\ found[w].status \in Statuses \cup {"absent"}
      /\ req[w].dto \in Dto /\ req[w].at \in Nat /\ now \in Nat
      /\ req[w].target \in Subs \cup {NoSub}
  BY DEF TypeInv, TypeOK, Found, Req
<1>2. req[w].op \in Creators => req[w].dto.cycle \in Cycles /\ req[w].dto.status \in Statuses
  BY <1>1 DEF TypeInv, ReqsComplete, Dto
<1>3. /\ \A c \in Cycles : Term(c) \in Nat
      /\ \A c \in Cycles : now + Term(c) \in Nat /\ req[w].at + Term(c) \in Nat
  BY <1>1, ConstantTypes
<1>4. ASSUME WriteRenew(w) PROVE TypeInv'
  <2> DEFINE s == found[w].id
  <2>1. s \in Subs => Activated(s, sub[s].cycle, now + Term(found[w].cycle)) \in Row
    BY <1>1, <1>3, ActivatedType DEF TypeInv, TypeOK, Row
  <2> QED BY <1>4, <2>1, WriteType DEF WriteRenew
<1>5. ASSUME WriteApprove(w) PROVE TypeInv'
  <2> DEFINE s == found[w].id
             c == req[w].dto.cycle
  <2>1. req[w].op \in Creators
    BY <1>5 DEF WriteApprove, Write, Creators
  <2>2. s \in Subs => Activated(s, c, req[w].at + Term(c)) \in Row
    BY <1>2, <1>3, <2>1, ActivatedType
  <2> QED BY <1>5, <2>2, WriteType DEF WriteApprove
<1>6. ASSUME WriteChangePlan(w) PROVE TypeInv'
  <2> DEFINE s == found[w].id
             c == req[w].dto.cycle
             row == IF found[w].status \in {"expired", "paused"}
                    THEN Activated(s, c, now + Term(c)) ELSE [sub[s] EXCEPT !.cycle = c]
  <2>1. req[w].op \in Creators
    BY <1>6 DEF WriteChangePlan, Write, Creators
  <2>2. s \in Subs => Activated(s, c, now + Term(c)) \in Row
    BY <1>2, <1>3, <2>1, ActivatedType
  <2>3. s \in Subs => [sub[s] EXCEPT !.cycle = c] \in Row
    BY <1>2, <2>1 DEF TypeInv, TypeOK, Row
  <2>4. s \in Subs => row \in Row
    BY <2>2, <2>3
  <2>5. Write(w, "changePlan", s, row)
    BY <1>6 DEF WriteChangePlan
  <2> HIDE DEF row
  <2> QED BY <2>4, <2>5, WriteType
<1>7. ASSUME WriteUpdate(w) PROVE TypeInv'
  <2> DEFINE s   == found[w].id
             dto == req[w].dto
             st  == IF dto.status = "keep" THEN sub[s].status ELSE dto.status
             cy  == IF dto.cycle # "keep" THEN dto.cycle
                    ELSE IF dto.replan THEN found[w].cycle ELSE sub[s].cycle
             re  == IF dto.renewsAt = NoDate THEN sub[s].renewsAt ELSE dto.renewsAt
             gr  == IF dto.status \in {"keep", "past_due"} THEN sub[s].graceEndsAt ELSE NoDate
  <2>1. ASSUME s \in Subs
        PROVE  /\ st \in Statuses \cup {"absent"} /\ cy \in Cycles
               /\ re \in Nat /\ gr \in Dates
    BY <1>1, <2>1 DEF TypeInv, TypeOK, Row, Dto, Dates
  <2>2. Write(w, "update", s,
              [status |-> st, cycle |-> cy, renewsAt |-> re, graceEndsAt |-> gr])
    BY <1>7 DEF WriteUpdate
  <2> HIDE DEF st, cy, re, gr
  <2>3. s \in Subs =>
          [status |-> st, cycle |-> cy, renewsAt |-> re, graceEndsAt |-> gr] \in Row
    BY <2>1 DEF Row
  <2> QED BY <2>2, <2>3, WriteType
<1>8. ASSUME WriteCreate(w) PROVE TypeInv'
  <2> DEFINE row == [status |-> req[w].dto.status, cycle |-> req[w].dto.cycle,
                     renewsAt |-> FirstTermEnd(req[w]), graceEndsAt |-> NoDate]
  <2>1. PICK s \in Free, op \in Creators : Write(w, op, s, row)
    BY <1>8 DEF WriteCreate
  <2>2. req[w].op \in Creators
    BY <2>1 DEF Write
  <2>3. FirstTermEnd(req[w]) \in Nat
    <3>1. req[w].dto.renewsAt \in Dates
      BY <1>1 DEF Dto
    <3>2. (IF req[w].op = "approve" THEN req[w].at ELSE now) + Term(req[w].dto.cycle) \in Nat
      BY <1>1, <1>2, <1>3, <2>2
    <3> QED BY <3>1, <3>2 DEF FirstTermEnd, Dates
  <2>4. row \in Row
    <3> DEFINE end == FirstTermEnd(req[w])
               dto == req[w].dto
    <3> HIDE DEF end, dto
    <3>1. /\ end \in Nat /\ dto.status \in Statuses /\ dto.cycle \in Cycles
      BY <1>2, <2>2, <2>3 DEF end, dto
    <3>2. [status |-> dto.status, cycle |-> dto.cycle, renewsAt |-> end,
           graceEndsAt |-> NoDate] \in Row
      BY <3>1 DEF Row, Dates
    <3> QED BY <3>2 DEF end, dto
  <2> HIDE DEF row
  <2> QED BY <2>1, <2>4, WriteType
<1>9. ASSUME Lookup(w) PROVE TypeInv'
  <2>1. Seen(req[w].target) \in Found
    BY <1>9, SeenType DEF Lookup, TypeInv, ReqsComplete
  <2>2. found' \in [Workers -> Found]
    BY <1>9, <2>1 DEF Lookup, TypeInv, TypeOK
  <2> QED BY <1>9, <2>2 DEF Lookup, TypeInv, TypeOK, ReqsComplete, Phases
<1>10. ASSUME Find(w) PROVE TypeInv'
  <2>1. PICK s \in Subs : found' = [found EXCEPT ![w] = Seen(s)]
    BY <1>10 DEF Find
  <2>2. found' \in [Workers -> Found]
    BY <2>1, SeenType DEF TypeInv, TypeOK
  <2> QED BY <1>10, <2>2 DEF Find, TypeInv, TypeOK, ReqsComplete, Phases
<1>11. ASSUME FindNone(w) PROVE TypeInv'
  BY <1>11, ConstantTypes DEF FindNone, TypeInv, TypeOK, ReqsComplete, Phases
<1>12. ASSUME Refuse(w) PROVE TypeInv'
  BY <1>12, FinishType DEF Refuse, TypeInv, TypeOK
<1> QED BY <1>4, <1>5, <1>6, <1>7, <1>8, <1>9, <1>10, <1>11, <1>12 DEF HandlerStep

\* A step of a sweep keeps the types.
LEMMA SweepStepType ==
  ASSUME TypeInv, NEW w \in Workers, SweepStep(w)
  PROVE  TypeInv'
<1> USE DEF TypeInv
<1>1. sweep[w] \in Sweep /\ NoSweep \in Sweep
  BY ConstantTypes DEF TypeOK
<1>2. ASSUME SweepStart(w) PROVE TypeInv'
  <2>1. PICK cfg \in Config : sweep' = [sweep EXCEPT ![w].cfg = cfg, ![w].at = now]
    BY <1>2, ConfigAssumption DEF SweepStart
  <2>2. [sweep[w] EXCEPT !.cfg = cfg, !.at = now] \in Sweep
    BY <1>1 DEF TypeOK, Sweep
  <2>3. sweep' \in [Workers -> Sweep]
    BY <2>1, <2>2 DEF TypeOK
  <2> QED BY <1>2, <2>3 DEF SweepStart, TypeOK, ReqsComplete, Phases
<1>3. ASSUME SweepRead(w) PROVE TypeInv'
  <2> DEFINE T == {d \in {Decision(s, sweep[w].cfg, sweep[w].at) : s \in Subs} : d.does # "none"}
  <2>1. sweep[w].cfg \in Config /\ sweep[w].at \in Nat
    BY <1>1 DEF Sweep
  <2>2. T \subseteq [id : Subs, does : {"lapse", "remind", "end"}, graceEndsAt : Nat]
    BY <2>1, DecisionType
  <2> HIDE DEF T
  <2>3. [sweep[w] EXCEPT !.todo = T] \in Sweep
    BY <1>1, <2>2 DEF Sweep
  <2>4. sweep' = [sweep EXCEPT ![w].todo = T]
    BY <1>3 DEF SweepRead, T
  <2>5. sweep' \in [Workers -> Sweep]
    BY <2>3, <2>4 DEF TypeOK
  <2> QED BY <1>3, <2>5 DEF SweepRead, TypeOK, ReqsComplete, Phases
<1>4. ASSUME CountUnread(w) PROVE TypeInv'
  BY <1>4 DEF CountUnread, TypeOK, ReqsComplete, Phases
<1>5. ASSUME Deliver(w) PROVE TypeInv'
  <2> DEFINE u == [m \in Members |-> unread[sweep[w].id][sweep[w].kind][m] + 1]
  <2>1. CASE sweep[w].id \in Subs
    <3>1. sweep[w].kind \in Kinds
      BY <1>1 DEF Sweep
    <3>2. u \in [Members -> Nat]
      BY <2>1, <3>1 DEF TypeOK
    <3>3. unread' \in [Subs -> [Kinds -> [Members -> Nat]]]
      BY <1>5, <2>1, <3>1, <3>2 DEF Deliver, TypeOK
    <3> QED BY <1>5, <3>3 DEF Deliver, TypeOK, ReqsComplete, Phases
  <2>2. CASE sweep[w].id \notin Subs
    <3>1. unread' \in [Subs -> [Kinds -> [Members -> Nat]]]
      BY <1>5, <2>2 DEF Deliver, TypeOK
    <3> QED BY <1>5, <3>1 DEF Deliver, TypeOK, ReqsComplete, Phases
  <2> QED BY <2>1, <2>2
<1>6. ASSUME SweepDone(w) PROVE TypeInv'
  BY <1>6, LeaveSweepType DEF SweepDone, TypeOK
<1>7. ASSUME NEW d \in sweep[w].todo, Lapse(w, d) PROVE TypeInv'
  <2>1. TakeRow(w, d, "lapse", "past_due") /\ "past_due" \in Kinds
    BY <1>7 DEF Lapse, Kinds
  <2>2. sub' \in [Subs -> Row]
    BY <1>7, <2>1, TakeRowType DEF Lapse, TypeOK, Row, Statuses, Dates
  <2> QED BY <2>1, <2>2, TakeRowType DEF TypeOK
<1>8. ASSUME NEW d \in sweep[w].todo, Remind(w, d) PROVE TypeInv'
  BY <1>8, TakeRowType DEF Remind, TypeOK, Kinds
<1>9. ASSUME NEW d \in sweep[w].todo, EndGrace(w, d) PROVE TypeInv'
  <2>1. TakeRow(w, d, "end", "expired") /\ "expired" \in Kinds
    BY <1>9 DEF EndGrace, Kinds
  <2>2. sub' \in [Subs -> Row]
    BY <1>9, <2>1, TakeRowType DEF EndGrace, TypeOK, Row, Statuses
  <2> QED BY <2>1, <2>2, TakeRowType DEF TypeOK
<1> QED BY <1>2, <1>3, <1>4, <1>5, <1>6, <1>7, <1>8, <1>9 DEF SweepStep

LEMMA InitType == Init => TypeInv
<1> SUFFICES ASSUME Init PROVE TypeInv
  OBVIOUS
<1>1. \A s \in Subs, k \in Kinds, m \in Members : unread[s][k][m] = 0
  BY DEF Init
<1>2. unread \in [Subs -> [Kinds -> [Members -> Nat]]]
  BY DEF Init
<1>3. /\ NoReq.op \notin Creators /\ SweepReq.op \notin Creators
  BY DEF NoReq, SweepReq, Asked, Creators
<1>4. ReqsComplete
  BY <1>3 DEF Init, ReqsComplete
<1> QED BY <1>2, <1>4, ConstantTypes DEF Init, TypeInv, TypeOK, Phases

\* Every step keeps the types.
LEMMA NextType == TypeInv /\ [Next]_vars => TypeInv'
<1> SUFFICES ASSUME TypeInv, [Next]_vars PROVE TypeInv'
  OBVIOUS
<1>1. ASSUME NEW w \in Workers, BeginSweep(w) PROVE TypeInv'
  <2>1. SweepReq \in Req /\ SweepReq.op \notin Creators
    BY ConstantTypes DEF SweepReq, Asked, Creators
  <2> QED BY <1>1, <2>1, BeginType DEF BeginSweep, Phases
<1>2. ASSUME NEW w \in Workers, FailSweep(w) PROVE TypeInv'
  BY <1>2, LeaveSweepType DEF FailSweep, TypeInv, TypeOK
<1>3. ASSUME NEW w \in Requests, FailRequest(w) PROVE TypeInv'
  BY <1>3, FinishType DEF FailRequest, TypeInv, TypeOK, Workers
<1>4. ASSUME NEW s \in Subs, AdminCancel(s) PROVE TypeInv'
  <2>1. sub' \in [Subs -> Row]
    BY <1>4 DEF AdminCancel, TypeInv, TypeOK, Row, Statuses, Dates
  <2> QED BY <1>4, <2>1 DEF AdminCancel, TypeInv, TypeOK, ReqsComplete
<1>5. ASSUME NEW m \in Members, NEW s \in Subs, NEW k \in Kinds, MarkRead(m, s, k)
      PROVE TypeInv'
  <2>1. unread[s][k][m] - 1 \in Nat
    BY <1>5 DEF MarkRead, TypeInv, TypeOK
  <2>2. unread' \in [Subs -> [Kinds -> [Members -> Nat]]]
    BY <1>5, <2>1 DEF MarkRead, TypeInv, TypeOK
  <2> QED BY <1>5, <2>2 DEF MarkRead, TypeInv, TypeOK, ReqsComplete
<1>6. CASE Tick
  BY <1>6 DEF Tick, TypeInv, TypeOK, ReqsComplete
<1>7. CASE Restart
  <2>1. /\ NoReq.op \notin Creators /\ SweepReq.op \notin Creators
    BY DEF NoReq, SweepReq, Asked, Creators
  <2> QED BY <1>7, <2>1, ConstantTypes DEF Restart, TypeInv, TypeOK, ReqsComplete, Phases
<1>8. CASE UNCHANGED vars
  BY <1>8 DEF vars, TypeInv, TypeOK, ReqsComplete
<1> QED
  BY <1>1, <1>2, <1>3, <1>4, <1>5, <1>6, <1>7, <1>8, SweepStepType, HandlerStepType, ArriveType
  DEF Next, Workers

\* Type correctness, whatever overlaps.
THEOREM TypeCorrect == Spec => []TypeOK
<1>1. Init => TypeInv
  BY InitType
<1>2. TypeInv /\ [Next]_vars => TypeInv'
  BY NextType
<1>3. TypeInv => TypeOK
  BY DEF TypeInv
<1> QED BY <1>1, <1>2, <1>3, PTL DEF Spec

-----------------------------------------------------------------------------
(* The grace date, under every interleaving.                               *)

\* What any step may do to a row, read off its status and grace date alone.
RowMoves(s) ==
  \/ UNCHANGED <<sub[s].status, sub[s].graceEndsAt>>
  \/ sub'[s].status \in {"past_due", "cancelled", "expired"}
  \/ sub'[s].graceEndsAt = NoDate

LEMMA StepMoves ==
  ASSUME TypeInv, [Next]_vars, NEW s \in Subs
  PROVE  RowMoves(s)
<1> USE DEF RowMoves
<1>1. sub \in [Subs -> Row]
  BY DEF TypeInv, TypeOK
<1>2. CASE UNCHANGED sub
  BY <1>2
<1>3. ASSUME NEW w \in Workers, NEW d \in sweep[w].todo, Lapse(w, d) \/ EndGrace(w, d)
      PROVE RowMoves(s)
  BY <1>1, <1>3 DEF Lapse, EndGrace, Row
<1>4. ASSUME NEW x \in Subs, AdminCancel(x) PROVE RowMoves(s)
  BY <1>1, <1>4 DEF AdminCancel, Row
<1>5. ASSUME NEW w \in Workers, WriteRenew(w) \/ WriteApprove(w) PROVE RowMoves(s)
  BY <1>1, <1>5 DEF WriteRenew, WriteApprove, Write, Activated, Row
<1>6. ASSUME NEW w \in Workers, WriteChangePlan(w) PROVE RowMoves(s)
  BY <1>1, <1>6 DEF WriteChangePlan, Write, Activated, Row
<1>7. ASSUME NEW w \in Workers, WriteUpdate(w) PROVE RowMoves(s)
  BY <1>1, <1>7 DEF WriteUpdate, Write, Row
<1>8. ASSUME NEW w \in Workers, WriteCreate(w) PROVE RowMoves(s)
  BY <1>1, <1>8 DEF WriteCreate, Write, Row
<1>9. ASSUME NEW w \in Workers, \/ BeginSweep(w) \/ Arrive(w) \/ FailSweep(w) \/ FailRequest(w)
      PROVE UNCHANGED sub
  BY <1>9 DEF BeginSweep, Arrive, BeginRenew, BeginAttach, BeginAdminRenew, BeginUpdate,
       BeginCreate, BeginChangePlan, BeginApprove, Begin, FailSweep, FailRequest
<1>10. ASSUME NEW w \in Workers,
              \/ SweepStart(w) \/ SweepRead(w) \/ CountUnread(w) \/ Deliver(w) \/ SweepDone(w)
              \/ \E d \in sweep[w].todo : Remind(w, d)
              \/ Lookup(w) \/ Find(w) \/ FindNone(w) \/ Refuse(w)
       PROVE UNCHANGED sub
  BY <1>10 DEF SweepStart, SweepRead, CountUnread, Deliver, SweepDone, Remind, Lookup, Find,
       FindNone, Refuse
<1>11. ASSUME \/ Tick \/ Restart \/ UNCHANGED vars
              \/ \E m \in Members, x \in Subs, k \in Kinds : MarkRead(m, x, k)
       PROVE UNCHANGED sub
  BY <1>11 DEF Tick, Restart, vars, MarkRead
<1> QED
  BY <1>2, <1>3, <1>4, <1>5, <1>6, <1>7, <1>8, <1>9, <1>10, <1>11
  DEF Next, SweepStep, HandlerStep, Workers

\* A running or paused subscription carries no grace date: it holds of every interleaving
\* of any number of handlers, because each write that sets such a status clears the date
\* in the same write, and the lapse sets the status with the date.
THEOREM GraceSafe == Spec => []GraceOnlyAfterLapse
<1>1. Init => TypeInv /\ GraceOnlyAfterLapse
  BY InitType DEF Init, Absent, GraceOnlyAfterLapse
<1>2. TypeInv /\ GraceOnlyAfterLapse /\ [Next]_vars => TypeInv' /\ GraceOnlyAfterLapse'
  <2> SUFFICES ASSUME TypeInv, GraceOnlyAfterLapse, [Next]_vars, NEW s \in Subs
               PROVE  sub'[s].status \in {"absent", "active", "trial", "paused"}
                        => sub'[s].graceEndsAt = NoDate
    BY NextType DEF GraceOnlyAfterLapse
  <2>1. RowMoves(s)
    BY StepMoves
  <2> QED BY <2>1 DEF RowMoves, GraceOnlyAfterLapse
<1> QED BY <1>1, <1>2, PTL DEF Spec

=============================================================================
