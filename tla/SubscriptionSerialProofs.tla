---------------------- MODULE SubscriptionSerialProofs ----------------------
(***************************************************************************)
(* What the sweep and the requests guarantee when handlers do not overlap, *)
(* for any number of rows, members and policies.  A sweep acts on what it  *)
(* read before; the invariant says that without overlap its decisions are  *)
(* still those the rules prescribe for the rows as they are.               *)
(***************************************************************************)
EXTENDS SubscriptionLifecycleProofs

Exclusive == \A v, w \in Workers : pc[v] # "idle" /\ pc[w] # "idle" => v = w

\* What a waiting handler knows stays true while it waits.
HandlerInv(w) ==
  /\ pc[w] \in {"read", "rows", "count", "deliver"} => sweep[w].at <= now
  /\ pc[w] \in {"rows", "count", "deliver"} =>
       \A d \in sweep[w].todo : /\ d = Decision(d.id, sweep[w].cfg, sweep[w].at)
                                /\ d.does # "none"
  /\ pc[w] = "lookup" => sub[req[w].target].status # "absent"
  /\ pc[w] = "write" =>
       \/ found[w].id \in Subs /\ sub[found[w].id].status # "absent"
       \/ found[w].id = NoSub /\ \A s \in Subs : ~Live(s)

SerialInv == Exclusive /\ \A w \in Workers : HandlerInv(w)

\* Every handler but w is idle, before and after a step of w.
LEMMA Alone ==
  ASSUME TypeInv, SerialInv, NEW w \in Workers, pc[w] # "idle" \/ AllIdle,
         NEW p, pc' = [pc EXCEPT ![w] = p], HandlerInv(w)'
  PROVE  SerialInv'
<1>1. \A v \in Workers : v # w => pc[v] = "idle"
  BY DEF SerialInv, Exclusive, AllIdle
<1>2. \A v \in Workers : v # w => pc'[v] = "idle"
  BY <1>1 DEF TypeInv, TypeOK
<1>3. \A v \in Workers : v # w => HandlerInv(v)'
  BY <1>2 DEF HandlerInv
<1> QED BY <1>2, <1>3 DEF SerialInv, Exclusive

\* A decision names a row that is in use, and the rules of its verdict.
LEMMA DecisionRow ==
  ASSUME TypeInv, SerialInv, NEW w \in Workers, pc[w] = "rows", NEW d \in sweep[w].todo
  PROVE  /\ d.id \in Subs /\ sweep[w].at <= now /\ sweep[w].at \in Nat /\ now \in Nat
         /\ d.does = "lapse" => InTerm(sub[d.id]) /\ sub[d.id].renewsAt <= now
         /\ d.does = "remind" => InTerm(sub[d.id])
         /\ d.does = "end" => /\ sub[d.id].status = "past_due"
                              /\ sub[d.id].graceEndsAt # NoDate
                              /\ sub[d.id].graceEndsAt <= now
         /\ d.does \in {"lapse", "remind", "end"}
<1>1. sweep[w] \in Sweep /\ now \in Nat
  BY DEF TypeInv, TypeOK
<1>2. d.id \in Subs /\ d.does \in {"lapse", "remind", "end"} /\ sweep[w].at \in Nat
  BY <1>1 DEF Sweep
<1>3. sub[d.id].renewsAt \in Nat /\ sub[d.id].graceEndsAt \in Dates
  BY <1>2 DEF TypeInv, TypeOK, Row
<1>4. d = Decision(d.id, sweep[w].cfg, sweep[w].at) /\ sweep[w].at <= now
  BY DEF SerialInv, HandlerInv
<1>5. d.does = Verdict(sub[d.id], sweep[w].cfg, sweep[w].at)
  BY <1>4 DEF Decision
<1>6. \A g \in Dates : g <= sweep[w].at => g <= now
  BY <1>1, <1>2, <1>4 DEF Dates, NoDate
<1> QED BY <1>1, <1>2, <1>3, <1>4, <1>5, <1>6 DEF Verdict, Dates

\* Taking a row leaves decisions that still fit their rows.
LEMMA TakeRowInv ==
  ASSUME TypeInv, SerialInv, NEW w \in Workers, NEW d \in sweep[w].todo, NEW does, NEW kind,
         TakeRow(w, d, does, kind), NEW row, sub' = [sub EXCEPT ![d.id] = row]
  PROVE  SerialInv'
<1>1. sweep[w] \in Sweep /\ now \in Nat
  BY DEF TypeInv, TypeOK
<1>2. /\ sweep'[w].todo = sweep[w].todo \ {d}
      /\ sweep'[w].cfg = sweep[w].cfg /\ sweep'[w].at = sweep[w].at
  <2>1. sweep' = [sweep EXCEPT ![w] =
                    [sweep[w] EXCEPT !.todo = @ \ {d}, !.id = d.id, !.kind = kind]]
    BY DEF TakeRow
  <2>2. sweep'[w] = [sweep[w] EXCEPT !.todo = @ \ {d}, !.id = d.id, !.kind = kind]
    BY <2>1 DEF TypeInv, TypeOK
  <2> QED BY <1>1, <2>2 DEF Sweep
<1>3. \A e \in sweep[w].todo : /\ e = Decision(e.id, sweep[w].cfg, sweep[w].at)
                               /\ e.does # "none" /\ e.id \in Subs
  BY <1>1 DEF TakeRow, SerialInv, HandlerInv, Sweep
<1>4. \A e \in sweep'[w].todo : e \in sweep[w].todo /\ e.id # d.id
  BY <1>2, <1>3
<1>5. \A e \in sweep'[w].todo : sub'[e.id] = sub[e.id]
  BY <1>3, <1>4 DEF TypeInv, TypeOK
<1>6. \A e \in sweep'[w].todo : /\ e = Decision(e.id, sweep[w].cfg, sweep[w].at)'
                                /\ e.does # "none"
  <2> SUFFICES ASSUME NEW e \in sweep'[w].todo
               PROVE  e = Decision(e.id, sweep[w].cfg, sweep[w].at)'
    BY <1>3, <1>4
  <2>1. e = Decision(e.id, sweep[w].cfg, sweep[w].at)
    BY <1>3, <1>4
  <2>2. sub'[e.id] = sub[e.id]
    BY <1>5
  <2>3. Decision(e.id, sweep[w].cfg, sweep[w].at)' = Decision(e.id, sweep[w].cfg, sweep[w].at)
    BY <1>2, <2>2 DEF Decision
  <2> QED BY <2>1, <2>3
<1>7. pc'[w] = "count" /\ sweep'[w].at <= now'
  <2>1. pc'[w] = "count" /\ now' = now /\ pc[w] = "rows"
    BY DEF TakeRow, TypeInv, TypeOK
  <2>2. sweep[w].at <= now
    BY <2>1 DEF SerialInv, HandlerInv
  <2> QED BY <1>2, <2>1, <2>2
<1>8. HandlerInv(w)'
  BY <1>6, <1>7 DEF HandlerInv
<1> QED BY <1>8, Alone DEF TakeRow

\* A request or a sweep that begins finds every other handler idle.
LEMMA BeginInv ==
  ASSUME ~Overlap, TypeInv, SerialInv, NEW w \in Workers, NEW r, NEW phase,
         Begin(w, r, phase), phase \in {"sweep", "find", "lookup"},
         phase = "lookup" => sub[r.target].status # "absent"
  PROVE  SerialInv'
<1>1. pc'[w] = phase /\ req'[w] = r /\ sub' = sub
  BY DEF Begin, TypeInv, TypeOK
<1>2. HandlerInv(w)'
  BY <1>1 DEF HandlerInv
<1> QED BY <1>2, Alone DEF Begin

LEMMA ArriveInv ==
  ASSUME ~Overlap, TypeInv, SerialInv, NEW w \in Requests, Arrive(w)
  PROVE  SerialInv'
<1> w \in Workers
  BY DEF Workers
<1> USE BeginInv
<1>1. ASSUME BeginRenew(w) PROVE SerialInv'
  BY <1>1 DEF BeginRenew
<1>2. ASSUME NEW c \in Cycles, BeginAttach(w, c) PROVE SerialInv'
  BY <1>2 DEF BeginAttach
<1>3. ASSUME NEW s \in Subs, BeginAdminRenew(w, s) PROVE SerialInv'
  <2>1. Asked("adminRenew", s, NoDto, 0).target = s
    BY DEF Asked
  <2> QED BY <1>3, <2>1 DEF BeginAdminRenew
<1>4. ASSUME NEW s \in Subs, NEW dto \in UpdateDtos, BeginUpdate(w, s, dto) PROVE SerialInv'
  <2>1. Asked("update", s, dto, 0).target = s
    BY DEF Asked
  <2> QED BY <1>4, <2>1 DEF BeginUpdate
<1>5. ASSUME NEW dto \in CreateDtos, BeginCreate(w, dto) PROVE SerialInv'
  BY <1>5 DEF BeginCreate
<1>6. ASSUME NEW c \in Cycles, BeginChangePlan(w, c) PROVE SerialInv'
  BY <1>6 DEF BeginChangePlan
<1>7. ASSUME NEW c \in Cycles, BeginApprove(w, c) PROVE SerialInv'
  BY <1>7 DEF BeginApprove
<1> QED BY <1>1, <1>2, <1>3, <1>4, <1>5, <1>6, <1>7 DEF Arrive

LEMMA LeaveSweepInv ==
  ASSUME TypeInv, SerialInv, NEW w \in Workers, pc[w] # "idle", LeaveSweep(w)
  PROVE  SerialInv'
<1>1. PICK p \in {"idle", "sweep", "find"} : pc' = [pc EXCEPT ![w] = p]
  BY DEF LeaveSweep
<1>2. pc'[w] = p
  BY <1>1 DEF TypeInv, TypeOK
<1>3. HandlerInv(w)'
  BY <1>2 DEF HandlerInv
<1> QED BY <1>1, <1>3, Alone

LEMMA FinishInv ==
  ASSUME TypeInv, SerialInv, NEW w \in Workers, pc[w] # "idle", Finish(w)
  PROVE  SerialInv'
<1>1. pc'[w] = "idle"
  BY DEF Finish, TypeInv, TypeOK
<1>2. HandlerInv(w)'
  BY <1>1 DEF HandlerInv
<1> QED BY <1>2, Alone DEF Finish

LEMMA SweepStepInv ==
  ASSUME TypeInv, SerialInv, NEW w \in Workers, SweepStep(w)
  PROVE  SerialInv'
<1>1. sweep[w] \in Sweep /\ now \in Nat
  BY DEF TypeInv, TypeOK
<1>2. ASSUME SweepStart(w) PROVE SerialInv'
  <2>1. PICK cfg : sweep' = [sweep EXCEPT ![w].cfg = cfg, ![w].at = now]
    BY <1>2 DEF SweepStart
  <2>2. sweep'[w].at = now
    BY <1>1, <2>1 DEF TypeInv, TypeOK, Sweep
  <2>3. pc'[w] = "read" /\ now' = now
    BY <1>2 DEF SweepStart, TypeInv, TypeOK
  <2>4. HandlerInv(w)'
    BY <1>1, <2>2, <2>3 DEF HandlerInv
  <2> QED BY <1>2, <2>4, Alone DEF SweepStart
<1>3. ASSUME SweepRead(w) PROVE SerialInv'
  <2> DEFINE T == {d \in {Decision(s, sweep[w].cfg, sweep[w].at) : s \in Subs} : d.does # "none"}
  <2>1. /\ sweep'[w].todo = T
        /\ sweep'[w].cfg = sweep[w].cfg /\ sweep'[w].at = sweep[w].at
    <3>1. sweep' = [sweep EXCEPT ![w] = [sweep[w] EXCEPT !.todo = T]]
      BY <1>3 DEF SweepRead
    <3> HIDE DEF T
    <3>2. sweep'[w] = [sweep[w] EXCEPT !.todo = T]
      BY <3>1 DEF TypeInv, TypeOK
    <3> QED BY <1>1, <3>2 DEF Sweep
  <2>2. pc'[w] = "rows" /\ pc[w] = "read" /\ now' = now /\ sub' = sub
    BY <1>3 DEF SweepRead, TypeInv, TypeOK
  <2>3. sweep[w].at <= now
    BY <2>2 DEF SerialInv, HandlerInv
  <2>4. \A d \in T : d = Decision(d.id, sweep[w].cfg, sweep[w].at) /\ d.does # "none"
    BY DEF Decision
  <2>5. \A i : Decision(i, sweep[w].cfg, sweep[w].at)' = Decision(i, sweep[w].cfg, sweep[w].at)
    BY <2>1, <2>2 DEF Decision
  <2> HIDE DEF T
  <2>6. HandlerInv(w)'
    BY <2>1, <2>2, <2>3, <2>4, <2>5 DEF HandlerInv
  <2> QED BY <1>3, <2>6, Alone DEF SweepRead
<1>4. ASSUME CountUnread(w) PROVE SerialInv'
  <2>1. /\ pc[w] = "count" /\ pc'[w] \in {"deliver", "rows"}
        /\ UNCHANGED <<now, sub, sweep, found, req>>
    BY <1>4 DEF CountUnread, TypeInv, TypeOK
  <2>2. HandlerInv(w)'
    BY <2>1 DEF SerialInv, HandlerInv, Decision
  <2> QED BY <1>4, <2>1, <2>2, Alone DEF CountUnread
<1>5. ASSUME Deliver(w) PROVE SerialInv'
  <2>1. /\ pc[w] = "deliver" /\ pc'[w] = "rows"
        /\ UNCHANGED <<now, sub, sweep, found, req>>
    BY <1>5 DEF Deliver, TypeInv, TypeOK
  <2>2. HandlerInv(w)'
    BY <2>1 DEF SerialInv, HandlerInv, Decision
  <2> QED BY <1>5, <2>1, <2>2, Alone DEF Deliver
<1>6. ASSUME SweepDone(w) PROVE SerialInv'
  BY <1>6, LeaveSweepInv DEF SweepDone
<1>7. ASSUME NEW d \in sweep[w].todo, Lapse(w, d) PROVE SerialInv'
  <2>1. PICK row : sub' = [sub EXCEPT ![d.id] = row]
    BY <1>7 DEF Lapse
  <2> QED BY <1>7, <2>1, TakeRowInv DEF Lapse
<1>8. ASSUME NEW d \in sweep[w].todo, Remind(w, d) PROVE SerialInv'
  <2>1. sub' = [sub EXCEPT ![d.id] = sub[d.id]]
    BY <1>1, <1>8 DEF Remind, Sweep, TypeInv, TypeOK
  <2> QED BY <1>8, <2>1, TakeRowInv DEF Remind
<1>9. ASSUME NEW d \in sweep[w].todo, EndGrace(w, d) PROVE SerialInv'
  <2>1. PICK row : sub' = [sub EXCEPT ![d.id] = row]
    BY <1>9 DEF EndGrace
  <2> QED BY <1>9, <2>1, TakeRowInv DEF EndGrace
<1> QED BY <1>2, <1>3, <1>4, <1>5, <1>6, <1>7, <1>8, <1>9 DEF SweepStep

LEMMA HandlerStepInv ==
  ASSUME TypeInv, SerialInv, NEW w \in Workers, HandlerStep(w)
  PROVE  SerialInv'
<1>1. ASSUME \/ WriteRenew(w) \/ WriteChangePlan(w) \/ WriteApprove(w) \/ WriteUpdate(w)
             \/ WriteCreate(w) \/ Refuse(w)
      PROVE  SerialInv'
  <2>1. Finish(w) /\ pc[w] # "idle"
    BY <1>1 DEF WriteRenew, WriteChangePlan, WriteApprove, WriteUpdate, WriteCreate, Write, Refuse
  <2> QED BY <2>1, FinishInv
<1>2. ASSUME Lookup(w) PROVE SerialInv'
  <2>1. pc[w] = "lookup" /\ sub' = sub /\ req[w].target \in Subs
    BY <1>2 DEF Lookup, TypeInv, ReqsComplete
  <2>2. sub[req[w].target].status # "absent"
    BY <2>1 DEF SerialInv, HandlerInv
  <2>3. CASE pc' = [pc EXCEPT ![w] = "sweep"]
    <3>1. pc'[w] = "sweep"
      BY <2>3 DEF TypeInv, TypeOK
    <3>2. HandlerInv(w)'
      BY <3>1 DEF HandlerInv
    <3> QED BY <2>1, <2>3, <3>2, Alone
  <2>4. CASE /\ pc' = [pc EXCEPT ![w] = "write"]
             /\ found' = [found EXCEPT ![w] = Seen(req[w].target)]
    <3>1. pc'[w] = "write" /\ found'[w].id = req[w].target
      BY <2>4 DEF TypeInv, TypeOK, Seen
    <3>2. HandlerInv(w)'
      BY <2>1, <2>2, <3>1 DEF HandlerInv
    <3> QED BY <2>1, <2>4, <3>2, Alone
  <2> QED BY <1>2, <2>3, <2>4 DEF Lookup
<1>3. ASSUME Find(w) PROVE SerialInv'
  <2>1. PICK s \in Subs : Live(s) /\ found' = [found EXCEPT ![w] = Seen(s)]
    BY <1>3 DEF Find
  <2>2. pc'[w] = "write" /\ found'[w].id = s /\ sub' = sub
    BY <1>3, <2>1 DEF Find, TypeInv, TypeOK, Seen
  <2>3. HandlerInv(w)'
    BY <2>1, <2>2 DEF HandlerInv, Live
  <2> QED BY <1>3, <2>3, Alone DEF Find
<1>4. ASSUME FindNone(w) PROVE SerialInv'
  <2>1. /\ pc'[w] = "write" /\ found'[w].id = NoSub /\ sub' = sub
        /\ \A s \in Subs : ~Live(s)
    BY <1>4 DEF FindNone, TypeInv, TypeOK, NoRow
  <2>2. HandlerInv(w)'
    BY <2>1 DEF HandlerInv, Live
  <2> QED BY <1>4, <2>2, Alone DEF FindNone
<1> QED BY <1>1, <1>2, <1>3, <1>4 DEF HandlerStep

LEMMA InitSerial == Init => SerialInv
BY DEF Init, SerialInv, Exclusive, HandlerInv

\* Without overlap the invariant is inductive.
LEMMA NextSerial ==
  ASSUME ~Overlap, TypeInv, SerialInv, [Next]_vars
  PROVE  SerialInv'
<1>1. ASSUME NEW w \in Workers, BeginSweep(w) PROVE SerialInv'
  BY <1>1, BeginInv DEF BeginSweep
<1>2. ASSUME NEW w \in Workers, FailSweep(w) PROVE SerialInv'
  BY <1>2, LeaveSweepInv DEF FailSweep
<1>3. ASSUME NEW w \in Requests, FailRequest(w) PROVE SerialInv'
  BY <1>3, FinishInv DEF FailRequest, Workers
<1>4. ASSUME NEW s \in Subs, AdminCancel(s) PROVE SerialInv'
  <2>1. \A w \in Workers : pc[w] = "idle" /\ pc'[w] = "idle"
    BY <1>4 DEF AdminCancel, AllIdle
  <2> QED BY <2>1 DEF SerialInv, Exclusive, HandlerInv
<1>5. ASSUME \/ UNCHANGED vars
             \/ \E m \in Members, s \in Subs, k \in Kinds : MarkRead(m, s, k)
      PROVE  SerialInv'
  <2>1. UNCHANGED <<now, sub, pc, req, sweep, found>>
    BY <1>5 DEF MarkRead, vars
  <2> QED BY <2>1 DEF SerialInv, Exclusive, HandlerInv, Decision, Live
<1>6. CASE Tick
  <2>1. now \in Nat /\ now' = now + 1 /\ UNCHANGED <<sub, pc, req, sweep, found>>
    BY <1>6 DEF Tick, TypeInv, TypeOK
  <2>2. \A w \in Workers : sweep[w].at \in Nat
    BY DEF TypeInv, TypeOK, Sweep
  <2>3. \A w \in Workers : sweep[w].at <= now => sweep[w].at <= now'
    BY <2>1, <2>2
  <2> QED BY <2>1, <2>3 DEF SerialInv, Exclusive, HandlerInv, Decision, Live
<1>7. CASE Restart
  <2>1. \A w \in Workers : pc'[w] \in {"idle", "sweep"} /\ (w # Timer => pc'[w] = "idle")
    BY <1>7 DEF Restart
  <2> QED BY <2>1 DEF SerialInv, Exclusive, HandlerInv
<1> QED
  BY <1>1, <1>2, <1>3, <1>4, <1>5, <1>6, <1>7, SweepStepInv, HandlerStepInv, ArriveInv
  DEF Next, Workers

-----------------------------------------------------------------------------
(* Which step writes which row.                                            *)

SweepTakes(w) == pc[w] = "rows" /\ pc'[w] = "count"

\* The steps that write rows, each with what the invariant knows of its row.
SweepWrite(w, s) ==
  \/ InTerm(sub[s]) /\ sub[s].renewsAt <= now /\ sub'[s].status = "past_due"
  \/ /\ sub[s].status = "past_due" /\ sub[s].graceEndsAt # NoDate /\ sub[s].graceEndsAt <= now
     /\ sub'[s].status \in {"cancelled", "expired"} /\ sub'[s].graceEndsAt = sub[s].graceEndsAt

RequestWrite(s) ==
  /\ \A w \in Workers : ~SweepTakes(w)
  /\ sub[s].status = "absent" => \A t \in Subs : ~Live(t)
  /\ sub'[s].graceEndsAt \in {NoDate, sub[s].graceEndsAt}
  /\ sub'[s].status = "expired" => sub[s].status = "expired"

LEMMA SweepStepWrites ==
  ASSUME TypeInv, SerialInv, NEW w \in Workers, SweepStep(w), NEW s \in Subs
  PROVE  sub'[s] = sub[s] \/ SweepWrite(w, s)
<1>1. sub \in [Subs -> Row]
  BY DEF TypeInv, TypeOK
<1>2. ASSUME NEW d \in sweep[w].todo, Lapse(w, d) PROVE sub'[s] = sub[s] \/ SweepWrite(w, s)
  <2>1. pc[w] = "rows" /\ d.does = "lapse"
    BY <1>2 DEF Lapse, TakeRow
  <2>2. InTerm(sub[d.id]) /\ sub[d.id].renewsAt <= now /\ d.id \in Subs
    BY <2>1, DecisionRow
  <2> QED BY <1>1, <1>2, <2>2 DEF Lapse, SweepWrite, Row
<1>3. ASSUME NEW d \in sweep[w].todo, EndGrace(w, d) PROVE sub'[s] = sub[s] \/ SweepWrite(w, s)
  <2>1. pc[w] = "rows" /\ d.does = "end"
    BY <1>3 DEF EndGrace, TakeRow
  <2>2. /\ sub[d.id].status = "past_due" /\ d.id \in Subs
        /\ sub[d.id].graceEndsAt # NoDate /\ sub[d.id].graceEndsAt <= now
    BY <2>1, DecisionRow
  <2> QED BY <1>1, <1>3, <2>2 DEF EndGrace, SweepWrite, Row
<1>4. ASSUME \/ SweepStart(w) \/ SweepRead(w) \/ CountUnread(w) \/ Deliver(w) \/ SweepDone(w)
             \/ \E d \in sweep[w].todo : Remind(w, d)
      PROVE sub' = sub
  BY <1>4 DEF SweepStart, SweepRead, CountUnread, Deliver, SweepDone, Remind
<1> QED BY <1>2, <1>3, <1>4 DEF SweepStep

LEMMA HandlerStepWrites ==
  ASSUME TypeInv, SerialInv, NEW w \in Workers, HandlerStep(w), NEW s \in Subs
  PROVE  sub'[s] = sub[s] \/ RequestWrite(s)
<1>1. sub \in [Subs -> Row]
  BY DEF TypeInv, TypeOK
<1>2. CASE UNCHANGED sub
  BY <1>2
<1>3. ASSUME NEW op, NEW x, NEW row, Write(w, op, x, row), x \in Subs /\ x = s,
             x = found[w].id \/ found[w].id = NoSub,
             row.graceEndsAt \in {NoDate, sub[s].graceEndsAt},
             row.status = "expired" => sub[s].status = "expired"
      PROVE RequestWrite(s)
  <2>1. /\ pc[w] = "write" /\ pc' = [pc EXCEPT ![w] = "idle"] /\ sub' = [sub EXCEPT ![x] = row]
    BY <1>3 DEF Write, Finish
  <2>2. \A v \in Workers : ~SweepTakes(v)
    BY <2>1 DEF SweepTakes, TypeInv, TypeOK
  <2>3. sub[s].status = "absent" => \A t \in Subs : ~Live(t)
    BY <1>3, <2>1, SubsAssumption DEF SerialInv, HandlerInv
  <2> QED BY <1>1, <1>3, <2>1, <2>2, <2>3 DEF RequestWrite
<1>4. ASSUME NEW op, NEW x, NEW row, Write(w, op, x, row), x # s
      PROVE sub'[s] = sub[s]
  BY <1>1, <1>4 DEF Write
<1>5. ASSUME NEW c, NEW d PROVE /\ Activated(s, c, d).graceEndsAt = NoDate
                                /\ Activated(s, c, d).status # "expired"
  BY <1>1 DEF Activated, Row
<1>6. ASSUME WriteRenew(w) PROVE sub'[s] = sub[s] \/ RequestWrite(s)
  BY <1>3, <1>4, <1>5, <1>6 DEF WriteRenew
<1>7. ASSUME WriteApprove(w) PROVE sub'[s] = sub[s] \/ RequestWrite(s)
  BY <1>3, <1>4, <1>5, <1>7 DEF WriteApprove
<1>8. ASSUME WriteChangePlan(w) PROVE sub'[s] = sub[s] \/ RequestWrite(s)
  <2>1. \A c : /\ [sub[s] EXCEPT !.cycle = c].graceEndsAt = sub[s].graceEndsAt
               /\ [sub[s] EXCEPT !.cycle = c].status = sub[s].status
    BY <1>1 DEF Row
  <2>2. PICK row : /\ Write(w, "changePlan", found[w].id, row)
                   /\ \/ \E c, d : row = Activated(found[w].id, c, d)
                      \/ \E c : row = [sub[found[w].id] EXCEPT !.cycle = c]
    BY <1>8 DEF WriteChangePlan
  <2>3. found[w].id = s => /\ row.graceEndsAt \in {NoDate, sub[s].graceEndsAt}
                           /\ row.status = "expired" => sub[s].status = "expired"
    <3>1. ASSUME NEW c, NEW d, row = Activated(found[w].id, c, d), found[w].id = s
          PROVE  row.graceEndsAt = NoDate /\ row.status # "expired"
      BY <1>5, <3>1
    <3>2. ASSUME NEW c, row = [sub[found[w].id] EXCEPT !.cycle = c], found[w].id = s
          PROVE  row.graceEndsAt = sub[s].graceEndsAt /\ row.status = sub[s].status
      BY <2>1, <3>2
    <3> QED BY <2>2, <3>1, <3>2
  <2> QED BY <1>3, <1>4, <2>2, <2>3
<1>9. ASSUME WriteUpdate(w) PROVE sub'[s] = sub[s] \/ RequestWrite(s)
  <2>1. req[w].dto.status # "expired"
    BY DEF TypeInv, TypeOK, Req, Dto
  <2>2. PICK row : /\ Write(w, "update", found[w].id, row)
                   /\ row.status \in {sub[found[w].id].status, req[w].dto.status}
                   /\ row.graceEndsAt \in {NoDate, sub[found[w].id].graceEndsAt}
    BY <1>9 DEF WriteUpdate
  <2> QED BY <1>3, <1>4, <2>1, <2>2
<1>10. ASSUME WriteCreate(w) PROVE sub'[s] = sub[s] \/ RequestWrite(s)
  <2>1. req[w].dto.status # "expired"
    BY DEF TypeInv, TypeOK, Req, Dto
  <2> QED BY <1>3, <1>4, <1>10, <2>1 DEF WriteCreate, Free
<1>11. ASSUME Lookup(w) \/ Find(w) \/ FindNone(w) \/ Refuse(w) PROVE UNCHANGED sub
  BY <1>11 DEF Lookup, Find, FindNone, Refuse
<1> QED BY <1>2, <1>6, <1>7, <1>8, <1>9, <1>10, <1>11 DEF HandlerStep

\* Every change of a row is a write of a sweep or of a request.
LEMMA StepWrites ==
  ASSUME ~Overlap, TypeInv, SerialInv, [Next]_vars, NEW s \in Subs, sub'[s] # sub[s]
  PROVE  (\E w \in Workers : SweepWrite(w, s)) \/ RequestWrite(s)
<1>1. ASSUME NEW x \in Subs, AdminCancel(x) PROVE RequestWrite(s)
  <2>1. x = s /\ sub[s].status # "absent" /\ sub'[s].status = "cancelled"
        /\ sub'[s].graceEndsAt = NoDate /\ UNCHANGED pc
    BY <1>1 DEF AdminCancel, TypeInv, TypeOK, Row
  <2> QED BY <2>1 DEF RequestWrite, SweepTakes
<1>2. ASSUME NEW w \in Workers, \/ BeginSweep(w) \/ Arrive(w) \/ FailSweep(w) \/ FailRequest(w)
      PROVE UNCHANGED sub
  BY <1>2 DEF BeginSweep, Arrive, BeginRenew, BeginAttach, BeginAdminRenew, BeginUpdate,
       BeginCreate, BeginChangePlan, BeginApprove, Begin, FailSweep, FailRequest
<1>3. ASSUME \/ Tick \/ Restart \/ UNCHANGED vars
             \/ \E m \in Members, x \in Subs, k \in Kinds : MarkRead(m, x, k)
      PROVE UNCHANGED sub
  BY <1>3 DEF Tick, Restart, vars, MarkRead
<1> QED BY <1>1, <1>2, <1>3, SweepStepWrites, HandlerStepWrites DEF Next, Workers

-----------------------------------------------------------------------------
(* The theorems.                                                           *)

LEMMA SerialInvariant == ASSUME ~Overlap PROVE Spec => [](TypeInv /\ SerialInv)
<1>1. Init => TypeInv /\ SerialInv
  BY InitType, InitSerial
<1>2. TypeInv /\ SerialInv /\ [Next]_vars => TypeInv' /\ SerialInv'
  BY NextType, NextSerial
<1> QED BY <1>1, <1>2, PTL DEF Spec

\* A sweep that takes a row and changes it makes one of its own two writes.
LEMMA TakesWrites ==
  ASSUME ~Overlap, TypeInv, SerialInv, [Next]_vars, NEW w \in Workers, SweepTakes(w),
         NEW s \in Subs, sub'[s] # sub[s]
  PROVE  \E v \in Workers : SweepWrite(v, s)
BY StepWrites DEF RequestWrite

\* A renewal, plan change or edit that finished before is never undone by a lapse: a row
\* gets a grace date only when the term it now has is over.
THEOREM LapseSafe == ASSUME ~Overlap PROVE Spec => LapseOnlyAtTermEnd
<1>1. ASSUME TypeInv, SerialInv, [Next]_vars, NEW s \in Subs,
             sub'[s].graceEndsAt # sub[s].graceEndsAt, sub'[s].graceEndsAt # NoDate
      PROVE  InTerm(sub[s]) /\ sub[s].renewsAt <= now
  BY <1>1, StepWrites DEF SweepWrite, RequestWrite
<1>2. TypeInv /\ SerialInv /\ [Next]_vars
        => [\A s \in Subs :
              (sub'[s].graceEndsAt # sub[s].graceEndsAt /\ sub'[s].graceEndsAt # NoDate)
                => InTerm(sub[s]) /\ sub[s].renewsAt <= now]_vars
  BY <1>1
<1> QED BY <1>2, SerialInvariant, PTL DEF Spec, LapseOnlyAtTermEnd

\* Only a subscription whose own grace date has come expires.
THEOREM ExpirySafe == ASSUME ~Overlap PROVE Spec => ExpiryOnlyAfterGrace
<1>1. ASSUME TypeInv, SerialInv, [Next]_vars, NEW s \in Subs,
             sub'[s].status = "expired", sub[s].status # "expired"
      PROVE  /\ sub[s].status = "past_due"
             /\ sub[s].graceEndsAt # NoDate /\ sub[s].graceEndsAt <= now
  BY <1>1, StepWrites DEF SweepWrite, RequestWrite
<1>2. TypeInv /\ SerialInv /\ [Next]_vars
        => [\A s \in Subs :
              (sub'[s].status = "expired" /\ sub[s].status # "expired")
                => /\ sub[s].status = "past_due"
                   /\ sub[s].graceEndsAt # NoDate /\ sub[s].graceEndsAt <= now]_vars
  BY <1>1
<1> QED BY <1>2, SerialInvariant, PTL DEF Spec, ExpiryOnlyAfterGrace

\* No sweep writes a cancelled row.
THEOREM CancelledSafe == ASSUME ~Overlap PROVE Spec => SweepLeavesCancelledAlone
<1>1. ASSUME TypeInv, SerialInv, [Next]_vars, NEW w \in Workers, NEW s \in Subs,
             pc[w] = "rows", pc'[w] = "count", sub[s].status = "cancelled"
      PROVE  sub'[s] = sub[s]
  BY <1>1, TakesWrites DEF SweepTakes, SweepWrite, InTerm
<1>2. TypeInv /\ SerialInv /\ [Next]_vars
        => [\A w \in Workers, s \in Subs :
              (pc[w] = "rows" /\ pc'[w] = "count" /\ sub[s].status = "cancelled")
                => sub'[s] = sub[s]]_vars
  BY <1>1
<1> QED BY <1>2, SerialInvariant, PTL DEF Spec, SweepLeavesCancelledAlone

\* An expired subscription is brought back by requests only.
THEOREM EndedSafe == ASSUME ~Overlap PROVE Spec => EndedStaysEnded
<1>1. ASSUME TypeInv, SerialInv, [Next]_vars, NEW s \in Subs, NEW w \in Workers,
             sub[s].status = "expired", sub'[s].status # "expired",
             pc[w] = "rows", pc'[w] = "count"
      PROVE  FALSE
  BY <1>1, TakesWrites DEF SweepTakes, SweepWrite, InTerm
<1>2. TypeInv /\ SerialInv /\ [Next]_vars
        => [\A s \in Subs :
              (sub[s].status = "expired" /\ sub'[s].status # "expired")
                => \A w \in Workers : ~(pc[w] = "rows" /\ pc'[w] = "count")]_vars
  BY <1>1
<1> QED BY <1>2, SerialInvariant, PTL DEF Spec, EndedStaysEnded

\* A row is inserted only into an organisation without a live one.
THEOREM InsertSafe == ASSUME ~Overlap PROVE Spec => InsertOnlyWithoutLive
<1>1. ASSUME TypeInv, SerialInv, [Next]_vars, NEW s \in Subs,
             sub[s].status = "absent", sub'[s].status # "absent"
      PROVE  \A t \in Subs : ~Live(t)
  BY <1>1, StepWrites DEF SweepWrite, RequestWrite, InTerm
<1>2. TypeInv /\ SerialInv /\ [Next]_vars
        => [\A s \in Subs :
              (sub[s].status = "absent" /\ sub'[s].status # "absent")
                => \A t \in Subs : ~Live(t)]_vars
  BY <1>1
<1> QED BY <1>2, SerialInvariant, PTL DEF Spec, InsertOnlyWithoutLive

-----------------------------------------------------------------------------
(* Notices: a sweep that is about to deliver has found nothing unread.     *)

NoticeInv ==
  /\ OneUnreadNotice
  /\ \A w \in Workers : pc[w] = "deliver" =>
       \A m \in Members : unread[sweep[w].id][sweep[w].kind][m] = 0

\* A step that neither writes notices nor sends a handler to deliver.
LEMMA NoticesUntouched ==
  ASSUME NoticeInv, UNCHANGED unread,
         \A w \in Workers : pc'[w] = "deliver" => pc[w] = "deliver" /\ sweep'[w] = sweep[w]
  PROVE  NoticeInv'
<1>1. OneUnreadNotice'
  BY DEF NoticeInv, OneUnreadNotice
<1>2. ASSUME NEW w \in Workers, pc'[w] = "deliver", NEW m \in Members
      PROVE  unread'[sweep'[w].id][sweep'[w].kind][m] = 0
  BY <1>2 DEF NoticeInv
<1> QED BY <1>1, <1>2 DEF NoticeInv

LEMMA CountUnreadNotices ==
  ASSUME TypeInv, NoticeInv, NEW w \in Workers, CountUnread(w)
  PROVE  NoticeInv'
<1>1. OneUnreadNotice'
  BY DEF NoticeInv, OneUnreadNotice, CountUnread
<1>2. ASSUME NEW v \in Workers, pc'[v] = "deliver", NEW m \in Members
      PROVE  unread'[sweep'[v].id][sweep'[v].kind][m] = 0
  <2>1. CASE v = w
    BY <1>2, <2>1 DEF CountUnread, TypeInv, TypeOK
  <2>2. CASE v # w
    <3>1. pc[v] = "deliver" /\ sweep'[v] = sweep[v] /\ unread' = unread
      BY <1>2, <2>2 DEF CountUnread, TypeInv, TypeOK
    <3> QED BY <3>1 DEF NoticeInv
  <2> QED BY <2>1, <2>2
<1> QED BY <1>1, <1>2 DEF NoticeInv

\* Delivering raises counts that are all zero, and nobody else is about to deliver.
LEMMA DeliverNotices ==
  ASSUME TypeInv, SerialInv, NoticeInv, NEW w \in Workers, Deliver(w)
  PROVE  NoticeInv'
<1> DEFINE x == sweep[w].id
           k == sweep[w].kind
<1>1. \A m \in Members : unread[x][k][m] = 0
  BY DEF NoticeInv, Deliver
<1>2. ASSUME NEW s \in Subs, NEW j \in Kinds, NEW m \in Members
      PROVE  unread'[s][j][m] <= 1
  <2>1. unread[s][j][m] <= 1
    BY DEF NoticeInv, OneUnreadNotice
  <2>2. s = x /\ j = k => unread'[s][j][m] = unread[x][k][m] + 1
    BY DEF Deliver, TypeInv, TypeOK
  <2>3. ~(s = x /\ j = k) => unread'[s][j][m] = unread[s][j][m]
    BY DEF Deliver, TypeInv, TypeOK
  <2> QED BY <1>1, <2>1, <2>2, <2>3
<1>3. \A v \in Workers : pc'[v] # "deliver"
  BY DEF Deliver, TypeInv, TypeOK, SerialInv, Exclusive
<1> QED BY <1>2, <1>3 DEF NoticeInv, OneUnreadNotice

LEMMA MarkReadNotices ==
  ASSUME TypeInv, NoticeInv, NEW m \in Members, NEW s \in Subs, NEW k \in Kinds,
         MarkRead(m, s, k)
  PROVE  NoticeInv'
<1>1. unread \in [Subs -> [Kinds -> [Members -> Nat]]]
  BY DEF TypeInv, TypeOK
<1>2. ASSUME NEW t, NEW j, NEW n \in Members
      PROVE  \/ unread'[t][j][n] = unread[t][j][n]
             \/ /\ t = s /\ j = k /\ n = m /\ unread[s][k][m] > 0
                /\ unread'[t][j][n] = unread[s][k][m] - 1
  BY <1>1 DEF MarkRead
<1>3. OneUnreadNotice'
  <2> SUFFICES ASSUME NEW t \in Subs, NEW j \in Kinds, NEW n \in Members
               PROVE  unread'[t][j][n] <= 1
    BY DEF OneUnreadNotice
  <2>1. unread[t][j][n] <= 1 /\ unread[t][j][n] \in Nat
    BY <1>1 DEF NoticeInv, OneUnreadNotice
  <2> QED BY <1>2, <2>1
<1>4. ASSUME NEW w \in Workers, pc'[w] = "deliver", NEW n \in Members
      PROVE  unread'[sweep'[w].id][sweep'[w].kind][n] = 0
  <2>1. pc' = pc /\ sweep' = sweep
    BY DEF MarkRead
  <2>2. unread[sweep[w].id][sweep[w].kind][n] = 0
    BY <1>4, <2>1 DEF NoticeInv
  <2> QED BY <1>2, <2>1, <2>2
<1> QED BY <1>3, <1>4 DEF NoticeInv

LEMMA NextNotices ==
  ASSUME ~Overlap, TypeInv, SerialInv, NoticeInv, [Next]_vars
  PROVE  NoticeInv'
<1> USE NoticesUntouched
<1>1. ASSUME NEW w \in Workers, BeginSweep(w) \/ Arrive(w) PROVE NoticeInv'
  <2>1. PICK r, phase : Begin(w, r, phase) /\ phase # "deliver"
    BY <1>1 DEF BeginSweep, Arrive, BeginRenew, BeginAttach, BeginAdminRenew, BeginUpdate,
         BeginCreate, BeginChangePlan, BeginApprove
  <2> QED BY <2>1 DEF Begin, TypeInv, TypeOK
<1>2. ASSUME NEW w \in Workers, SweepStart(w) \/ SweepRead(w) PROVE NoticeInv'
  BY <1>2 DEF SweepStart, SweepRead, TypeInv, TypeOK
<1>3. ASSUME NEW w \in Workers, NEW d \in sweep[w].todo, Lapse(w, d) \/ Remind(w, d) \/ EndGrace(w, d)
      PROVE  NoticeInv'
  <2>1. PICK does, kind : TakeRow(w, d, does, kind)
    BY <1>3 DEF Lapse, Remind, EndGrace
  <2> QED BY <2>1 DEF TakeRow, TypeInv, TypeOK
<1>4. ASSUME NEW w \in Workers, LeaveSweep(w), UNCHANGED unread PROVE NoticeInv'
  BY <1>4 DEF LeaveSweep, TypeInv, TypeOK
<1>5. ASSUME NEW w \in Workers, SweepDone(w) \/ FailSweep(w) PROVE NoticeInv'
  BY <1>4, <1>5 DEF SweepDone, FailSweep
<1>6. ASSUME NEW w \in Workers, SweepStep(w) PROVE NoticeInv'
  BY <1>2, <1>3, <1>5, <1>6, CountUnreadNotices, DeliverNotices DEF SweepStep
<1>7. ASSUME NEW w \in Workers, Finish(w), UNCHANGED <<unread, sweep>> PROVE NoticeInv'
  BY <1>7 DEF Finish, TypeInv, TypeOK
<1>8. ASSUME NEW w \in Workers, Lookup(w) \/ Find(w) \/ FindNone(w) PROVE NoticeInv'
  BY <1>8 DEF Lookup, Find, FindNone, TypeInv, TypeOK
<1>9. ASSUME NEW w \in Workers, HandlerStep(w) PROVE NoticeInv'
  BY <1>7, <1>8, <1>9 DEF HandlerStep, Refuse, WriteRenew, WriteChangePlan, WriteApprove,
       WriteUpdate, WriteCreate, Write
<1>10. ASSUME NEW w \in Workers, FailRequest(w) PROVE NoticeInv'
  BY <1>7, <1>10 DEF FailRequest
<1>11. ASSUME NEW s \in Subs, AdminCancel(s) PROVE NoticeInv'
  BY <1>11 DEF AdminCancel
<1>12. ASSUME Tick \/ UNCHANGED vars PROVE NoticeInv'
  BY <1>12 DEF Tick, vars
<1>13. ASSUME Restart PROVE NoticeInv'
  BY <1>13 DEF Restart
<1> QED BY <1>1, <1>5, <1>6, <1>9, <1>10, <1>11, <1>12, <1>13, MarkReadNotices DEF Next, Workers

\* However many sweeps pass over a subscription, no member is told twice before reading.
THEOREM NoticeSafe == ASSUME ~Overlap PROVE Spec => []OneUnreadNotice
<1>1. Init => NoticeInv
  BY DEF Init, NoticeInv, OneUnreadNotice
<1>2. TypeInv /\ SerialInv /\ NoticeInv /\ [Next]_vars => NoticeInv'
  BY NextNotices
<1>3. NoticeInv => OneUnreadNotice
  BY DEF NoticeInv
<1> QED BY <1>1, <1>2, <1>3, SerialInvariant, PTL DEF Spec

-----------------------------------------------------------------------------
(* The rules: handlers that do not overlap implement SubscriptionRules.    *)

Policies == Configs \cup {DefaultConfig}

\* A request names a body that can be sent.
Proper(r) ==
  /\ r.op = "create" => r.dto \in CreateDtos
  /\ r.op = "update" => r.dto \in UpdateDtos
  /\ r.op \in {"changePlan", "approve", "attach"} => \E c \in Cycles : r.dto = CycleDto(c)

RequestOK(w) == Proper(req[w]) /\ req[w].at <= now /\ sweep[w].cfg \in Policies

\* The row that a handler is about to write is as the handler has seen it.
SeenOK(w) ==
  /\ pc[w] = "lookup" => req[w].op \in {"adminRenew", "update"}
  /\ pc[w] = "write" =>
       IF found[w].id = NoSub THEN req[w].op \in Creators
       ELSE /\ found[w] = Seen(found[w].id)
            /\ req[w].op \notin {"adminRenew", "update"} => Live(found[w].id)

RulesInv == \A w \in Workers : RequestOK(w) /\ SeenOK(w)

LEMMA OwnRequests ==
  /\ Proper(NoReq) /\ Proper(SweepReq) /\ Proper(RenewReq) /\ Proper(OrgRenewReq)
  /\ NoReq.at = 0 /\ SweepReq.at = 0 /\ RenewReq.at = 0 /\ OrgRenewReq.at = 0
BY DEF Proper, NoReq, SweepReq, RenewReq, OrgRenewReq, Asked

LEMMA RequestKept ==
  ASSUME TypeInv, NEW w \in Workers, RequestOK(w), now' \in {now, now + 1},
         req'[w] = req[w] \/ (Proper(req'[w]) /\ req'[w].at \in {0, now}),
         sweep'[w].cfg = sweep[w].cfg \/ sweep'[w].cfg \in Policies
  PROVE  RequestOK(w)'
<1>1. now \in Nat /\ req[w].at \in Nat
  BY DEF TypeInv, TypeOK, Req
<1>2. Proper(req'[w]) <=> Proper(req[w])'
  BY DEF Proper
<1>3. req'[w].at <= now'
  BY <1>1 DEF RequestOK
<1> QED BY <1>2, <1>3 DEF RequestOK, Policies

\* A handler begins with such a request.
ProperBegin(w, r, phase) ==
  /\ Begin(w, r, phase) /\ Proper(r) /\ r.at \in {0, now}
  /\ phase \in {"sweep", "lookup", "find"}
  /\ phase = "lookup" => r.op \in {"adminRenew", "update"}

LEMMA AskedIs ==
  ASSUME NEW op, NEW target, NEW dto, NEW at
  PROVE  /\ Asked(op, target, dto, at).op = op /\ Asked(op, target, dto, at).dto = dto
         /\ Asked(op, target, dto, at).at = at
BY DEF Asked

LEMMA ArriveProper ==
  ASSUME NEW w \in Workers, BeginSweep(w) \/ Arrive(w)
  PROVE  \E r, phase : ProperBegin(w, r, phase)
<1>1. CASE BeginSweep(w)
  BY <1>1, OwnRequests DEF BeginSweep, ProperBegin
<1>2. CASE BeginRenew(w)
  BY <1>2, OwnRequests DEF BeginRenew, ProperBegin
<1>3. ASSUME NEW s \in Subs, BeginAdminRenew(w, s) PROVE \E r, phase : ProperBegin(w, r, phase)
  <2>1. ProperBegin(w, Asked("adminRenew", s, NoDto, 0), "lookup")
    BY <1>3, AskedIs DEF BeginAdminRenew, ProperBegin, Proper
  <2> QED BY <2>1
<1>4. ASSUME NEW s \in Subs, NEW dto \in UpdateDtos, BeginUpdate(w, s, dto)
      PROVE  \E r, phase : ProperBegin(w, r, phase)
  <2>1. ProperBegin(w, Asked("update", s, dto, 0), "lookup")
    BY <1>4, AskedIs DEF BeginUpdate, ProperBegin, Proper
  <2> QED BY <2>1
<1>5. ASSUME NEW dto \in CreateDtos, BeginCreate(w, dto)
      PROVE  \E r, phase : ProperBegin(w, r, phase)
  <2>1. ProperBegin(w, Asked("create", NoSub, dto, 0), "find")
    BY <1>5, AskedIs DEF BeginCreate, ProperBegin, Proper
  <2> QED BY <2>1
<1>6. ASSUME NEW c \in Cycles, NEW op \in {"changePlan", "approve", "attach"}, NEW at \in {0, now},
             Begin(w, Asked(op, NoSub, CycleDto(c), at), "find")
      PROVE  \E r, phase : ProperBegin(w, r, phase)
  <2>1. ProperBegin(w, Asked(op, NoSub, CycleDto(c), at), "find")
    BY <1>6, AskedIs DEF ProperBegin, Proper
  <2> QED BY <2>1
<1>7. CASE \E c \in Cycles : BeginChangePlan(w, c) \/ BeginApprove(w, c) \/ BeginAttach(w, c)
  BY <1>6, <1>7 DEF BeginChangePlan, BeginApprove, BeginAttach
<1> QED BY <1>1, <1>2, <1>3, <1>4, <1>5, <1>7 DEF Arrive

\* What a step asks of each handler, and with which policy it sweeps.
LEMMA RequestsKept ==
  ASSUME TypeInv, [Next]_vars, NEW v \in Workers, RequestOK(v)
  PROVE  RequestOK(v)'
<1>1. /\ req \in [Workers -> Req] /\ sweep \in [Workers -> Sweep]
      /\ DefaultConfig \in Policies /\ NoSweep.cfg = DefaultConfig
  BY DEF TypeInv, TypeOK, Policies, NoSweep
<1>2. ASSUME NEW w \in Workers, BeginSweep(w) \/ Arrive(w) PROVE RequestOK(v)'
  <2>1. PICK r, phase : ProperBegin(w, r, phase)
    BY <1>2, ArriveProper
  <2> QED BY <1>1, <2>1, RequestKept DEF ProperBegin, Begin
<1>3. ASSUME NEW w \in Workers, SweepStart(w) PROVE RequestOK(v)'
  <2>1. PICK c \in Policies : sweep' = [sweep EXCEPT ![w].cfg = c, ![w].at = now]
    BY <1>3 DEF SweepStart, Policies
  <2>2. sweep'[v].cfg \in {sweep[v].cfg, c}
    BY <1>1, <2>1 DEF Sweep
  <2> QED BY <1>3, <2>2, RequestKept DEF SweepStart
<1>4. ASSUME NEW w \in Workers, SweepRead(w) PROVE RequestOK(v)'
  <2>1. sweep'[v].cfg = sweep[v].cfg
    BY <1>1, <1>4 DEF SweepRead, Sweep
  <2> QED BY <1>4, <2>1, RequestKept DEF SweepRead
<1>5. ASSUME NEW w \in Workers, NEW d, NEW does, NEW kind, TakeRow(w, d, does, kind)
      PROVE  RequestOK(v)'
  <2>1. sweep'[v].cfg = sweep[v].cfg
    BY <1>1, <1>5 DEF TakeRow, Sweep
  <2> QED BY <1>5, <2>1, RequestKept DEF TakeRow
<1>6. ASSUME NEW w \in Workers, LeaveSweep(w), UNCHANGED now PROVE RequestOK(v)'
  <2>1. sweep'[v] = sweep[v] \/ sweep'[v] = NoSweep
    BY <1>1, <1>6 DEF LeaveSweep
  <2>2. req'[v] \in {req[v], NoReq, RenewReq}
    BY <1>1, <1>6 DEF LeaveSweep
  <2> QED BY <1>1, <1>6, <2>1, <2>2, OwnRequests, RequestKept
<1>7. ASSUME NEW w \in Workers, Finish(w), UNCHANGED <<now, sweep>> PROVE RequestOK(v)'
  BY <1>1, <1>7, OwnRequests, RequestKept DEF Finish
<1>8. ASSUME UNCHANGED <<req, sweep>>, now' \in {now, now + 1} PROVE RequestOK(v)'
  BY <1>8, RequestKept
<1>9. ASSUME NEW w \in Workers, SweepStep(w) \/ FailSweep(w) PROVE RequestOK(v)'
  BY <1>3, <1>4, <1>5, <1>6, <1>8, <1>9
     DEF SweepStep, CountUnread, Deliver, SweepDone, FailSweep, Lapse, Remind, EndGrace
<1>10. ASSUME NEW w \in Workers, HandlerStep(w) \/ FailRequest(w) PROVE RequestOK(v)'
  BY <1>7, <1>8, <1>10 DEF HandlerStep, Lookup, Find, FindNone, Refuse, WriteRenew,
     WriteChangePlan, WriteApprove, WriteUpdate, WriteCreate, Write, FailRequest
<1>11. CASE Restart
  <2>1. sweep'[v] = NoSweep /\ req'[v] \in {NoReq, SweepReq} /\ now' = now
    BY <1>11 DEF Restart
  <2> QED BY <1>1, <2>1, OwnRequests, RequestKept
<1>12. CASE \/ UNCHANGED vars \/ Tick \/ \E s \in Subs : AdminCancel(s)
            \/ \E m \in Members, s \in Subs, k \in Kinds : MarkRead(m, s, k)
  BY <1>8, <1>12 DEF vars, Tick, AdminCancel, MarkRead
<1> QED BY <1>2, <1>9, <1>10, <1>11, <1>12 DEF Next, Workers

\* Whoever stands before a row it has seen stands alone, and nothing writes the row.
LEMMA SeenKept ==
  ASSUME ~Overlap, TypeInv, SerialInv, RulesInv, [Next]_vars, NEW v \in Workers
  PROVE  SeenOK(v)'
<1>1. /\ pc \in [Workers -> Phases] /\ req \in [Workers -> Req] /\ found \in [Workers -> Found]
      /\ SeenOK(v) /\ Exclusive
  BY DEF TypeInv, TypeOK, RulesInv, SerialInv
<1>2. ASSUME pc'[v] \notin {"lookup", "write"} PROVE SeenOK(v)'
  BY <1>2 DEF SeenOK
<1>3. ASSUME pc'[v] = pc[v], req'[v] = req[v], found'[v] = found[v], UNCHANGED sub
      PROVE  SeenOK(v)'
  BY <1>1, <1>3 DEF SeenOK, Seen, Live
<1>4. ASSUME NEW w \in Workers, BeginSweep(w) \/ Arrive(w) PROVE SeenOK(v)'
  <2>1. PICK r, phase : ProperBegin(w, r, phase)
    BY <1>4, ArriveProper
  <2>2. CASE v = w
    <3>1. pc'[v] = phase /\ req'[v] = r
      BY <1>1, <2>1, <2>2 DEF ProperBegin, Begin
    <3> QED BY <2>1, <3>1 DEF ProperBegin, SeenOK
  <2>3. CASE v # w
    BY <1>1, <1>3, <2>1, <2>3 DEF ProperBegin, Begin
  <2> QED BY <2>2, <2>3
<1>5. ASSUME NEW w \in Workers, pc[w] # "idle", v # w, pc' = [pc EXCEPT ![w] = pc'[w]]
      PROVE  SeenOK(v)'
  BY <1>1, <1>2, <1>5 DEF Exclusive
<1>6. ASSUME NEW w \in Workers, SweepStep(w) \/ FailSweep(w) PROVE SeenOK(v)'
  <2>1. PICK p \in Phases \ {"lookup", "write"} : pc' = [pc EXCEPT ![w] = p]
    BY <1>6 DEF SweepStep, SweepStart, SweepRead, CountUnread, Deliver, SweepDone, FailSweep,
       LeaveSweep, Lapse, Remind, EndGrace, TakeRow, Phases
  <2>2. pc[w] # "idle"
    BY <1>6 DEF SweepStep, SweepStart, SweepRead, CountUnread, Deliver, SweepDone, FailSweep,
       Lapse, Remind, EndGrace, TakeRow
  <2>3. pc'[w] = p
    BY <1>1, <2>1
  <2> QED BY <1>2, <1>5, <2>1, <2>2, <2>3
<1>7. ASSUME NEW w \in Workers, Finish(w), pc[w] # "idle" PROVE SeenOK(v)'
  <2>1. pc' = [pc EXCEPT ![w] = "idle"] /\ pc'[w] = "idle"
    BY <1>1, <1>7 DEF Finish
  <2> QED BY <1>2, <1>5, <1>7, <2>1
<1>8. ASSUME NEW w \in Workers, Lookup(w) PROVE SeenOK(v)'
  <2>1. pc[w] = "lookup" /\ sub' = sub /\ req' = req
    BY <1>8 DEF Lookup
  <2>2. CASE pc' = [pc EXCEPT ![w] = "sweep"]
    BY <1>1, <1>2, <1>5, <2>1, <2>2
  <2>3. CASE /\ pc' = [pc EXCEPT ![w] = "write"]
             /\ found' = [found EXCEPT ![w] = Seen(req[w].target)]
    <3>1. req[w].target \in Subs /\ req[w].op \in {"adminRenew", "update"}
      BY <2>1 DEF TypeInv, ReqsComplete, RulesInv, SeenOK
    <3>2. CASE v = w
      <4>1. pc'[v] = "write" /\ found'[v] = Seen(req[v].target) /\ req'[v] = req[v]
        BY <1>1, <2>1, <2>3, <3>2
      <4>2. found'[v].id = req[v].target
        BY <4>1 DEF Seen
      <4>3. found'[v] = Seen(found[v].id)'
        BY <2>1, <4>1, <4>2 DEF Seen
      <4> QED BY <3>1, <3>2, <4>1, <4>2, <4>3, SubsAssumption DEF SeenOK
    <3> QED BY <1>1, <1>5, <2>1, <2>3, <3>2
  <2> QED BY <1>8, <2>2, <2>3 DEF Lookup
<1>9. ASSUME NEW w \in Workers, Find(w) PROVE SeenOK(v)'
  <2>1. PICK s \in Subs : Live(s) /\ found' = [found EXCEPT ![w] = Seen(s)]
    BY <1>9 DEF Find
  <2>2. pc[w] = "find" /\ pc' = [pc EXCEPT ![w] = "write"] /\ sub' = sub
    BY <1>9 DEF Find
  <2>3. CASE v = w
    <3>1. pc'[v] = "write" /\ found'[v] = Seen(s) /\ Seen(s).id = s
      BY <1>1, <2>1, <2>2, <2>3 DEF Seen
    <3>2. found'[v] = Seen(found[v].id)' /\ Live(found[v].id)'
      BY <2>1, <2>2, <3>1 DEF Seen, Live
    <3> QED BY <3>1, <3>2, SubsAssumption DEF SeenOK
  <2> QED BY <1>1, <1>5, <2>2, <2>3
<1>10. ASSUME NEW w \in Workers, FindNone(w) PROVE SeenOK(v)'
  <2>1. pc[w] = "find" /\ pc' = [pc EXCEPT ![w] = "write"] /\ req' = req
        /\ req[w].op \in Creators /\ found' = [found EXCEPT ![w] = NoRow]
    BY <1>10 DEF FindNone
  <2>2. CASE v = w
    BY <1>1, <2>1, <2>2 DEF SeenOK, NoRow
  <2> QED BY <1>1, <1>5, <2>1, <2>2
<1>11. ASSUME NEW w \in Workers, HandlerStep(w) \/ FailRequest(w) PROVE SeenOK(v)'
  BY <1>7, <1>8, <1>9, <1>10, <1>11 DEF HandlerStep, Refuse, WriteRenew,
     WriteChangePlan, WriteApprove, WriteUpdate, WriteCreate, Write, FailRequest
<1>12. ASSUME NEW s \in Subs, AdminCancel(s) PROVE SeenOK(v)'
  BY <1>2, <1>12 DEF AdminCancel, AllIdle
<1>13. CASE Restart
  BY <1>2, <1>13 DEF Restart
<1>14. CASE \/ UNCHANGED vars \/ Tick
            \/ \E m \in Members, s \in Subs, k \in Kinds : MarkRead(m, s, k)
  BY <1>3, <1>14 DEF vars, Tick, MarkRead
<1> QED BY <1>4, <1>6, <1>11, <1>12, <1>13, <1>14 DEF Next, Workers

LEMMA RulesInvariant == ASSUME ~Overlap PROVE Spec => [](TypeInv /\ SerialInv /\ RulesInv)
<1>1. Init => RulesInv
  BY OwnRequests DEF Init, RulesInv, RequestOK, SeenOK, Policies, NoSweep
<1>2. TypeInv /\ SerialInv /\ RulesInv /\ [Next]_vars => RulesInv'
  BY RequestsKept, SeenKept DEF RulesInv
<1> QED BY <1>1, <1>2, SerialInvariant, PTL DEF Spec

\* A step by one of the rules.
ByRules == [Rules!Next]_(Rules!vars)

LEMMA SameWords ==
  /\ Rules!NoDate = NoDate /\ Rules!Cycles = Cycles
  /\ \A c : Rules!Term(c) = Term(c)
  /\ \A s : (Rules!Live(s) <=> Live(s)) /\ (Rules!Present(s) <=> sub[s].status # "absent")
BY DEF Rules!NoDate, NoDate, Rules!Cycles, Cycles, Rules!Term, Term, Rules!Live, Live,
   Rules!Present

LEMMA OneRule ==
  ASSUME UNCHANGED now, NEW s \in Subs,
         \/ \E p \in Policies : Rules!Lapse(s, p) \/ Rules!EndGrace(s, p)
         \/ Rules!Renew(s) \/ Rules!Cancel(s)
         \/ \E c \in Cycles : \/ Rules!ChangePlan(s, c) \/ Rules!Approve(s, c)
                              \/ Rules!Subscribe(s, c)
         \/ \E dto \in CreateDtos : Rules!Create(s, dto)
         \/ \E dto \in UpdateDtos : Rules!Update(s, dto)
  PROVE  ByRules
<1>1. CASE sub' = sub
  BY <1>1 DEF ByRules, Rules!vars
<1>2. CASE sub' # sub
  BY <1>2, SameWords DEF ByRules, Rules!Next, Policies
<1> QED BY <1>1, <1>2

LEMMA LapseByRules ==
  ASSUME TypeInv, SerialInv, RulesInv, NEW w \in Workers, NEW d \in sweep[w].todo, Lapse(w, d)
  PROVE  ByRules
<1> DEFINE p == sweep[w].cfg
           row == [sub[d.id] EXCEPT !.status = "past_due",
                                    !.graceEndsAt = sub[d.id].renewsAt + p.grace]
<1>1. pc[w] = "rows" /\ d.does = "lapse" /\ now' = now
  BY DEF Lapse, TakeRow
<1>2. InTerm(sub[d.id]) /\ sub[d.id].renewsAt <= now /\ d.id \in Subs
  BY <1>1, DecisionRow
<1>3. p \in Policies
  BY DEF RulesInv, RequestOK
<1>4. d.graceEndsAt = sub[d.id].renewsAt + p.grace
  <2>1. d = Decision(d.id, sweep[w].cfg, sweep[w].at)
    BY <1>1 DEF SerialInv, HandlerInv
  <2> QED BY <2>1 DEF Decision
<1>5. sub' = [sub EXCEPT ![d.id] = row]
  BY <1>4 DEF Lapse
<1>6. Rules!Lapse(d.id, p)
  BY <1>1, <1>2, <1>5 DEF Rules!Lapse, Rules!Becomes, InTerm
<1> QED BY <1>1, <1>2, <1>3, <1>6, OneRule

LEMMA EndGraceByRules ==
  ASSUME TypeInv, SerialInv, RulesInv, NEW w \in Workers, NEW d \in sweep[w].todo, EndGrace(w, d)
  PROVE  ByRules
<1> DEFINE p == sweep[w].cfg
           row == [sub[d.id] EXCEPT !.status = IF p.behavior = "cancel" THEN "cancelled"
                                                                        ELSE "expired"]
<1>1. pc[w] = "rows" /\ d.does = "end" /\ now' = now
  BY DEF EndGrace, TakeRow
<1>2. /\ sub[d.id].status = "past_due" /\ d.id \in Subs
      /\ sub[d.id].graceEndsAt # NoDate /\ sub[d.id].graceEndsAt <= now
  BY <1>1, DecisionRow
<1>3. p \in Policies
  BY DEF RulesInv, RequestOK
<1>4. sub' = [sub EXCEPT ![d.id] = row]
  BY DEF EndGrace
<1>5. Rules!EndGrace(d.id, p)
  BY <1>1, <1>2, <1>4, SameWords DEF Rules!EndGrace, Rules!Becomes
<1> QED BY <1>1, <1>2, <1>3, <1>5, OneRule

\* What the writing handler knows.
LEMMA WriterKnows ==
  ASSUME TypeInv, SerialInv, RulesInv, NEW w \in Workers, NEW op, NEW s, NEW row,
         Write(w, op, s, row)
  PROVE  /\ req[w].op = op /\ Proper(req[w]) /\ req[w].at \in 0..now
         /\ sub' = [sub EXCEPT ![s] = row] /\ now' = now
         /\ op \notin Creators => found[w].id # NoSub
         /\ found[w].id # NoSub =>
              /\ found[w].id \in Subs /\ sub[found[w].id] \in Row
              /\ sub[found[w].id].status # "absent"
              /\ found[w].status = sub[found[w].id].status
              /\ found[w].cycle = sub[found[w].id].cycle
              /\ op \notin {"adminRenew", "update"} => Live(found[w].id)
         /\ found[w].id = NoSub => \A t \in Subs : ~Live(t)
<1>1. pc[w] = "write" /\ req[w].op = op /\ sub' = [sub EXCEPT ![s] = row] /\ now' = now
  BY DEF Write
<1>2. Proper(req[w]) /\ SeenOK(w) /\ HandlerInv(w) /\ req[w].at \in 0..now
  BY DEF RulesInv, RequestOK, SerialInv, TypeInv, TypeOK, Req
<1>3. op \notin Creators => found[w].id # NoSub
  BY <1>1, <1>2 DEF SeenOK
<1>4. ASSUME found[w].id # NoSub
      PROVE  /\ found[w].id \in Subs /\ sub[found[w].id] \in Row
             /\ sub[found[w].id].status # "absent"
             /\ found[w].status = sub[found[w].id].status
             /\ found[w].cycle = sub[found[w].id].cycle
             /\ op \notin {"adminRenew", "update"} => Live(found[w].id)
  <2>1. found[w].id \in Subs /\ sub[found[w].id].status # "absent"
    BY <1>1, <1>2, <1>4 DEF HandlerInv
  <2>2. /\ found[w] = Seen(found[w].id)
        /\ op \notin {"adminRenew", "update"} => Live(found[w].id)
    BY <1>1, <1>2, <1>4 DEF SeenOK
  <2>3. found[w].status = sub[found[w].id].status /\ found[w].cycle = sub[found[w].id].cycle
    BY <2>2 DEF Seen
  <2> QED BY <2>1, <2>2, <2>3 DEF TypeInv, TypeOK
<1>5. found[w].id = NoSub => \A t \in Subs : ~Live(t)
  BY <1>1, <1>2, SubsAssumption DEF HandlerInv
<1> QED BY <1>1, <1>2, <1>3, <1>4, <1>5

LEMMA ActivatedRow ==
  ASSUME NEW s, sub[s] \in Row, NEW c, NEW at
  PROVE  Activated(s, c, at) = [status |-> "active", cycle |-> c, renewsAt |-> at,
                                graceEndsAt |-> NoDate]
<1> DEFINE r == sub[s]
<1>1. r \in Row /\ Activated(s, c, at) = [r EXCEPT !.status = "active", !.cycle = c, !.renewsAt = at,
                                                !.graceEndsAt = NoDate]
  BY DEF Activated
<1> HIDE DEF r
<1> QED BY <1>1 DEF Row

LEMMA ActivatedRuns ==
  ASSUME NEW s, sub[s] \in Row, NEW c, NEW at, now' = now,
         sub' = [sub EXCEPT ![s] = Activated(s, c, at + Term(c))]
  PROVE  Rules!Runs(s, c, at)
<1> DEFINE row == Activated(s, c, at + Term(c))
<1>1. row = [status |-> "active", cycle |-> c, renewsAt |-> at + Term(c), graceEndsAt |-> NoDate]
  BY ActivatedRow
<1>2. sub' = [sub EXCEPT ![s] = row]
  OBVIOUS
<1>3. Rules!Term(c) = Term(c) /\ Rules!NoDate = NoDate
  BY SameWords
<1> HIDE DEF row
<1> QED BY ONLY <1>1, <1>2, <1>3, now' = now DEF Rules!Runs, Rules!Becomes

LEMMA WriteByRules ==
  ASSUME TypeInv, SerialInv, RulesInv, NEW w \in Workers,
         WriteRenew(w) \/ WriteChangePlan(w) \/ WriteApprove(w) \/ WriteUpdate(w) \/ WriteCreate(w)
  PROVE  ByRules
<1> DEFINE s == found[w].id  dto == req[w].dto
<1>0. \A op \in {"renew", "adminRenew", "update"} : op \notin Creators
  BY DEF Creators
<1>1. CASE WriteRenew(w)
  <2>1. PICK op \in {"renew", "adminRenew"} :
          Write(w, op, s, Activated(s, sub[s].cycle, now + Term(found[w].cycle)))
    BY <1>1 DEF WriteRenew
  <2>2. /\ s \in Subs /\ sub[s] \in Row /\ sub[s].status # "absent" /\ now' = now
        /\ sub' = [sub EXCEPT ![s] = Activated(s, sub[s].cycle, now + Term(sub[s].cycle))]
    BY <1>0, <2>1, WriterKnows
  <2>3. Rules!Renew(s)
    <3>1. Rules!Runs(s, sub[s].cycle, now)
      BY <2>2, ActivatedRuns
    <3> QED BY <2>2, <3>1 DEF Rules!Renew, Rules!Present
  <2> QED BY <2>2, <2>3, OneRule
<1>2. CASE WriteApprove(w)
  <2> DEFINE row == Activated(s, dto.cycle, req[w].at + Term(dto.cycle))
  <2>1. s # NoSub /\ Write(w, "approve", s, row)
    BY <1>2 DEF WriteApprove
  <2>2. /\ s \in Subs /\ sub[s] \in Row /\ Live(s) /\ now' = now
        /\ sub' = [sub EXCEPT ![s] = row] /\ req[w].at \in 0..now
        /\ Proper(req[w]) /\ req[w].op = "approve"
    BY <2>1, WriterKnows
  <2>3. PICK c \in Cycles : dto = CycleDto(c)
    BY <2>2 DEF Proper
  <2>4. dto.cycle = c
    BY <2>3 DEF CycleDto
  <2>5. Rules!Approve(s, c)
    <3>1. Rules!Runs(s, c, req[w].at)
      BY <2>2, <2>4, ActivatedRuns
    <3>2. Rules!Live(s)
      BY <2>2, SameWords
    <3> QED BY ONLY <2>2, <3>1, <3>2 DEF Rules!Approve
  <2> QED BY <2>2, <2>5, OneRule
<1>3. CASE WriteChangePlan(w)
  <2> DEFINE row == IF found[w].status \in {"expired", "paused"}
                    THEN Activated(s, dto.cycle, now + Term(dto.cycle))
                    ELSE [sub[s] EXCEPT !.cycle = dto.cycle]
  <2>1. s # NoSub /\ Write(w, "changePlan", s, row)
    BY <1>3 DEF WriteChangePlan
  <2>2. /\ s \in Subs /\ sub[s] \in Row /\ Live(s) /\ now' = now
        /\ sub' = [sub EXCEPT ![s] = row] /\ found[w].status = sub[s].status
        /\ Proper(req[w]) /\ req[w].op = "changePlan"
    BY <2>1, WriterKnows
  <2>3. PICK c \in Cycles : dto = CycleDto(c)
    BY <2>2 DEF Proper
  <2>4. dto.cycle = c
    BY <2>3 DEF CycleDto
  <2>5. Rules!ChangePlan(s, c)
    <3>1. CASE sub[s].status \in {"expired", "paused"}
      <4>1. Rules!Runs(s, c, now)
        BY <2>2, <2>4, <3>1, ActivatedRuns
      <4>2. Rules!Live(s)
        BY <2>2, SameWords
      <4> QED BY <3>1, <4>1, <4>2 DEF Rules!ChangePlan
    <3>2. CASE sub[s].status \notin {"expired", "paused"}
      BY <2>2, <2>4, <3>2, SameWords DEF Rules!ChangePlan, Rules!Becomes
    <3> QED BY <3>1, <3>2
  <2> QED BY <2>2, <2>5, OneRule
<1>4. CASE WriteUpdate(w)
  <2> DEFINE row == [status      |-> IF dto.status = "keep" THEN sub[s].status ELSE dto.status,
                     cycle       |-> IF dto.cycle = "keep" THEN sub[s].cycle ELSE dto.cycle,
                     renewsAt    |-> IF dto.renewsAt = NoDate THEN sub[s].renewsAt ELSE dto.renewsAt,
                     graceEndsAt |-> IF dto.status \in {"keep", "past_due"}
                                     THEN sub[s].graceEndsAt ELSE NoDate]
  <2>1. PICK new :
          /\ Write(w, "update", s, new)
          /\ new = [status      |-> IF dto.status = "keep" THEN sub[s].status ELSE dto.status,
                    cycle       |-> IF dto.cycle # "keep" THEN dto.cycle
                                    ELSE IF dto.replan THEN found[w].cycle ELSE sub[s].cycle,
                    renewsAt    |-> IF dto.renewsAt = NoDate THEN sub[s].renewsAt
                                    ELSE dto.renewsAt,
                    graceEndsAt |-> IF dto.status \in {"keep", "past_due"}
                                    THEN sub[s].graceEndsAt ELSE NoDate]
    BY <1>4 DEF WriteUpdate
  <2>2. /\ s \in Subs /\ sub[s].status # "absent" /\ now' = now
        /\ sub' = [sub EXCEPT ![s] = new] /\ found[w].cycle = sub[s].cycle
        /\ Proper(req[w]) /\ req[w].op = "update"
    BY <1>0, <2>1, WriterKnows
  <2>3. new = row /\ dto \in UpdateDtos
    BY <2>1, <2>2 DEF Proper
  <2>4. Rules!Update(s, dto)
    BY <2>2, <2>3, SameWords DEF Rules!Update, Rules!Becomes
  <2> QED BY <2>2, <2>3, <2>4, OneRule
<1>5. CASE WriteCreate(w)
  <2>1. PICK x \in Free, op \in Creators :
          Write(w, op, x, [status |-> dto.status, cycle |-> dto.cycle,
                           renewsAt |-> FirstTermEnd(req[w]), graceEndsAt |-> NoDate])
    BY <1>5 DEF WriteCreate
  <2>2. found[w].id = NoSub
    BY <1>5 DEF WriteCreate
  <2>3. /\ x \in Subs /\ sub[x].status = "absent" /\ now' = now /\ \A t \in Subs : ~Live(t)
        /\ Proper(req[w]) /\ req[w].op = op /\ req[w].at \in 0..now /\ now \in 0..now
        /\ sub' = [sub EXCEPT ![x] = [status |-> dto.status, cycle |-> dto.cycle,
                                      renewsAt |-> FirstTermEnd(req[w]), graceEndsAt |-> NoDate]]
    BY <2>1, <2>2, WriterKnows DEF Free, TypeInv, TypeOK
  <2>4. Rules!Vacant(x)
    BY <2>3, SameWords DEF Rules!Vacant
  <2>5. CASE op = "create"
    <3>1. dto \in CreateDtos
      BY <2>3, <2>5 DEF Proper
    <3>2. FirstTermEnd(req[w]) = IF dto.renewsAt # NoDate THEN dto.renewsAt
                                 ELSE now + Term(dto.cycle)
      BY <2>3, <2>5 DEF FirstTermEnd
    <3>3. Rules!Create(x, dto)
      BY <2>3, <2>4, <3>2, SameWords DEF Rules!Create, Rules!Becomes
    <3> QED BY <2>3, <3>1, <3>3, OneRule
  <2>6. CASE op # "create"
    <3>1. PICK c \in Cycles : dto = CycleDto(c)
      BY <2>3, <2>6 DEF Proper, Creators
    <3>2. dto.status = "active" /\ dto.cycle = c /\ dto.renewsAt = NoDate
      BY <3>1 DEF CycleDto
    <3>3. PICK at \in 0..now : FirstTermEnd(req[w]) = at + Term(c)
      BY <2>3, <3>2 DEF FirstTermEnd
    <3>4. Rules!Subscribe(x, c)
      BY <2>3, <2>4, <3>2, <3>3, SameWords DEF Rules!Subscribe, Rules!Runs, Rules!Becomes
    <3> QED BY <2>3, <3>4, OneRule
  <2> QED BY <2>5, <2>6
<1> QED BY <1>1, <1>2, <1>3, <1>4, <1>5

LEMMA CancelByRules == ASSUME NEW s \in Subs, AdminCancel(s) PROVE ByRules
<1>1. /\ sub[s].status # "absent" /\ now' = now
      /\ sub' = [sub EXCEPT ![s] = [sub[s] EXCEPT !.status = "cancelled", !.graceEndsAt = NoDate]]
  BY DEF AdminCancel
<1>2. Rules!Cancel(s)
  BY <1>1, SameWords DEF Rules!Cancel, Rules!Becomes
<1> QED BY <1>1, <1>2, OneRule

LEMMA StepByRules ==
  ASSUME ~Overlap, TypeInv, SerialInv, RulesInv, [Next]_vars
  PROVE  ByRules
<1>1. CASE UNCHANGED <<now, sub>>
  BY <1>1 DEF ByRules, Rules!vars
<1>2. CASE Tick
  BY <1>2 DEF Tick, ByRules, Rules!Next, Rules!Pass
<1>3. ASSUME NEW w \in Workers, SweepStep(w) PROVE ByRules
  BY <1>1, <1>3, LapseByRules, EndGraceByRules DEF SweepStep, SweepStart, SweepRead, CountUnread,
     Deliver, SweepDone, Remind, TakeRow
<1>4. ASSUME NEW w \in Workers, HandlerStep(w) PROVE ByRules
  BY <1>1, <1>4, WriteByRules DEF HandlerStep, Lookup, Find, FindNone, Refuse
<1>5. ASSUME NEW w \in Workers, BeginSweep(w) \/ Arrive(w) PROVE ByRules
  <2>1. PICK r, phase : ProperBegin(w, r, phase)
    BY <1>5, ArriveProper
  <2> QED BY <1>1, <2>1 DEF ProperBegin, Begin
<1>6. ASSUME \/ Restart \/ UNCHANGED vars \/ \E w \in Workers : FailSweep(w) \/ FailRequest(w)
             \/ \E m \in Members, s \in Subs, k \in Kinds : MarkRead(m, s, k)
      PROVE  ByRules
  BY <1>1, <1>6 DEF Restart, vars, FailSweep, FailRequest, MarkRead
<1> QED BY <1>2, <1>3, <1>4, <1>5, <1>6, CancelByRules DEF Next, Workers

(* For any rows, policies, terms and bodies, through failures and restarts: *)
(* without overlap every sweep of a row and every request has the effect   *)
(* that the rules give it at the moment of its write.                      *)
THEOREM RulesImplemented == ASSUME ~Overlap PROVE Spec => KeepsRules
<1>1. Init => Rules!Init
  BY SameWords DEF Init, Rules!Init, Absent
<1>2. TypeInv /\ SerialInv /\ RulesInv /\ [Next]_vars => [Rules!Next]_(Rules!vars)
  BY StepByRules DEF ByRules
<1> QED BY <1>1, <1>2, RulesInvariant, PTL DEF Spec, KeepsRules, Rules!Spec

=============================================================================
