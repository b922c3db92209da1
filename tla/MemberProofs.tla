----------------------------- MODULE MemberProofs -----------------------------
(***************************************************************************)
(* Proofs about SupportTickets, under every interleaving of its handlers,  *)
(* and about MCMembers, which puts it beside AccountSessions and           *)
(* BrowserSession: the types of all three, and what a ticket's end means   *)
(* while handlers do not overlap.                                          *)
(***************************************************************************)
EXTENDS MCMembers, AccountProofs, BrowserProofs, FiniteSetTheorems

-----------------------------------------------------------------------------
(* SupportTickets: type correctness.                                       *)

RowsOK  == /\ ticket \in [Tickets -> Ticket]
           /\ \A t \in Present : ticket[t].raiser \in Raisers
MarksOK == /\ unread \in [Tickets -> SUBSET Sides]
           /\ unseen \in [Tickets -> SUBSET Sides]
           /\ dismissed \in [Tickets -> SUBSET Sides]
\* A ticket is being raised by a member.
DesksOK == desk \in [Desks -> Desk] /\ \A d \in Raising : desk[d].of \in Raisers

TypeInv == RowsOK /\ MarksOK /\ DesksOK

LEMMA FreeType == Free \in Desk /\ Free.task = "none"
BY DEF Free, Desk, Tasks, Sides, Standing

LEMMA TaskType ==
  ASSUME NEW task \in Tasks, NEW of \in Tickets \cup Raisers
  PROVE  /\ [Free EXCEPT !.task = task, !.of = of] \in Desk
         /\ [Free EXCEPT !.task = task, !.of = of].task = task
         /\ [Free EXCEPT !.task = task, !.of = of].of = of
BY FreeType DEF Desk

LEMMA SeenType ==
  ASSUME NEW task \in Tasks, NEW of \in Tickets \cup Raisers, NEW seen \in Standing
  PROVE  /\ [Free EXCEPT !.task = task, !.of = of, !.seen = seen] \in Desk
         /\ [Free EXCEPT !.task = task, !.of = of, !.seen = seen].task = task
BY FreeType DEF Desk

LEMMA SideType ==
  ASSUME NEW task \in Tasks, NEW of \in Tickets \cup Raisers, NEW side \in Sides
  PROVE  /\ [Free EXCEPT !.task = task, !.of = of, !.side = side] \in Desk
         /\ [Free EXCEPT !.task = task, !.of = of, !.side = side].task = task
BY FreeType DEF Desk

LEMMA CountType == Cardinality(Present) \in Nat
<1>1. IsFiniteSet(Present)
  BY RetryAssumption, FS_Subset DEF Present
<1> QED BY <1>1, FS_CardinalityType

LEMMA DeskStep ==
  ASSUME DesksOK, NEW d \in Desks, NEW new \in Desk, desk' = [desk EXCEPT ![d] = new],
         new.task \in {"count", "create"} => new.of \in Raisers
  PROVE  DesksOK'
BY DEF DesksOK, Raising

LEMMA StartType ==
  ASSUME TypeInv, NEW d \in Desks, NEW new \in Desk, Start(d, new),
         new.task \in {"count", "create"} => new.of \in Raisers
  PROVE  TypeInv'
<1>1. DesksOK'
  BY DeskStep DEF TypeInv, Start
<1> QED BY <1>1 DEF TypeInv, RowsOK, MarksOK, Start, Present

LEMMA LeaveType ==
  ASSUME TypeInv, NEW d \in Desks, Leave(d)
  PROVE  DesksOK'
BY FreeType, DeskStep DEF TypeInv, Leave

LEMMA TakeType ==
  ASSUME TypeInv, NEW d \in Desks, NEW t \in Tickets,
         \/ TakeReply(d, t) \/ TakeAnswer(d, t) \/ TakeClose(d, t) \/ TakeHold(d, t)
         \/ TakeResume(d, t) \/ \E s \in Sides : TakeOpen(d, t, s)
  PROVE  TypeInv'
<1>1. ticket[t].status \in Standing
  BY DEF TypeInv, RowsOK, MarksOK, DesksOK, Ticket
<1>2. ASSUME NEW task \in Tasks \ {"count", "create"}, Take(d, task, t) PROVE TypeInv'
  <2> DEFINE new == [Free EXCEPT !.task = task, !.of = t]
  <2>2. new \in Desk /\ new.task = task
    BY TaskType
  <2>3. Start(d, new)
    BY <1>2 DEF Take
  <2> QED BY <2>2, <2>3, StartType
<1>3. CASE TakeAnswer(d, t)
  <2>1. "answer" \in Tasks
    BY DEF Tasks
  <2> DEFINE new == [Free EXCEPT !.task = "answer", !.of = t, !.seen = ticket[t].status]
  <2>2. new \in Desk /\ new.task = "answer"
    BY <1>1, <2>1, SeenType
  <2>3. Start(d, new)
    BY <1>3 DEF TakeAnswer
  <2> QED BY <2>2, <2>3, StartType
<1>4. ASSUME NEW s \in Sides, TakeOpen(d, t, s) PROVE TypeInv'
  <2>1. "mark" \in Tasks
    BY DEF Tasks
  <2> DEFINE new == [Free EXCEPT !.task = "mark", !.of = t, !.side = s]
  <2>2. new \in Desk /\ new.task = "mark"
    BY <2>1, SideType
  <2>3. Start(d, new)
    BY <1>4 DEF TakeOpen
  <2> QED BY <2>2, <2>3, StartType
<1> QED BY <1>2, <1>3, <1>4 DEF TakeReply, TakeClose, TakeHold, TakeResume, Tasks

LEMMA DeskStepType ==
  ASSUME TypeInv, NEW d \in Desks, TicketStep(d)
  PROVE  TypeInv'
<1>0. RowsOK /\ MarksOK /\ DesksOK /\ desk[d] \in Desk /\ \A t \in Tickets : ticket[t] \in Ticket
  BY DEF TypeInv, RowsOK, DesksOK
<1>r. ticket' = ticket => RowsOK'
  BY <1>0 DEF RowsOK, Present
<1>l. Leave(d) => DesksOK'
  BY LeaveType
<1>m. UNCHANGED <<unread, unseen, dismissed>> => MarksOK'
  BY <1>0 DEF MarksOK
<1>1. CASE Count(d)
  <2> DEFINE new == [desk[d] EXCEPT !.task = "create", !.count = Cardinality(Present)]
  <2>1. desk' = [desk EXCEPT ![d] = new]
    BY <1>1 DEF Count
  <2>2. new \in Desk /\ new.of = desk[d].of
    BY <1>0, CountType DEF Desk, Tasks
  <2>3. desk[d].of \in Raisers
    BY <1>0, <1>1 DEF Count, Raising, DesksOK
  <2>4. DesksOK'
    BY <1>0, <2>1, <2>2, <2>3, DeskStep
  <2> QED BY <1>1, <1>r, <1>m, <2>4 DEF Count, TypeInv
<1>2. CASE Create(d)
  <2>1. PICK t \in NewIds :
          /\ ticket' = [ticket EXCEPT ![t] = [status |-> "open", number |-> Number(d),
                                              raiser |-> desk[d].of]]
          /\ unread' = [unread EXCEPT ![t] = {"platform"}]
          /\ unseen' = [unseen EXCEPT ![t] = {"platform"}]
          /\ dismissed' = [dismissed EXCEPT ![t] = {}]
    BY <1>2 DEF Create
  <2>2. desk[d].of \in Raisers /\ desk[d].count \in Nat
    BY <1>0, <1>2 DEF Create, Raising, Desk, DesksOK
  <2> DEFINE new == [status |-> "open", number |-> Number(d), raiser |-> desk[d].of]
  <2>3. new \in Ticket /\ new.raiser \in Raisers
    BY <2>2 DEF Ticket, Standing, Number
  <2>4. ticket' = [ticket EXCEPT ![t] = new]
    BY <2>1
  <2> HIDE DEF new
  <2>5. RowsOK'
    BY <1>0, <2>3, <2>4 DEF RowsOK, Present
  <2>6. MarksOK'
    BY <1>0, <2>1 DEF MarksOK, Sides
  <2> QED BY <1>2, <2>5, <2>6, <1>l DEF Create, TypeInv
<1>3. CASE Retry(d)
  <2>1. CASE desk' = [desk EXCEPT ![d].task = "count", ![d].attempt = @ + 1]
    <3> DEFINE new == [desk[d] EXCEPT !.task = "count", !.attempt = desk[d].attempt + 1]
    <3>1. desk' = [desk EXCEPT ![d] = new]
      BY <2>1
    <3>2. new \in Desk /\ new.of = desk[d].of
      <4>1. desk[d].attempt + 1 \in Nat
        BY <1>0 DEF Desk
      <4>2. "count" \in Tasks
        BY DEF Tasks
      <4> QED BY <1>0, <4>1, <4>2 DEF Desk
    <3>3. desk[d].of \in Raisers
      BY <1>0, <1>3 DEF Retry, Raising, DesksOK
    <3>4. DesksOK'
      BY <1>0, <3>1, <3>2, <3>3, DeskStep
    <3> QED BY <1>3, <1>r, <1>m, <3>4 DEF Retry, TypeInv
  <2>2. CASE Leave(d)
    BY <1>3, <1>r, <1>m, <2>2, <1>l DEF Retry, TypeInv
  <2> QED BY <1>3, <2>1, <2>2 DEF Retry
<1>p. ASSUME NEW t, NEW side \in Sides, Post(t, side) PROVE MarksOK'
  BY <1>0, <1>p DEF Post, MarksOK
<1>4. CASE Reply(d)
  <2>1. MarksOK'
    BY <1>4, <1>p DEF Reply, Sides
  <2> QED BY <1>4, <1>r, <2>1, <1>l DEF Reply, TypeInv
<1>w. ASSUME NEW status \in Standing, desk[d].of \in Present,
             ticket' = [ticket EXCEPT ![desk[d].of].status = status]
      PROVE  RowsOK'
  <2>1. \A t \in Tickets : /\ ticket'[t].raiser = ticket[t].raiser
                           /\ t \in Present' => t \in Present
    BY <1>0, <1>w DEF Present, Ticket
  <2>2. ticket' \in [Tickets -> Ticket]
    BY <1>0, <1>w DEF RowsOK, Ticket
  <2>3. Present' \subseteq Tickets
    BY DEF Present
  <2> QED BY <1>0, <2>1, <2>2, <2>3 DEF RowsOK
<1>5. CASE Answer(d)
  <2>1. MarksOK'
    BY <1>5, <1>p DEF Answer, Sides
  <2> DEFINE status == IF desk[d].seen = "open" THEN "ongoing" ELSE ticket[desk[d].of].status
  <2>2. desk[d].of \in Present
    BY <1>5 DEF Answer, Writes
  <2>3. status \in Standing
    BY <1>0, <2>2 DEF Standing, Ticket, Present
  <2>4. ticket' = [ticket EXCEPT ![desk[d].of].status = status]
    BY <1>5 DEF Answer
  <2> HIDE DEF status
  <2> QED BY <1>5, <1>w, <2>1, <2>2, <2>3, <2>4, <1>l DEF Answer, TypeInv
<1>6. ASSUME NEW task, NEW status \in Standing, Move(d, task, status) PROVE TypeInv'
  <2>1. desk[d].of \in Present /\ desk[d].of \in Tickets
    BY <1>6 DEF Move, Writes, Present
  <2>2. RowsOK'
    BY <1>6, <1>w, <2>1 DEF Move
  <2>3. MarksOK'
    BY <1>0, <1>6 DEF Move, MarksOK, Sides
  <2> DEFINE new == [Free EXCEPT !.task = "mark", !.of = desk[d].of]
  <2>4. new \in Desk /\ new.task = "mark"
    BY <2>1, TaskType DEF Tasks
  <2>5. desk' = [desk EXCEPT ![d] = new]
    BY <1>6 DEF Move, Open
  <2>6. DesksOK'
    BY <1>0, <2>4, <2>5, DeskStep
  <2> QED BY <2>2, <2>3, <2>6 DEF TypeInv
<1>7. CASE Close(d) \/ Hold(d) \/ Resume(d)
  BY <1>6, <1>7 DEF Close, Hold, Resume, Standing
<1>8. CASE Mark(d)
  <2> DEFINE new == [desk[d] EXCEPT !.task = "show"]
  <2>1. new \in Desk /\ new.task = "show"
    BY <1>0 DEF Desk, Tasks
  <2>2. desk' = [desk EXCEPT ![d] = new]
    BY <1>8 DEF Mark
  <2>3. DesksOK'
    BY <1>0, <2>1, <2>2, DeskStep
  <2>4. MarksOK'
    BY <1>0, <1>8 DEF Mark, MarksOK
  <2> QED BY <1>8, <1>r, <2>3, <2>4 DEF Mark, TypeInv
<1>9. CASE Show(d)
  <2>1. MarksOK'
    BY <1>0, <1>9 DEF Show, MarksOK
  <2> QED BY <1>9, <1>r, <2>1, <1>l DEF Show, TypeInv
<1>10. CASE Fails(d)
  <2>1. MarksOK'
    BY <1>0, <1>10 DEF Fails, Dismiss, MarksOK
  <2> QED BY <1>10, <1>r, <2>1, <1>l DEF Fails, TypeInv
<1> QED BY <1>1, <1>2, <1>3, <1>4, <1>5, <1>7, <1>8, <1>9, <1>10 DEF TicketStep

LEMMA RemoveType ==
  ASSUME TypeInv, NEW r \in Raisers, RemoveMember(r)
  PROVE  TypeInv'
<1>1. NoRow \in Ticket /\ NoRow.status = "absent"
  BY DEF NoRow, Ticket, Standing
<1>2. RowsOK'
  BY <1>1 DEF RemoveMember, TypeInv, RowsOK, Present
<1>3. MarksOK'
  BY DEF RemoveMember, TypeInv, MarksOK
<1>4. \A d \in Desks : desk'[d] = Free \/ desk'[d] = desk[d]
  BY DEF RemoveMember
<1>5. desk' \in [Desks -> Desk]
  BY <1>4, FreeType DEF RemoveMember, TypeInv, DesksOK
<1>6. \A d \in Raising' : desk'[d].of \in Raisers
  BY <1>4, FreeType DEF Raising, TypeInv, DesksOK
<1> QED BY <1>2, <1>3, <1>5, <1>6 DEF TypeInv, DesksOK

LEMMA BellType ==
  ASSUME TypeInv, Bell
  PROVE  TypeInv'
<1>1. ASSUME NEW ts, NEW side, MarkRead(ts, side) PROVE TypeInv'
  <2>1. MarksOK'
    BY <1>1 DEF MarkRead, Dismiss, TypeInv, MarksOK
  <2> QED BY <1>1, <2>1 DEF MarkRead, TypeInv, RowsOK, DesksOK, Present, Raising
<1> QED BY <1>1 DEF Bell

LEMMA DeskNextType == TypeInv /\ [TicketNext]_ticketVars => TypeInv'
<1> SUFFICES ASSUME TypeInv, [TicketNext]_ticketVars PROVE TypeInv'
  OBVIOUS
<1>1. CASE UNCHANGED ticketVars
  BY <1>1 DEF ticketVars, TypeInv, RowsOK, MarksOK, DesksOK, Raising, Present
<1>2. ASSUME NEW d \in Desks, TicketStep(d) PROVE TypeInv'
  BY <1>2, DeskStepType
<1>3. ASSUME NEW d \in Desks, NEW r \in Raisers, Raise(d, r) PROVE TypeInv'
  <2> DEFINE new == [Free EXCEPT !.task = "count", !.of = r]
  <2>1. new \in Desk /\ new.of = r
    BY TaskType DEF Tasks
  <2>2. Start(d, new)
    BY <1>3 DEF Raise
  <2> QED BY <2>1, <2>2, StartType
<1>4. ASSUME NEW d \in Desks, NEW t \in Tickets,
             \/ TakeReply(d, t) \/ TakeAnswer(d, t) \/ TakeClose(d, t) \/ TakeHold(d, t)
             \/ TakeResume(d, t) \/ \E s \in Sides : TakeOpen(d, t, s)
      PROVE  TypeInv'
  BY <1>4, TakeType
<1>5. ASSUME NEW r \in Raisers, RemoveMember(r) PROVE TypeInv'
  BY <1>5, RemoveType
<1>6. CASE Bell
  BY <1>6, BellType
<1> QED BY <1>1, <1>2, <1>3, <1>4, <1>5, <1>6 DEF TicketNext

LEMMA DeskInitType == TicketInit => TypeInv
BY FreeType DEF TicketInit, TypeInv, RowsOK, MarksOK, DesksOK, NoRow, Ticket, Standing, Raising,
   Present

LEMMA TypeInvariant == TicketSpec => []TypeInv
BY DeskInitType, DeskNextType, PTL DEF TicketSpec

\* The desk's state has its type.
THEOREM TicketTypeCorrect == TicketSpec => []TicketTypeOK
<1>1. TypeInv => TicketTypeOK
  BY DEF TypeInv, RowsOK, MarksOK, DesksOK, TicketTypeOK
<1> QED BY <1>1, TypeInvariant, PTL

-----------------------------------------------------------------------------
(* SupportTickets: no message is lost.                                     *)

\* What a side is told of, or has chosen not to look at.
Told(t) == unread[t] \cup dismissed[t]

\* What is newly unshown is told of, and what was told of stays so.
Keeps ==
  \A t \in Tickets : \A s \in unseen'[t] :
    s \in Told(t)' \/ (s \in unseen[t] /\ (s \in Told(t) => s \in Told(t)'))

LEMMA MarksKept ==
  ASSUME UnshownIsUnread, Keeps,
         \A e \in Desks : desk[e].task = "show" => desk'[e] = desk[e]
  PROVE  UnshownIsUnread'
BY DEF UnshownIsUnread, Keeps, Told

LEMMA OtherDesks ==
  ASSUME TypeInv, NEW d \in Desks, NEW new, desk' = [desk EXCEPT ![d] = new],
         desk[d].task # "show"
  PROVE  \A e \in Desks : desk[e].task = "show" => desk'[e] = desk[e]
BY DEF TypeInv, RowsOK, MarksOK, DesksOK

LEMMA StepMarks ==
  ASSUME TypeInv, UnshownIsUnread, NEW d \in Desks, TicketStep(d)
  PROVE  UnshownIsUnread'
<1> USE DEF TypeInv, RowsOK, MarksOK, DesksOK
<1>1. CASE Count(d) \/ Retry(d)
  <2>1. \A e \in Desks : desk[e].task = "show" => desk'[e] = desk[e]
    BY <1>1 DEF Count, Retry, Leave
  <2> QED BY <1>1, <2>1, MarksKept DEF Count, Retry, Keeps, Told
<1>2. CASE Create(d)
  <2>1. \A e \in Desks : desk[e].task = "show" => desk'[e] = desk[e]
    BY <1>2 DEF Create, Leave
  <2>2. PICK t \in NewIds : /\ unread' = [unread EXCEPT ![t] = {"platform"}]
                            /\ unseen' = [unseen EXCEPT ![t] = {"platform"}]
                            /\ dismissed' = [dismissed EXCEPT ![t] = {}]
    BY <1>2 DEF Create
  <2>3. Keeps
    BY <2>2 DEF Keeps, Told
  <2> QED BY <2>1, <2>3, MarksKept
<1>3. CASE Reply(d) \/ Answer(d)
  <2>1. \A e \in Desks : desk[e].task = "show" => desk'[e] = desk[e]
    BY <1>3 DEF Reply, Answer, Writes, Leave
  <2>2. Keeps
    BY <1>3 DEF Reply, Answer, Post, Keeps, Told
  <2> QED BY <2>1, <2>2, MarksKept
<1>4. CASE Close(d) \/ Hold(d) \/ Resume(d)
  <2>1. \A e \in Desks : desk[e].task = "show" => desk'[e] = desk[e]
    BY <1>4 DEF Close, Hold, Resume, Move, Writes, Open
  <2>2. Keeps
    BY <1>4 DEF Close, Hold, Resume, Move, Keeps, Told
  <2> QED BY <2>1, <2>2, MarksKept
<1>5. CASE Mark(d)
  <2>1. /\ desk'[d].task = "show" /\ desk'[d].of = desk[d].of /\ desk'[d].side = desk[d].side
        /\ \A e \in Desks \ {d} : desk'[e] = desk[e]
    BY <1>5 DEF Mark, Desk
  <2>2. ASSUME NEW u \in Tickets, NEW s \in unseen'[u], s \notin Told(u)'
        PROVE  \E e \in Desks : desk'[e].task = "show" /\ desk'[e].of = u /\ desk'[e].side = s
    <3>1. s \in unseen[u]
      BY <1>5 DEF Mark
    <3>2. CASE u = desk[d].of /\ s = desk[d].side
      BY <2>1, <3>2
    <3>3. CASE ~(u = desk[d].of /\ s = desk[d].side)
      <4>1. s \notin Told(u)
        BY <1>5, <2>2, <3>3 DEF Mark, Told
      <4>2. PICK e \in Desks : desk[e].task = "show" /\ desk[e].of = u /\ desk[e].side = s
        BY <3>1, <4>1 DEF UnshownIsUnread, Told
      <4>3. desk'[e] = desk[e]
        BY <1>5, <2>1, <4>2 DEF Mark
      <4> QED BY <4>2, <4>3
    <3> QED BY <3>2, <3>3
  <2> QED BY <2>2 DEF UnshownIsUnread, Told
<1>6. CASE Show(d)
  <2>1. \A e \in Desks \ {d} : desk'[e] = desk[e]
    BY <1>6 DEF Show, Leave
  <2>2. ASSUME NEW u \in Tickets, NEW s \in unseen'[u], s \notin Told(u)'
        PROVE  \E e \in Desks : desk'[e].task = "show" /\ desk'[e].of = u /\ desk'[e].side = s
    <3>1. s \in unseen[u] /\ s \notin Told(u) /\ ~(u = desk[d].of /\ s = desk[d].side)
      BY <1>6, <2>2 DEF Show, Told
    <3>2. PICK e \in Desks : desk[e].task = "show" /\ desk[e].of = u /\ desk[e].side = s
      BY <3>1 DEF UnshownIsUnread, Told
    <3>3. desk'[e] = desk[e]
      BY <2>1, <3>1, <3>2
    <3> QED BY <3>2, <3>3
  <2> QED BY <2>2 DEF UnshownIsUnread, Told
<1>7. CASE Fails(d)
  <2>1. \A e \in Desks \ {d} : desk'[e] = desk[e]
    BY <1>7 DEF Fails, Leave
  <2>2. ASSUME NEW u \in Tickets, NEW s \in unseen'[u], s \notin Told(u)'
        PROVE  \E e \in Desks : desk'[e].task = "show" /\ desk'[e].of = u /\ desk'[e].side = s
    <3>1. /\ s \in unseen[u] /\ s \notin Told(u)
          /\ ~(desk[d].task = "show" /\ u = desk[d].of /\ s = desk[d].side)
      BY <1>7, <2>2 DEF Fails, Dismiss, Told
    <3>2. PICK e \in Desks : desk[e].task = "show" /\ desk[e].of = u /\ desk[e].side = s
      BY <3>1 DEF UnshownIsUnread, Told
    <3>3. desk'[e] = desk[e]
      BY <2>1, <3>1, <3>2
    <3> QED BY <3>2, <3>3
  <2> QED BY <2>2 DEF UnshownIsUnread, Told
<1> QED BY <1>1, <1>2, <1>3, <1>4, <1>5, <1>6, <1>7 DEF TicketStep

LEMMA StartMarks ==
  ASSUME TypeInv, UnshownIsUnread, NEW d \in Desks, NEW new, Start(d, new)
  PROVE  UnshownIsUnread'
<1>1. \A e \in Desks : desk[e].task = "show" => desk'[e] = desk[e]
  BY FreeType, OtherDesks DEF Start
<1> QED BY <1>1, MarksKept DEF Start, Keeps, Told

\* What the bell takes off one list it puts on the other.
LEMMA BellMarks ==
  ASSUME TypeInv, UnshownIsUnread, Bell
  PROVE  UnshownIsUnread'
<1>1. ASSUME NEW ts, NEW side, MarkRead(ts, side) PROVE UnshownIsUnread'
  <2>1. Keeps
    BY <1>1 DEF MarkRead, Dismiss, Keeps, Told, TypeInv, MarksOK
  <2> QED BY <1>1, <2>1, MarksKept DEF MarkRead
<1> QED BY <1>1 DEF Bell

LEMMA NextMarks == TypeInv /\ UnshownIsUnread /\ [TicketNext]_ticketVars => UnshownIsUnread'
<1> SUFFICES ASSUME TypeInv, UnshownIsUnread, [TicketNext]_ticketVars PROVE UnshownIsUnread'
  OBVIOUS
<1>1. CASE UNCHANGED ticketVars
  BY <1>1 DEF ticketVars, UnshownIsUnread
<1>2. ASSUME NEW d \in Desks, TicketStep(d) PROVE UnshownIsUnread'
  BY <1>2, StepMarks
<1>3. ASSUME NEW d \in Desks, NEW r \in Raisers, Raise(d, r) PROVE UnshownIsUnread'
  BY <1>3, StartMarks DEF Raise
<1>4. ASSUME NEW d \in Desks, NEW t \in Tickets,
             \/ TakeReply(d, t) \/ TakeAnswer(d, t) \/ TakeClose(d, t) \/ TakeHold(d, t)
             \/ TakeResume(d, t) \/ \E s \in Sides : TakeOpen(d, t, s)
      PROVE  UnshownIsUnread'
  BY <1>4, StartMarks
     DEF TakeReply, TakeAnswer, TakeClose, TakeHold, TakeResume, TakeOpen, Take
<1>5. ASSUME NEW r \in Raisers, RemoveMember(r) PROVE UnshownIsUnread'
  <2>1. \A e \in Desks : desk[e].task = "show" => desk'[e] = desk[e]
    BY <1>5 DEF RemoveMember, Raising
  <2>2. Keeps
    BY <1>5 DEF RemoveMember, Keeps, Told
  <2> QED BY <2>1, <2>2, MarksKept
<1>6. CASE Bell
  BY <1>6, BellMarks
<1> QED BY <1>1, <1>2, <1>3, <1>4, <1>5, <1>6 DEF TicketNext

\* However handlers overlap and fail, a message that a side has not been shown leaves its
\* ticket marked, unless the side cleared the mark from the bell or by a failed opening.
THEOREM NothingUnshownIsLost == TicketSpec => []UnshownIsUnread
<1>1. TicketInit => UnshownIsUnread
  BY DEF TicketInit, UnshownIsUnread
<1> QED BY <1>1, NextMarks, TypeInvariant, PTL DEF TicketSpec

-----------------------------------------------------------------------------
(* MCMembers: the types of its parts.                                      *)

MemberInv == AccountTypeOK /\ BrowserTypeOK /\ TypeInv

\* A step is a step of one part, and the others stand still.
LEMMA NextIsOneOfThem ==
  ASSUME [Next]_vars
  PROVE  [AccountNext]_accountVars /\ [BrowserNext]_browserVars /\ [TicketNext]_ticketVars
BY DEF Next, vars, Others

LEMMA MemberInvariant == Spec => []MemberInv
<1>1. Init => MemberInv
  BY InitTyped, BrowserInitType, DeskInitType DEF Init, MemberInv
<1>2. MemberInv /\ [Next]_vars => MemberInv'
  <2> SUFFICES ASSUME MemberInv, [Next]_vars PROVE MemberInv'
    OBVIOUS
  <2>1. [AccountNext]_accountVars /\ [BrowserNext]_browserVars /\ [TicketNext]_ticketVars
    BY NextIsOneOfThem
  <2> QED BY <2>1, StepTyped, NextType, DeskNextType DEF MemberInv
<1> QED BY <1>1, <1>2, PTL DEF Spec

(* The account, the browser and the desk keep their types, whichever of    *)
(* them a behaviour is of, for every value of the constants.               *)
THEOREM MembersTypeCorrect == Spec => []TypeOK
<1>1. MemberInv => TypeOK
  BY DEF MemberInv, TypeInv, RowsOK, MarksOK, DesksOK, TicketTypeOK, TypeOK
<1> QED BY <1>1, MemberInvariant, PTL

\* Of each part a behaviour shows a behaviour.
LEMMA PartsRun == Spec => AccountSpec /\ BrowserRuns /\ TicketSpec
<1>1. Init => AccountInit /\ BrowserInit /\ TicketInit
  BY DEF Init
<1>2. [Next]_vars => [AccountNext]_accountVars /\ [BrowserNext]_browserVars /\ [TicketNext]_ticketVars
  BY NextIsOneOfThem
<1> QED BY <1>1, <1>2, PTL DEF Spec, AccountSpec, BrowserRuns, TicketSpec

(* What a member meets keeps its promises of safety where handlers on an   *)
(* account do not overlap and the browser has one tab, for any number of   *)
(* tokens, links, calls, pairs, tickets and desks.                         *)
THEOREM MembersSafe ==
  ASSUME OneAtATime, OneTab
  PROVE  Spec => /\ []EvictedStaysOut /\ []StoredIsCurrent /\ []UnshownIsUnread
                 /\ OnlyAdminsReadmit /\ ExchangedOnce
<1>1. RefreshInv => StoredIsCurrent
  BY DEF RefreshInv
<1> QED BY <1>1, PartsRun, EvictedSafe, ReadmitSafe, RefreshInvariant, RunsExchangeOnce,
           NothingUnshownIsLost, PTL

-----------------------------------------------------------------------------
(* MCMembers: a resolved ticket.                                           *)

\* What has been read of a ticket in order to write to it.
Onward == {"reply", "answer", "close", "hold", "resume"}

First == CHOOSE d \in Desks : TRUE

\* While one handler alone is under way, the ticket that it has taken is still unresolved.
OnwardOpen ==
  \A d \in Desks : desk[d].task \in Onward => /\ desk[d].of \in Tickets
                                              /\ ticket[desk[d].of].status # "resolved"

AloneInv == part = "desk" => Busy \subseteq {First} /\ OnwardOpen

\* What a step does to a resolved ticket.
Stays ==
  \A t \in Tickets :
    ticket[t].status = "resolved" /\ ticket'[t].status # "absent" =>
      ticket'[t].status = "resolved" /\ unseen'[t] \subseteq unseen[t]

LEMMA FreeNotOnward == Free.task \notin Onward
BY FreeType DEF Onward

\* Taking a ticket, or raising one.
LEMMA StartOnward ==
  ASSUME TypeInv, OnwardOpen, NEW d \in Desks, NEW new \in Desk, Start(d, new),
         new.task \in Onward => new.of \in Tickets /\ ticket[new.of].status # "resolved"
  PROVE  OnwardOpen' /\ Stays
<1>1. /\ \A e \in Desks : desk'[e] = IF e = d THEN new ELSE desk[e]
      /\ ticket' = ticket /\ unseen' = unseen
  BY DEF Start, TypeInv, RowsOK, MarksOK, DesksOK
<1>2. OnwardOpen'
  BY <1>1 DEF OnwardOpen
<1> QED BY <1>1, <1>2 DEF Stays

LEMMA TakeOnward ==
  ASSUME TypeInv, OnwardOpen, NEW d \in Desks, NEW t \in Tickets,
         \/ TakeReply(d, t) \/ TakeAnswer(d, t) \/ TakeClose(d, t) \/ TakeHold(d, t)
         \/ TakeResume(d, t) \/ \E s \in Sides : TakeOpen(d, t, s)
  PROVE  OnwardOpen' /\ Stays
<1>1. ticket[t].status \in Standing
  BY DEF TypeInv, RowsOK, MarksOK, DesksOK, Ticket
<1>2. ASSUME NEW task \in Tasks, ticket[t].status # "resolved", Take(d, task, t)
      PROVE  OnwardOpen' /\ Stays
  <2> DEFINE new == [Free EXCEPT !.task = task, !.of = t]
  <2>1. new \in Desk /\ new.of = t
    BY TaskType
  <2>2. Start(d, new)
    BY <1>2 DEF Take
  <2> HIDE DEF new
  <2> QED BY <1>2, <2>1, <2>2, StartOnward
<1>3. CASE TakeAnswer(d, t)
  <2> DEFINE new == [Free EXCEPT !.task = "answer", !.of = t, !.seen = ticket[t].status]
  <2>1. "answer" \in Tasks
    BY DEF Tasks
  <2>2. new \in Desk /\ new.of = t
    BY <1>1, <2>1, SeenType, FreeType DEF Desk
  <2>3. Start(d, new) /\ ticket[t].status # "resolved"
    BY <1>3 DEF TakeAnswer, Unresolved
  <2> HIDE DEF new
  <2> QED BY <2>2, <2>3, StartOnward
<1>4. ASSUME NEW s \in Sides, TakeOpen(d, t, s) PROVE OnwardOpen' /\ Stays
  <2> DEFINE new == [Free EXCEPT !.task = "mark", !.of = t, !.side = s]
  <2>1. "mark" \in Tasks
    BY DEF Tasks
  <2>2. new \in Desk /\ new.task = "mark"
    BY <2>1, SideType
  <2>3. Start(d, new)
    BY <1>4 DEF TakeOpen
  <2> HIDE DEF new
  <2> QED BY <2>2, <2>3, StartOnward DEF Onward
<1>5. CASE TakeReply(d, t) \/ TakeClose(d, t) \/ TakeHold(d, t) \/ TakeResume(d, t)
  <2>1. ticket[t].status # "resolved"
    BY <1>5 DEF TakeReply, TakeClose, TakeHold, TakeResume, Unresolved
  <2> QED BY <1>2, <1>5, <2>1 DEF TakeReply, TakeClose, TakeHold, TakeResume, Tasks
<1> QED BY <1>3, <1>4, <1>5

\* The handler that goes on is the one that is busy; where it goes it writes no more.
LEMMA StepOnward ==
  ASSUME TypeInv, Busy \subseteq {First}, NEW d \in Desks, TicketStep(d)
  PROVE  OnwardOpen'
<1>1. desk \in [Desks -> Desk] /\ desk[d] \in Desk
  BY DEF TypeInv, RowsOK, MarksOK, DesksOK
<1>2. desk[d].task # "none" \/ desk[d] # Free
  BY DEF TicketStep, Count, Create, Retry, Reply, Answer, Close, Hold, Resume, Move, Mark,
         Show, Fails, Writes
<1>3. d \in Busy
  BY <1>2, FreeType DEF Busy
<1>4. ASSUME NEW e \in Desks, e # d PROVE desk[e] = Free
  BY <1>3, <1>4 DEF Busy
<1>5. \A e \in Desks : e # d => desk'[e] = desk[e]
  BY <1>1 DEF TicketStep, Count, Create, Retry, Reply, Answer, Close, Hold, Resume, Move, Mark,
         Show, Fails, Leave, Open
<1>6. desk'[d].task \notin Onward
  <2>1. CASE Leave(d)
    BY <1>1, <2>1, FreeNotOnward DEF Leave
  <2>2. CASE Open(d)
    <3>1. [Free EXCEPT !.task = "mark", !.of = desk[d].of].task = "mark"
      BY DEF Free
    <3> QED BY <1>1, <2>2, <3>1 DEF Open, Onward
  <2>3. CASE Count(d)
    BY <1>1, <2>3 DEF Count, Onward, Desk
  <2>4. CASE Mark(d)
    BY <1>1, <2>4 DEF Mark, Onward, Desk
  <2>5. CASE Retry(d) /\ ~Leave(d)
    BY <1>1, <2>5 DEF Retry, Onward, Desk
  <2> QED BY <2>1, <2>2, <2>3, <2>4, <2>5
      DEF TicketStep, Create, Reply, Answer, Close, Hold, Resume, Move, Show, Fails
<1> QED BY <1>4, <1>5, <1>6, FreeNotOnward DEF OnwardOpen

LEMMA StepStays ==
  ASSUME TypeInv, OnwardOpen, NEW d \in Desks, TicketStep(d)
  PROVE  Stays
<1>1. /\ ticket \in [Tickets -> Ticket] /\ unread \in [Tickets -> SUBSET Sides]
      /\ unseen \in [Tickets -> SUBSET Sides]
  BY DEF TypeInv, RowsOK, MarksOK, DesksOK
<1>2. CASE UNCHANGED <<ticket, unseen>>
  BY <1>2 DEF Stays
<1>3. CASE Create(d)
  <2>1. PICK t \in NewIds :
          /\ ticket' = [ticket EXCEPT ![t] = [status |-> "open", number |-> Number(d),
                                              raiser |-> desk[d].of]]
          /\ unseen' = [unseen EXCEPT ![t] = {"platform"}]
    BY <1>3 DEF Create
  <2>2. t \in Tickets /\ ticket[t].status = "absent"
    BY <2>1 DEF NewIds, Present
  <2>3. \A k \in Tickets : k # t => ticket'[k] = ticket[k] /\ unseen'[k] = unseen[k]
    BY <1>1, <2>1
  <2> QED BY <2>2, <2>3 DEF Stays
<1>4. ASSUME desk[d].task \in Onward,
             \A k \in Tickets : k # desk[d].of =>
               ticket'[k] = ticket[k] /\ unseen'[k] \subseteq unseen[k]
      PROVE  Stays
  BY <1>4 DEF OnwardOpen, Stays
<1>5. CASE Reply(d) \/ Answer(d)
  <2>1. desk[d].task \in Onward
    BY <1>5 DEF Reply, Answer, Writes, Onward
  <2>2. \A k \in Tickets : k # desk[d].of =>
          ticket'[k] = ticket[k] /\ unseen'[k] \subseteq unseen[k]
    BY <1>1, <1>5 DEF Reply, Answer, Post
  <2> QED BY <1>4, <2>1, <2>2
<1>6. CASE Close(d) \/ Hold(d) \/ Resume(d)
  <2>1. desk[d].task \in Onward
    BY <1>6 DEF Close, Hold, Resume, Move, Writes, Onward
  <2>2. \A k \in Tickets : k # desk[d].of =>
          ticket'[k] = ticket[k] /\ unseen'[k] \subseteq unseen[k]
    BY <1>1, <1>6 DEF Close, Hold, Resume, Move
  <2> QED BY <1>4, <2>1, <2>2
<1>7. CASE Show(d)
  BY <1>1, <1>7 DEF Show, Stays
<1> QED BY <1>2, <1>3, <1>5, <1>6, <1>7 DEF TicketStep, Count, Retry, Mark, Fails

LEMMA RemoveOnward ==
  ASSUME TypeInv, OnwardOpen, NEW r \in Raisers, RemoveMember(r)
  PROVE  OnwardOpen' /\ Stays
<1>1. /\ \A t \in Tickets : \/ ticket'[t] = ticket[t] /\ unseen'[t] = unseen[t]
                            \/ ticket'[t].status = "absent"
      /\ \A e \in Desks : desk'[e] = Free \/ desk'[e] = desk[e]
  BY DEF RemoveMember, NoRow
<1>2. OnwardOpen'
  BY <1>1, FreeNotOnward DEF OnwardOpen
<1> QED BY <1>1, <1>2 DEF Stays

LEMMA AloneStep ==
  ASSUME TypeInv, AloneInv, [Next]_vars
  PROVE  AloneInv' /\ (part = "desk" => Stays)
<1>1. CASE UNCHANGED vars
  BY <1>1 DEF vars, ticketVars, AloneInv, OnwardOpen, Busy, Stays
<1>2. CASE part # "desk" /\ part' = part
  BY <1>2 DEF AloneInv
<1>3. CASE part = "desk" /\ part' = part /\ TicketNext /\ OneDesk
  <2>1. Busy \subseteq {First} /\ OnwardOpen /\ Busy' \subseteq {First}
    BY <1>3 DEF AloneInv, OneDesk, First
  <2>2. ASSUME NEW d \in Desks, TicketStep(d) PROVE OnwardOpen' /\ Stays
    BY <2>1, <2>2, StepOnward, StepStays
  <2>3. ASSUME NEW d \in Desks, NEW r \in Raisers, Raise(d, r) PROVE OnwardOpen' /\ Stays
    <3> DEFINE new == [Free EXCEPT !.task = "count", !.of = r]
    <3>1. new \in Desk /\ new.task = "count"
      <4>1. "count" \in Tasks
        BY DEF Tasks
      <4> QED BY <4>1, TaskType
    <3>2. Start(d, new)
      BY <2>3 DEF Raise
    <3> HIDE DEF new
    <3> QED BY <2>1, <3>1, <3>2, StartOnward DEF Onward
  <2>4. ASSUME NEW d \in Desks, NEW t \in Tickets,
               \/ TakeReply(d, t) \/ TakeAnswer(d, t) \/ TakeClose(d, t) \/ TakeHold(d, t)
               \/ TakeResume(d, t) \/ \E s \in Sides : TakeOpen(d, t, s)
        PROVE  OnwardOpen' /\ Stays
    BY <2>1, <2>4, TakeOnward
  <2>5. ASSUME NEW r \in Raisers, RemoveMember(r) PROVE OnwardOpen' /\ Stays
    BY <2>1, <2>5, RemoveOnward
  <2>8. ASSUME NEW ts, NEW side, MarkRead(ts, side) PROVE OnwardOpen' /\ Stays
    BY <2>1, <2>8 DEF MarkRead, OnwardOpen, Stays
  <2>7. ASSUME Bell PROVE OnwardOpen' /\ Stays
    BY <2>7, <2>8 DEF Bell
  <2>6. OnwardOpen' /\ Stays
    BY <1>3, <2>2, <2>3, <2>4, <2>5, <2>7 DEF TicketNext
  <2> QED BY <2>1, <2>6 DEF AloneInv, First
<1> QED BY <1>1, <1>2, <1>3 DEF Next, Others

(* For any number of tickets, members and handlers: while handlers do not  *)
(* overlap, a resolved ticket stays resolved, whoever replies to it, holds *)
(* it or resumes it, and takes no message.                                 *)
THEOREM ResolvedIsFinalAlways == Spec => ResolvedIsFinal
<1>1. Init => AloneInv
  BY FreeNotOnward DEF Init, TicketInit, AloneInv, Busy, OnwardOpen
<1>2. TypeInv /\ AloneInv /\ [Next]_vars => AloneInv'
  BY AloneStep
<1>3. TypeInv /\ AloneInv /\ [Next]_vars
        => [part = "desk" =>
              \A t \in Tickets :
                ticket[t].status = "resolved" /\ ticket'[t].status # "absent" =>
                  ticket'[t].status = "resolved" /\ unseen'[t] \subseteq unseen[t]]_vars
  BY AloneStep DEF Stays
<1>4. MemberInv => TypeInv
  BY DEF MemberInv
<1> QED BY <1>1, <1>2, <1>3, <1>4, MemberInvariant, PTL DEF Spec, ResolvedIsFinal

=============================================================================
