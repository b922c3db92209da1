---------------------------- MODULE SupportTickets ----------------------------
(***************************************************************************)
(* The support tickets of one organisation: a member raises a ticket, both *)
(* sides reply to it, the platform's staff hold, resume and resolve it,    *)
(* either side opens it and so clears its unread mark, or clears it from   *)
(* the bell without opening it.                                            *)
(*                                                                         *)
(* A handler reads the ticket in one call and writes in a later one, a     *)
(* transaction by the ticket's id.  The sides are the raiser, who alone    *)
(* gets the organisation's notifications, and the platform's common inbox. *)
(* Of messages and notifications it is kept whether there is one that the  *)
(* side has not been shown, or not marked read.  Assignment is left out:   *)
(* it decides who of the staff may act, and a Super Admin always may.      *)
(***************************************************************************)
EXTENDS Integers, FiniteSets

CONSTANTS
  Tickets,     \* ids of tickets; that of a deleted one nobody handles is given out again
  Raisers,     \* members of the organisation, likewise
  Desks,       \* request handlers that may be in flight
  NoOne,
  RetryLimit   \* NUMBER_RETRY_LIMIT

ASSUME NoOneAssumption == NoOne \notin Tickets \cup Raisers
ASSUME RetryAssumption == RetryLimit \in Nat \ {0} /\ IsFiniteSet(Tickets)

VARIABLES
  ticket,  \* the table
  unread,  \* the sides that have an unread notification of the ticket
  unseen,  \* the sides that have not been shown all its messages
  dismissed, \* history: of these, the sides that cleared the mark without being shown them:
             \* from the bell, or by an opening that failed half-way
  desk     \* what each handler is at

ticketVars == <<ticket, unread, unseen, dismissed, desk>>

Sides    == {"org", "platform"}
Standing == {"absent", "open", "ongoing", "on_hold", "resolved"}
Tasks    == {"none", "count", "create", "reply", "answer", "close", "hold", "resume",
             "mark", "show"}

Ticket == [status : Standing, number : Nat, raiser : Raisers \cup {NoOne}]
Desk   == [task : Tasks, of : Tickets \cup Raisers \cup {NoOne}, side : Sides,
           seen : Standing, count : Nat, attempt : Nat]

Free    == [task |-> "none", of |-> NoOne, side |-> "platform", seen |-> "absent",
            count |-> 0, attempt |-> 0]
NoRow   == [status |-> "absent", number |-> 0, raiser |-> NoOne]
Present == {t \in Tickets : ticket[t].status # "absent"}

TicketInit ==
  /\ ticket = [t \in Tickets |-> NoRow]
  /\ unread = [t \in Tickets |-> {}]
  /\ unseen = [t \in Tickets |-> {}]
  /\ dismissed = [t \in Tickets |-> {}]
  /\ desk = [d \in Desks |-> Free]

Start(d, newDesk) ==
  /\ desk[d] = Free
  /\ desk' = [desk EXCEPT ![d] = newDesk]
  /\ UNCHANGED <<ticket, unread, unseen, dismissed>>

Leave(d) == desk' = [desk EXCEPT ![d] = Free]

\* getForAdmin, with which every handler of the staff ends.
Open(d) == desk' = [desk EXCEPT ![d] = [Free EXCEPT !.task = "mark", !.of = desk[d].of]]

-----------------------------------------------------------------------------
(* createTicket: the number is the count plus one, and the insertion is    *)
(* tried again if another ticket has that number.                          *)

Number(d) == desk[d].count + 1
Taken(n) == \E t \in Present : ticket[t].number = n
NewIds    == (Tickets \ Present) \ {desk[d].of : d \in Desks}
Raising   == {d \in Desks : desk[d].task \in {"count", "create"}}

\* Bound: there is an id for every ticket that is being raised.
Raise(d, r) ==
  /\ Cardinality(NewIds) > Cardinality(Raising)
  /\ Start(d, [Free EXCEPT !.task = "count", !.of = r])

Count(d) ==
  /\ desk[d].task = "count"
  /\ desk' = [desk EXCEPT ![d].task = "create", ![d].count = Cardinality(Present)]
  /\ UNCHANGED <<ticket, unread, unseen, dismissed>>

Create(d) ==
  /\ desk[d].task = "create"
  /\ ~Taken(Number(d))
  /\ \E t \in NewIds :
       /\ ticket' = [ticket EXCEPT ![t] = [status |-> "open", number |-> Number(d),
                                           raiser |-> desk[d].of]]
       /\ unread' = [unread EXCEPT ![t] = {"platform"}]
       /\ unseen' = [unseen EXCEPT ![t] = {"platform"}]
       /\ dismissed' = [dismissed EXCEPT ![t] = {}]
  /\ Leave(d)

\* P2002.
Retry(d) ==
  /\ desk[d].task = "create"
  /\ Taken(Number(d))
  /\ IF desk[d].attempt + 1 < RetryLimit
     THEN desk' = [desk EXCEPT ![d].task = "count", ![d].attempt = @ + 1]
     ELSE Leave(d)
  /\ UNCHANGED <<ticket, unread, unseen, dismissed>>

-----------------------------------------------------------------------------
(* What both sides do to a ticket: reading it and deciding.                *)

Take(d, task, t) == Start(d, [Free EXCEPT !.task = task, !.of = t])

Unresolved(t) == ticket[t].status \notin {"absent", "resolved"}

TakeReply(d, t) == Unresolved(t) /\ Take(d, "reply", t)
TakeAnswer(d, t) ==
  /\ Unresolved(t)
  /\ Start(d, [Free EXCEPT !.task = "answer", !.of = t, !.seen = ticket[t].status])
TakeClose(d, t) == Unresolved(t) /\ Take(d, "close", t)

\* Mutant: a resolved ticket can be put on hold.
TakeHold_Any(d, t) == t \in Present /\ Take(d, "hold", t)

TakeHold(d, t) == Unresolved(t) /\ Take(d, "hold", t)
TakeResume(d, t) == ticket[t].status = "on_hold" /\ Take(d, "resume", t)

TakeOpen(d, t, side) ==
  /\ t \in Present
  /\ Start(d, [Free EXCEPT !.task = "mark", !.of = t, !.side = side])

-----------------------------------------------------------------------------
(* The transactions.  The ticket may have been deleted since it was read.  *)

Writes(d, task) == desk[d].task = task /\ desk[d].of \in Present

\* addMessage, with the notification of the other side.
Post(t, side) ==
  /\ unread' = [unread EXCEPT ![t] = @ \cup {side}]
  /\ unseen' = [unseen EXCEPT ![t] = @ \cup {side}]
  /\ dismissed' = [dismissed EXCEPT ![t] = @ \ {side}]

Reply(d) ==
  /\ Writes(d, "reply")
  /\ Post(desk[d].of, "platform")
  /\ Leave(d)
  /\ UNCHANGED ticket

Answer(d) ==
  /\ Writes(d, "answer")
  /\ ticket' = [ticket EXCEPT ![desk[d].of].status =
                                IF desk[d].seen = "open" THEN "ongoing" ELSE @]
  /\ Post(desk[d].of, "org")
  /\ Leave(d)

\* The status, and the notification of the raiser.
Move(d, task, status) ==
  /\ Writes(d, task)
  /\ ticket' = [ticket EXCEPT ![desk[d].of].status = status]
  /\ unread' = [unread EXCEPT ![desk[d].of] = @ \cup {"org"}]
  /\ Open(d)
  /\ UNCHANGED <<unseen, dismissed>>

Close(d) == Move(d, "close", "resolved")
Hold(d) == Move(d, "hold", "on_hold")
Resume(d) == Move(d, "resume", "ongoing")

\* Mutant: opening a ticket marks it read for both sides.
Mark_Both(d) ==
  /\ desk[d].task = "mark"
  /\ unread' = [t \in Tickets |-> IF t = desk[d].of THEN {} ELSE unread[t]]
  /\ desk' = [desk EXCEPT ![d].task = "show"]
  /\ UNCHANGED <<ticket, unseen, dismissed>>

\* markTicketNotificationsRead, and then the messages are fetched.
Mark(d) ==
  /\ desk[d].task = "mark"
  /\ unread' = [t \in Tickets |-> IF t = desk[d].of THEN unread[t] \ {desk[d].side}
                                                     ELSE unread[t]]
  /\ desk' = [desk EXCEPT ![d].task = "show"]
  /\ UNCHANGED <<ticket, unseen, dismissed>>

Show(d) ==
  /\ desk[d].task = "show"
  /\ unseen' = [t \in Tickets |-> IF t = desk[d].of THEN unseen[t] \ {desk[d].side}
                                                     ELSE unseen[t]]
  /\ dismissed' = [t \in Tickets |-> IF t = desk[d].of THEN dismissed[t] \ {desk[d].side}
                                                        ELSE dismissed[t]]
  /\ Leave(d)
  /\ UNCHANGED <<ticket, unread>>

\* Of what these tickets have to tell a side, it has been shown nothing more.
Dismiss(ts, side) ==
  dismissed' = [t \in Tickets |-> IF t \in ts THEN dismissed[t] \cup (unseen[t] \cap {side})
                                             ELSE dismissed[t]]

\* A call fails (as a write to a ticket that is no more does), or the process restarts; an
\* opening may have cleared the mark by then.
Fails(d) ==
  /\ desk[d] # Free
  /\ Dismiss(IF desk[d].task = "show" THEN {desk[d].of} ELSE {}, desk[d].side)
  /\ Leave(d)
  /\ UNCHANGED <<ticket, unread, unseen>>

-----------------------------------------------------------------------------
(* The bell: notifications are marked read without opening what they are   *)
(* of.  The raiser's bell holds the raiser's own, the platform's is common.*)

MarkRead(ts, side) ==
  /\ unread' = [t \in Tickets |-> IF t \in ts THEN unread[t] \ {side} ELSE unread[t]]
  /\ Dismiss(ts, side)
  /\ UNCHANGED <<ticket, unseen, desk>>

\* The last unread one of a ticket, or all of them.
Bell ==
  \/ \E side \in Sides, t \in Present : MarkRead({t}, side)
  \/ \E r \in Raisers : MarkRead({t \in Present : ticket[t].raiser = r}, "org")
  \/ MarkRead(Present, "platform")

-----------------------------------------------------------------------------
\* Mutant: the foreign key empties instead of cascading.
RemoveMember_SetNull(r) ==
  /\ ticket' = [t \in Tickets |-> IF ticket[t].raiser = r
                                    THEN [ticket[t] EXCEPT !.raiser = NoOne] ELSE ticket[t]]
  /\ desk' = [d \in Desks |-> IF d \in Raising /\ desk[d].of = r THEN Free ELSE desk[d]]
  /\ UNCHANGED <<unread, unseen, dismissed>>

\* deleteOrgUser: the member's tickets go with the member (ON DELETE CASCADE), and a
\* ticket that the member is just raising fails.
RemoveMember(r) ==
  LET gone == {t \in Present : ticket[t].raiser = r} IN
  /\ ticket' = [t \in Tickets |-> IF t \in gone THEN NoRow ELSE ticket[t]]
  /\ unread' = [t \in Tickets |-> IF t \in gone THEN {} ELSE unread[t]]
  /\ unseen' = [t \in Tickets |-> IF t \in gone THEN {} ELSE unseen[t]]
  /\ dismissed' = [t \in Tickets |-> IF t \in gone THEN {} ELSE dismissed[t]]
  /\ desk' = [d \in Desks |-> IF d \in Raising /\ desk[d].of = r THEN Free ELSE desk[d]]

TicketStep(d) ==
  \/ Count(d) \/ Create(d) \/ Retry(d) \/ Reply(d) \/ Answer(d) \/ Close(d) \/ Hold(d)
  \/ Resume(d) \/ Mark(d) \/ Show(d) \/ Fails(d)

TicketNext ==
  \/ \E d \in Desks :
       \/ TicketStep(d)
       \/ \E r \in Raisers : Raise(d, r)
       \/ \E t \in Tickets :
            \/ TakeReply(d, t) \/ TakeAnswer(d, t) \/ TakeClose(d, t) \/ TakeHold(d, t)
            \/ TakeResume(d, t)
            \/ \E s \in Sides : TakeOpen(d, t, s)
  \/ Bell
  \/ \E r \in Raisers : RemoveMember(r)

TicketSpec == TicketInit /\ [][TicketNext]_ticketVars

-----------------------------------------------------------------------------
(* Properties.                                                             *)

TicketTypeOK ==
  /\ ticket \in [Tickets -> Ticket]
  /\ unread \in [Tickets -> SUBSET Sides]
  /\ unseen \in [Tickets -> SUBSET Sides]
  /\ dismissed \in [Tickets -> SUBSET Sides]
  /\ desk \in [Desks -> Desk]
  /\ \A t \in Present : ticket[t].raiser \in Raisers

(* No message is lost on a side by the way tickets are opened: as long as  *)
(* the side has not been shown it, the ticket is marked unread, somebody   *)
(* is just opening it, or the side itself, after the last message came,    *)
(* cleared the mark from the bell or had an opening fail.  Opening clears  *)
(* the mark first and fetches the messages afterwards, so a message in     *)
(* between is shown and marked, never neither.                             *)
UnshownIsUnread ==
  \A t \in Tickets : \A s \in unseen[t] :
    \/ s \in unread[t] \cup dismissed[t]
    \/ \E d \in Desks : desk[d].task = "show" /\ desk[d].of = t /\ desk[d].side = s

(* The number that the next ticket is given is free: "retry picks the next *)
(* number" (support.service.ts:121), so the count that it is made of must  *)
(* not fall behind the numbers in use.                                     *)
NextNumberIsFree == ~Taken(Cardinality(Present) + 1)
=============================================================================
