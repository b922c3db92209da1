------------------------------ MODULE MCMembers ------------------------------
(* What a member of an organisation meets: the account with its sessions,    *)
(* the browser, and the support desk, on instances small enough for TLC.     *)
(* They share no variable: a behaviour is of one of them, the others stand   *)
(* still.                                                                    *)
EXTENDS AccountSessions, BrowserSession, SupportTickets

CONSTANTS oneTab

VARIABLE part

MCTabOf == [c \in Calls |-> oneTab]

Parts == {"account", "browser", "desk", "desks"}

vars == <<part, accountVars, browserVars, ticketVars>>

Init ==
  /\ part \in Parts
  /\ AccountInit
  /\ BrowserInit
  /\ TicketInit

Others(p) ==
  /\ part = p /\ UNCHANGED part
  /\ p = "account" \/ UNCHANGED accountVars
  /\ p = "browser" \/ UNCHANGED browserVars
  /\ p \in {"desk", "desks"} \/ UNCHANGED ticketVars

Busy == {d \in Desks : desk[d] # Free}

\* Bound: of the free ids, which are alike, always the same is given out, and while there
\* is no ticket always the same member raises one.
Alike ==
  /\ \A t \in Present' \ Present : t = CHOOSE u \in NewIds : TRUE
  /\ Present = {} => \A d \in Desks : desk'[d].of \in Raisers => desk'[d].of = CHOOSE r \in Raisers : TRUE

\* One handler at a time.
OneDesk == Busy' \subseteq {CHOOSE d \in Desks : TRUE}

\* Bound: the handlers overlap while there is one ticket at most, and one member raises.
FewTickets ==
  /\ Cardinality(Present) <= 1 \/ Busy' \subseteq Busy
  /\ \A d \in Desks : desk'[d].of \in Raisers => desk'[d].of = CHOOSE r \in Raisers : TRUE

Next ==
  \/ Others("account") /\ AccountNext
  \/ Others("browser") /\ BrowserNext
  \/ Others("desk") /\ TicketNext /\ Alike /\ OneDesk
  \/ Others("desks") /\ TicketNext /\ Alike /\ FewTickets

\* Only a behaviour of that part can be fair to it.
Spec == Init /\ [][Next]_vars /\ (part = "browser" => BrowserFairness)

\* Types of all of them.
TypeOK == AccountTypeOK /\ BrowserTypeOK /\ TicketTypeOK

(* When handlers do not overlap a resolved ticket stays resolved and takes *)
(* no more messages: "Resolved is a hard stop for both sides"              *)
(* (support.service.ts:517).                                               *)
ResolvedIsFinal ==
  [][part = "desk" =>
       \A t \in Tickets :
         ticket[t].status = "resolved" /\ ticket'[t].status # "absent" =>
           ticket'[t].status = "resolved" /\ unseen'[t] \subseteq unseen[t]]_vars
=============================================================================
