---------------------------- MODULE TemplateSlots ----------------------------
(***************************************************************************)
(* The templates an organisation has taken, each of which fills a slot of  *)
(* its plan for as long as a page is built from it.  Every change looks at *)
(* plan, templates and pages as they are in that moment.                   *)
(***************************************************************************)
EXTENDS Integers, FiniteSets

CONSTANTS
  Pages, Templates, NoTemplate,
  Plans,
  Basic,  \* the plan that counts without a usable subscription
  Terms,  \* what each plan grants, and how many
  Bills   \* plan and state of the subscription, as billing may set them

VARIABLES
  built,    \* the template each page is built from, if any
  assigned, \* the templates that fill a slot
  catalog,  \* the templates there are
  plan, sub

vars == <<built, assigned, catalog, plan, sub>>

Unlimited == -1
Room(n, p) == Terms[p].templates = Unlimited \/ n <= Terms[p].templates

Unused(T) == \A p \in Pages : built[p] \notin T

Init ==
  /\ assigned \in SUBSET Templates
  /\ built \in [Pages -> assigned \cup {NoTemplate}]
  /\ catalog = Templates
  /\ \E bill \in Bills : plan = bill.plan /\ sub = bill.sub

\* A template that the plan grants, while there is a slot left.
Take(t) ==
  LET p == IF sub = "usable" THEN plan ELSE Basic IN
  /\ t \in catalog \cap Terms[p].grants
  /\ t \notin assigned /\ Room(Cardinality(assigned) + 1, p)
  /\ assigned' = assigned \cup {t}
  /\ UNCHANGED <<built, catalog, plan, sub>>

\* A slot is free again only if nothing was built from what filled it.
GiveBack(t) ==
  /\ t \in assigned /\ Unused({t})
  /\ assigned' = assigned \ {t}
  /\ UNCHANGED <<built, catalog, plan, sub>>

\* By the Super Admin, all at once: any template there is, as many as the plan has slots.
Deal(T) ==
  /\ T \subseteq catalog /\ Unused(assigned \ T)
  /\ sub # "none" => Room(Cardinality(T), plan)
  /\ assigned' = T
  /\ UNCHANGED <<built, catalog, plan, sub>>

Build(p, t) ==
  /\ built[p] = NoTemplate /\ t \in assigned
  /\ built' = [built EXCEPT ![p] = t]
  /\ UNCHANGED <<assigned, catalog, plan, sub>>

Clear(P) == built' = [p \in Pages |-> IF p \in P THEN NoTemplate ELSE built[p]]

\* Pages are removed.
Discard(P) == Clear(P) /\ UNCHANGED <<assigned, catalog, plan, sub>>

\* A template is deleted: it gives its slot back, and the pages live on without it.
Withdraw(t) ==
  /\ t \in catalog
  /\ catalog' = catalog \ {t} /\ assigned' = assigned \ {t}
  /\ Clear({p \in Pages : built[p] = t})
  /\ UNCHANGED <<plan, sub>>

Bill(bill) == plan' = bill.plan /\ sub' = bill.sub /\ UNCHANGED <<built, assigned, catalog>>

Next ==
  /\ vars' # vars  \* what changes nothing is no step
  /\ \/ \E t \in Templates : Take(t) \/ GiveBack(t) \/ Withdraw(t)
     \/ \E T \in SUBSET Templates : Deal(T)
     \/ \E p \in Pages, t \in Templates : Build(p, t)
     \/ \E P \in SUBSET Pages : Discard(P)
     \/ \E bill \in Bills : Bill(bill)

Spec == Init /\ [][Next]_vars
=============================================================================
