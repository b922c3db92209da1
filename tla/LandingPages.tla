----------------------------- MODULE LandingPages -----------------------------
(***************************************************************************)
(* The landing pages of one organisation and the templates they are built  *)
(* from.  A landing page has a thank-you page as its companion; a template *)
(* must be assigned to the organisation, within its plan, before a page is *)
(* built from it, and keeps its slot while such pages exist; publication   *)
(* is where the plan is enforced.                                          *)
(*                                                                         *)
(* Every database call is one action, a transaction is one.  Slugs, names  *)
(* and contents are left out, but for whether a page that the domain of    *)
(* the organisation may serve still has the content it was published with. *)
(***************************************************************************)
EXTENDS Integers, FiniteSets

CONSTANTS
  Pages,       \* the ids page rows can get
  NoPage,
  Workers,     \* handlers that may be in flight
  Templates,   \* landing templates, of the kind the Super Admin may delete
  ThankYous,   \* thank-you templates
  NoTemplate,
  ThankYouOf,  \* the thank-you template that goes with a landing template, if any
  Plans,
  Basic,       \* the system plan: what counts without a usable subscription
  Terms,       \* what each plan allows
  Bills,       \* plan and state of the subscription, as billing may set them
  Overlap      \* may a handler begin while another one awaits?

Unlimited == -1
Limit     == Nat \cup {Unlimited}
\* grants and tiers: the templates an organisation on the plan may take, and may publish.
Term      == [create : Limit, live : Limit, templates : Limit,
              publishing : {"yes", "no", "unset"},
              grants : SUBSET Templates, tiers : SUBSET Templates]
Sources   == Templates \cup ThankYous \cup {NoTemplate}
\* A draft and an unpublished page are both private: the domain serves neither.
Statuses  == {"private", "published"}
PageOps   == {"get", "update", "publish", "unpublish", "remove", "duplicate", "thankYou"}
Ops       == PageOps \cup {"none", "create", "assign", "unassign", "adminSet"}
Phases    == {"idle", "own", "heal", "thank", "plan", "count", "held", "inUse", "quota",
              "gate", "target", "live", "distinct", "write", "companions", "children",
              "companion", "copy"}

ASSUME PageAssumption     == IsFiniteSet(Pages) /\ NoPage \notin Pages
ASSUME TemplateAssumption ==
  /\ IsFiniteSet(Templates) /\ IsFiniteSet(ThankYous)
  /\ Templates \cap ThankYous = {} /\ NoTemplate \notin Templates \cup ThankYous
  /\ ThankYouOf \in [Templates -> ThankYous \cup {NoTemplate}]
ASSUME PlanAssumption     == Basic \in Plans /\ Terms \in [Plans -> Term]
ASSUME BillAssumption     == Bills \subseteq [plan : Plans, sub : {"usable", "lapsed", "none"}]
ASSUME OverlapAssumption  == Overlap \in BOOLEAN

VARIABLES
  page,     \* landing_pages
  assigned, \* organisation_templates
  catalog,  \* the templates that exist
  plan,     \* the plan of the subscription
  sub,      \* whether there is one, and whether it is usable
  pc,       \* where each handler waits
  job       \* what each handler was asked to do, and what it has read

vars == <<page, assigned, catalog, plan, sub, pc, job>>
rows == <<page, assigned, catalog, plan, sub>>

\* edited: published, with a content that is not the one it was published with.
Row == [kind : {"absent", "landing", "thankYou"}, status : Statuses, edited : BOOLEAN,
        source : Sources, parent : Pages \cup {NoPage}]

NewRow(kind, status, source, parent) ==
  [kind |-> kind, status |-> status, edited |-> FALSE, source |-> source, parent |-> parent]
Absent == NewRow("absent", "private", NoTemplate, NoPage)

Within(n, max) == max = Unlimited \/ n <= max

\* Bound: the id of a deleted page is given out again once no handler remembers it.
Free          == {p \in Pages : page[p].kind = "absent" /\ \A w \in Workers :
                    p \notin {job[w].page, job[w].copy, job[w].seen.parent}}
Landings      == {p \in Pages : page[p].kind = "landing"}
Live          == {p \in Landings : page[p].status = "published"}
Companions(p) == {q \in Pages : page[q].kind = "thankYou" /\ page[q].parent = p}
BuiltFrom(T)  == {p \in Pages : page[p].source \in T}
LiveSources(P) == {page[p].source : p \in P} \ {NoTemplate}

\* page, template, templates: what the request names; seen: a page row as it was read;
\* plan: the plan that was read; gone: the assignments it will take away.
Asked(op, p, t, T) ==
  [op |-> op, page |-> p, template |-> t, templates |-> T, seen |-> Absent, plan |-> Basic,
   gone |-> {}, copy |-> NoPage]
NoJob == Asked("none", NoPage, NoTemplate, {})

\* The two pages that the approval of an organisation puts up, published.
Portal(p, q, t) ==
  [r \in Pages |-> IF r = p THEN NewRow("landing", "published", t, NoPage)
                   ELSE IF r = q /\ ThankYouOf[t] # NoTemplate
                        THEN NewRow("thankYou", "published", ThankYouOf[t], p)
                   ELSE Absent]

\* The organisation has just been approved.
Init ==
  /\ assigned \in SUBSET Templates
  /\ \/ page = [p \in Pages |-> Absent]
     \/ \E p, q \in Pages, t \in assigned : p # q /\ page = Portal(p, q, t)
  /\ catalog = Templates
  /\ \E bill \in Bills : /\ plan = bill.plan
                          /\ sub = bill.sub
  /\ pc = [w \in Workers |-> "idle"]
  /\ job = [w \in Workers |-> NoJob]

Alone == Overlap \/ \A w \in Workers : pc[w] = "idle"

-----------------------------------------------------------------------------
(* Handlers begin, go on and end.                                          *)

Begin(w, j, phase) ==
  /\ pc[w] = "idle" /\ Alone
  /\ job' = [job EXCEPT ![w] = j]
  /\ pc' = [pc EXCEPT ![w] = phase]
  /\ UNCHANGED rows

\* A page is opened, edited, published, ...: every handler begins with getOwned.
OnPage(w, op, p) ==
  page[p].kind # "absent" /\ Begin(w, Asked(op, p, NoTemplate, {}), "own")

\* From a template, or blank.
Create(w, t) ==
  t \in catalog \cup {NoTemplate} /\ Begin(w, Asked("create", NoPage, t, {}), "plan")

Assign(w, t) == t \in catalog /\ Begin(w, Asked("assign", NoPage, t, {}), "plan")

Unassign(w, t) == t \in catalog /\ Begin(w, Asked("unassign", NoPage, t, {}), "held")

AdminSet(w, T) == T \subseteq catalog /\ Begin(w, Asked("adminSet", NoPage, NoTemplate, T), "held")

GoOn(w, phase, j) ==
  /\ pc' = [pc EXCEPT ![w] = phase]
  /\ job' = [job EXCEPT ![w] = j]

Finish(w) == GoOn(w, "idle", NoJob)

\* An answer of 400, 403 or 404 (the only way on for a handler whose check fails), a failed
\* database call, or a restart.  Bound: an insert for which no id is left.
Refuse(w) == pc[w] # "idle" /\ Finish(w) /\ UNCHANGED rows

\* The handler answers, or goes on.
Answer(w, phase, j) == IF phase = "idle" THEN Finish(w) ELSE GoOn(w, phase, j)

-----------------------------------------------------------------------------
(* Handlers read and check.                                                *)

\* What a handler does with the page it was given ("get" has its answer; so has a request to
\* unpublish what is not published, a refusal).
AfterOwn(op, row) ==
  CASE op = "publish"   -> "gate"
    [] op = "remove"    -> IF row.kind = "landing" THEN "children" ELSE "write"
    [] op = "duplicate" -> IF row.kind = "landing" THEN "plan" ELSE "write"
    [] op = "thankYou"  -> "companion"
    [] op = "update"    -> "write"
    [] op = "unpublish" -> IF row.status = "published" THEN "write" ELSE "idle"
    [] OTHER -> "idle"

\* Mutant: a page is healed whether or not it has a companion.
Own_AlwaysHeals(w) ==
  LET row == page[job[w].page] IN
  /\ pc[w] = "own"
  /\ row.kind # "absent"
  /\ Answer(w, IF row.kind = "landing" THEN "heal" ELSE AfterOwn(job[w].op, row),
            [job[w] EXCEPT !.seen = row])
  /\ UNCHANGED rows

\* getOwned reads the page and its companion in one call.
Own(w) ==
  LET p   == job[w].page
      row == page[p]
  IN  /\ pc[w] = "own"
      /\ row.kind # "absent"
      /\ Answer(w, IF row.kind = "landing" /\ Companions(p) = {} THEN "heal"
                   ELSE AfterOwn(job[w].op, row),
                [job[w] EXCEPT !.seen = row])
      /\ UNCHANGED rows

\* Creating and duplicating fall back to the Basic plan, and so does assigning.
ReadPlan(w) ==
  LET j == job[w]
      p == IF sub = "usable" THEN plan ELSE Basic
  IN  /\ pc[w] = "plan"
      /\ j.op = "assign" => j.template \in Terms[p].grants
      /\ GoOn(w, IF j.op = "assign" THEN "held" ELSE "count", [j EXCEPT !.plan = p])
      /\ UNCHANGED rows

CountPages(w) ==
  LET j == job[w] IN
  /\ pc[w] = "count"
  /\ Within(Cardinality(Landings) + 1, Terms[j.plan].create)
  /\ GoOn(w, IF j.op = "create" /\ j.template # NoTemplate THEN "held" ELSE "write", j)
  /\ UNCHANGED rows

\* Building and publishing need the assignment; publishing also looks at the tier.
ReadAssignment(w) ==
  LET j == job[w] IN
  /\ pc[w] = "held" /\ j.op \in {"create", "publish"}
  /\ j.template \in assigned
  /\ j.op = "publish" => j.template \in Terms[j.plan].tiers
  /\ GoOn(w, IF j.op = "create" THEN "write" ELSE "distinct", j)
  /\ UNCHANGED rows

\* Assigning twice is answered with success; removing needs something to remove.
ReadAssignments(w) ==
  LET j    == job[w]
      gone == IF j.op = "unassign" THEN {j.template} ELSE assigned \ j.templates
  IN  /\ pc[w] = "held"
      /\ \/ /\ j.op = "assign"
            /\ Answer(w, IF j.template \in assigned THEN "idle" ELSE "quota", j)
         \/ /\ j.op = "adminSet" \/ (j.op = "unassign" /\ j.template \in assigned)
            /\ GoOn(w, "inUse", [j EXCEPT !.gone = gone])
      /\ UNCHANGED rows

\* Mutant: only published pages hold a slot.
CountInUse_LiveOnly(w) ==
  LET j == job[w] IN
  /\ pc[w] = "inUse"
  /\ BuiltFrom(j.gone) \cap Live = {}
  /\ GoOn(w, IF j.op = "adminSet" THEN "quota" ELSE "write", j)
  /\ UNCHANGED rows

CountInUse(w) ==
  LET j == job[w] IN
  /\ pc[w] = "inUse"
  /\ BuiltFrom(j.gone) = {}
  /\ GoOn(w, IF j.op = "adminSet" THEN "quota" ELSE "write", j)
  /\ UNCHANGED rows

\* Mutant: the slot that is being taken is not counted.
CountAssigned_Before(w) ==
  LET j == job[w] IN
  /\ pc[w] = "quota"
  /\ IF j.op = "assign" THEN Within(Cardinality(assigned), Terms[j.plan].templates)
     ELSE sub # "none" => Within(Cardinality(j.templates), Terms[plan].templates)
  /\ GoOn(w, "write", j)
  /\ UNCHANGED rows

\* The Super Admin is held to the subscription's plan, whatever its state, if there is one.
CountAssigned(w) ==
  LET j == job[w] IN
  /\ pc[w] = "quota"
  /\ IF j.op = "assign" THEN Within(Cardinality(assigned) + 1, Terms[j.plan].templates)
     ELSE sub # "none" => Within(Cardinality(j.templates), Terms[plan].templates)
  /\ GoOn(w, "write", j)
  /\ UNCHANGED rows

CanPublish(p) ==
  Terms[p].publishing = "yes" \/ (Terms[p].publishing = "unset" /\ Terms[p].live # 0)

\* Mutant: publication, too, falls back to the Basic plan.
ReadGate_Fallback(w) ==
  LET p == IF sub = "usable" THEN plan ELSE Basic IN
  /\ pc[w] = "gate"
  /\ CanPublish(p)
  /\ GoOn(w, "target", [job[w] EXCEPT !.plan = p])
  /\ UNCHANGED rows

\* assertOrgCanPublish, call by call.
ReadGate(w) ==
  /\ pc[w] = "gate"
  /\ sub = "usable" /\ CanPublish(plan)
  /\ GoOn(w, "target", [job[w] EXCEPT !.plan = plan])
  /\ UNCHANGED rows

ReadTarget(w) ==
  /\ pc[w] = "target"
  /\ GoOn(w, "live", [job[w] EXCEPT !.template = page[job[w].page].source])
  /\ UNCHANGED rows

\* Mutant: the limit is taken as inclusive of one page more.
CountLive_OneMore(w) ==
  LET j == job[w] IN
  /\ pc[w] = "live"
  /\ Within(Cardinality(Live \ {j.page}), Terms[j.plan].live)
  /\ GoOn(w, IF j.template = NoTemplate THEN "write" ELSE "held", j)
  /\ UNCHANGED rows

CountLive(w) ==
  LET j == job[w] IN
  /\ pc[w] = "live"
  /\ Within(Cardinality(Live \ {j.page}) + 1, Terms[j.plan].live)
  /\ GoOn(w, IF j.template = NoTemplate THEN "write" ELSE "held", j)
  /\ UNCHANGED rows

CountDistinct(w) ==
  LET j      == job[w]
      others == LiveSources(Live \ {j.page})
  IN  /\ pc[w] = "distinct"
      /\ j.template \in others \/ Within(Cardinality(others) + 1, Terms[j.plan].templates)
      /\ GoOn(w, "write", j)
      /\ UNCHANGED rows

\* Mutant: what is to be copied is remembered by its id, where its row is expected.
FindCompanion_Id(w) ==
  LET j == job[w] IN
  /\ pc[w] = "companion"
  /\ \E q \in Companions(j.page) :
       Answer(w, IF j.op = "thankYou" THEN "idle" ELSE "copy", [j EXCEPT !.seen = q])
  /\ UNCHANGED rows

\* findFirst of the companion: to be returned, or copied.
FindCompanion(w) ==
  LET j == job[w] IN
  /\ pc[w] = "companion"
  /\ \/ /\ Companions(j.page) = {}
        /\ Answer(w, IF j.op = "thankYou" THEN "thank" ELSE "idle", j)
     \/ \E q \in Companions(j.page) :
          Answer(w, IF j.op = "thankYou" THEN "idle" ELSE "copy", [j EXCEPT !.seen = page[q]])
  /\ UNCHANGED rows

-----------------------------------------------------------------------------
(* Handlers write.  A row that is gone, or a parent, makes the call fail.  *)

Exists(p) == page[p].kind # "absent"

Insert(p, row) ==
  /\ row.parent # NoPage => Exists(row.parent)
  /\ page' = [page EXCEPT ![p] = row]

\* The page that heals a landing page follows the status the page had when it was read.
InsertThankYou(w) ==
  LET j == job[w] IN
  /\ pc[w] \in {"heal", "thank"}
  /\ \E q \in Free :
       Insert(q, NewRow("thankYou", IF j.seen.status = "published" THEN "published" ELSE "private",
                        NoTemplate, j.page))
  /\ Answer(w, IF pc[w] = "heal" THEN AfterOwn(j.op, j.seen) ELSE "idle", j)
  /\ UNCHANGED <<assigned, catalog, plan, sub>>

Writes(w, op) ==
  pc[w] = "write" /\ job[w].op = op /\ UNCHANGED <<catalog, plan, sub>>

\* Page and companion in one transaction, then getOwned of the new page.
WriteCreate(w) ==
  LET t == job[w].template IN
  /\ Writes(w, "create")
  /\ t \in catalog \cup {NoTemplate}
  /\ \E p, q \in Free :
       /\ p # q
       /\ page' = [page EXCEPT
            ![p] = NewRow("landing", "private", t, NoPage),
            ![q] = NewRow("thankYou", "private",
                          IF t = NoTemplate THEN NoTemplate ELSE ThankYouOf[t], p)]
       /\ GoOn(w, "own", [job[w] EXCEPT !.page = p])
  /\ UNCHANGED assigned

\* Mutant: an edit leaves a published page published.
WriteUpdate_StaysLive(w) ==
  LET p == job[w].page IN
  /\ Writes(w, "update")
  /\ Exists(p)
  /\ page' = [page EXCEPT ![p].edited = page[p].status = "published"]
  /\ Finish(w)
  /\ UNCHANGED assigned

\* The content changes (a PATCH that leaves it as it was changes nothing modelled here):
\* a page that was read as published becomes a draft again.
WriteUpdate(w) ==
  LET p      == job[w].page
      status == IF job[w].seen.status = "published" THEN "private" ELSE page[p].status
  IN  /\ Writes(w, "update")
      /\ Exists(p)
      /\ page' = [page EXCEPT ![p].status = status, ![p].edited = (status = "published")]
      /\ Finish(w)
      /\ UNCHANGED assigned

WriteStatus(w, op, status) ==
  LET j == job[w] IN
  /\ Writes(w, op)
  /\ Exists(j.page)
  /\ page' = [page EXCEPT ![j.page].status = status, ![j.page].edited = FALSE]
  /\ Answer(w, IF j.seen.kind = "landing" THEN "companions" ELSE "idle", j)
  /\ UNCHANGED assigned

\* updateMany of the thank-you pages of the page.
WriteCompanions(w) ==
  LET j      == job[w]
      status == IF j.op = "publish" THEN "published" ELSE "private"
  IN  /\ pc[w] = "companions"
      /\ page' = [p \in Pages |->
           IF p \in Companions(j.page) THEN [page[p] EXCEPT !.status = status, !.edited = FALSE]
           ELSE page[p]]
      /\ Finish(w)
      /\ UNCHANGED <<assigned, catalog, plan, sub>>

\* ON DELETE SET NULL on parent_id.
Without(D) == [p \in Pages |-> IF p \in D THEN Absent
                               ELSE IF page[p].parent \in D THEN [page[p] EXCEPT !.parent = NoPage]
                               ELSE page[p]]

\* Mutant: the companions are left to the database, which only detaches them.
RemoveCompanions_Not(w) ==
  /\ pc[w] = "children"
  /\ GoOn(w, "write", job[w])
  /\ UNCHANGED rows

RemoveCompanions(w) ==
  /\ pc[w] = "children"
  /\ page' = Without(Companions(job[w].page))
  /\ GoOn(w, "write", job[w])
  /\ UNCHANGED <<assigned, catalog, plan, sub>>

WriteRemove(w) ==
  /\ Writes(w, "remove")
  /\ Exists(job[w].page)
  /\ page' = Without({job[w].page})
  /\ Finish(w)
  /\ UNCHANGED assigned

\* The copy keeps kind, source and parent of the original as it was read.
WriteDuplicate(w) ==
  LET s == job[w].seen IN
  /\ Writes(w, "duplicate")
  /\ s.source \in catalog \cup ThankYous \cup {NoTemplate}
  /\ \E p \in Free :
       /\ Insert(p, NewRow(s.kind, "private", s.source, s.parent))
       /\ GoOn(w, "companion", [job[w] EXCEPT !.copy = p])
  /\ UNCHANGED assigned

WriteCopy(w) ==
  LET j == job[w] IN
  /\ pc[w] = "copy"
  /\ \E q \in Free : Insert(q, NewRow("thankYou", "private", j.seen.source, j.copy))
  /\ Finish(w)
  /\ UNCHANGED <<assigned, catalog, plan, sub>>

WriteAssignments(w) ==
  LET j == job[w]
      T == CASE j.op = "assign"   -> assigned \cup {j.template}
             [] j.op = "unassign" -> assigned \ {j.template}
             [] OTHER             -> j.templates
  IN  /\ \E op \in {"assign", "unassign", "adminSet"} : Writes(w, op)
      /\ T \subseteq catalog
      /\ assigned' = T
      /\ Finish(w)
      /\ UNCHANGED page

-----------------------------------------------------------------------------
(* The surroundings: single writes.                                        *)

\* The subscription moves by the rules of SubscriptionLifecycle and PackageRequests.
Billing(bill) ==
  /\ Alone
  /\ plan' = bill.plan /\ sub' = bill.sub
  /\ UNCHANGED <<page, assigned, catalog, pc, job>>

\* Its assignments go with a template, pages built from it keep living without a source.
DeleteTemplate(t) ==
  /\ Alone
  /\ t \in catalog
  /\ catalog' = catalog \ {t}
  /\ assigned' = assigned \ {t}
  /\ page' = [p \in Pages |-> IF page[p].source = t THEN [page[p] EXCEPT !.source = NoTemplate]
                              ELSE page[p]]
  /\ UNCHANGED <<plan, sub, pc, job>>

Arrive(w) ==
  \/ \E op \in PageOps, p \in Pages : OnPage(w, op, p)
  \/ \E t \in Templates \cup {NoTemplate} : Create(w, t)
  \/ \E t \in Templates : Assign(w, t) \/ Unassign(w, t)
  \/ \E T \in SUBSET Templates : AdminSet(w, T)

Check(w) ==
  \/ Own(w) \/ ReadPlan(w) \/ CountPages(w) \/ ReadAssignment(w) \/ ReadAssignments(w)
  \/ CountInUse(w) \/ CountAssigned(w) \/ ReadGate(w) \/ ReadTarget(w) \/ CountLive(w)
  \/ CountDistinct(w) \/ FindCompanion(w)

Write(w) ==
  \/ InsertThankYou(w) \/ WriteCreate(w) \/ WriteUpdate(w)
  \/ WriteStatus(w, "publish", "published") \/ WriteStatus(w, "unpublish", "private")
  \/ WriteCompanions(w) \/ RemoveCompanions(w) \/ WriteRemove(w)
  \/ WriteDuplicate(w) \/ WriteCopy(w) \/ WriteAssignments(w)

Next ==
  \/ \E w \in Workers : Arrive(w) \/ Check(w) \/ Write(w) \/ Refuse(w)
  \/ \E bill \in Bills : Billing(bill)
  \/ \E t \in Templates : DeleteTemplate(t)

Spec == Init /\ [][Next]_vars

-----------------------------------------------------------------------------
(* What the code promises.                                                 *)

Job == [op : Ops, page : Pages \cup {NoPage}, template : Sources, templates : SUBSET Templates,
        seen : Row, plan : Plans, gone : SUBSET Templates, copy : Pages \cup {NoPage}]

\* Type invariant: rows and the locals of every handler hold values of their types.
TypeOK ==
  /\ page \in [Pages -> Row]
  /\ assigned \subseteq Templates /\ catalog \subseteq Templates
  /\ plan \in Plans /\ sub \in {"usable", "lapsed", "none"}
  /\ pc \in [Workers -> Phases]
  /\ job \in [Workers -> Job]

\* "Removal is blocked, not just discouraged, when the org actually built something from
\* this template", and a template never assigned cannot have been built from: the template of
\* every page holds a slot of the plan, however pages are created, copied and removed and
\* templates assigned, taken back, replaced and deleted.
SlotHeld == \A p \in Pages : page[p].source \in Templates => page[p].source \in assigned

\* The template each page is built from.
Built == [p \in Pages |-> IF Exists(p) /\ page[p].source \in Templates THEN page[p].source
                          ELSE NoTemplate]

Slots == INSTANCE TemplateSlots WITH built <- Built

\* "otherwise a 1-template plan lets someone cycle assign -> build a landing page -> unassign
\* -> assign a different template": the calls of handlers that check plan, slots and pages and
\* write later come to the same as if each had checked and written in one step.
KeepsSlots == Slots!Spec

\* What the organisation's own domain may show: the page that the domain is linked to, or any
\* other, a thank-you page included, as long as it is published.
OnDomain == {p \in Pages : page[p].status = "published"}

\* "Editing a published page reverts it to draft": the domain of the organisation never shows
\* a content that was edited after its publication, whatever the page was when it was read.
SiteAsPublished == \A p \in OnDomain : ~page[p].edited

Publishes(p) == page'[p].kind = "landing" /\ page'[p].status = "published" /\ p \notin Live

\* "Gate for the publish actions": a landing page becomes public only under a usable
\* subscription whose plan can publish, from a template that is assigned and of a tier the
\* plan includes.
PublishEntitled ==
  [][\A p \in Pages : Publishes(p) =>
       /\ sub = "usable" /\ CanPublish(plan)
       /\ page[p].source \in Templates => page[p].source \in assigned \cap Terms[plan].tiers]_vars

\* The same gate: nothing becomes public beyond the number of published pages the plan
\* allows, nor from one more template than it allows, also after a downgrade.
PublishWithinLimits ==
  [][\A p \in Pages : Publishes(p) =>
       /\ Within(Cardinality(Live \cup {p}), Terms[plan].live)
       /\ \/ LiveSources({p}) \subseteq LiveSources(Live)
          \/ Within(Cardinality(LiveSources(Live \cup {p})), Terms[plan].templates)]_vars

\* "Every landing page has its own dedicated thank-you page companion": neither creating,
\* opening, healing nor copying a landing page gives it a second one (copying a thank-you
\* page itself does).
OneCompanionEach ==
  [][\A q \in Pages :
       (page[q].kind = "absent" /\ page'[q].kind = "thankYou") =>
         \/ Companions(page'[q].parent) = {}
         \/ \E w \in Workers : job[w].op = "duplicate" /\ job[w].seen.kind = "thankYou"
                               /\ pc[w] = "write"]_vars

\* A landing page is removed with its thank-you pages: none is left behind, published
\* perhaps, without the page it belongs to.
RemovedWithCompanions ==
  [][\A p \in Landings : page'[p].kind = "absent" => Companions(p) = {}]_vars

=============================================================================
