------------------------------ MODULE LeadIntake ------------------------------
(***************************************************************************)
(* How the leads of one Facebook page reach the CRM of the organisation    *)
(* that has connected it: by Meta's webhook, by the hourly sweep over the  *)
(* connections, by the member's Sync Now, and right after connecting.      *)
(* Notifications may be late, lost or delivered again; all four ways may   *)
(* meet at one lead; any call to Meta or to the database may fail, once or *)
(* every time.                                                             *)
(*                                                                         *)
(* A connection is recorded twice, as a page of the Meta module and as its *)
(* mirror among the marketing connections; the sweep knows the mirror      *)
(* only.  Attribution, assignment and the activity event are left out.     *)
(***************************************************************************)
EXTENDS Integers, FiniteSets

CONSTANTS
  Leadgens,
  Workers,   \* a sweep, a sync, or the handling of a request, under way
  NoLead,
  MaxStops   \* bound: how often work is cut off

ASSUME LeadAssumption == NoLead \notin Leadgens /\ MaxStops \in Nat

VARIABLES
  submitted,   \* leads that Meta has
  listed,      \* the newest leads of active forms: those that a sync gets to read
  notices,     \* notifications that Meta may deliver, once or more often
  subscribed,  \* does Meta notify of the page's leads?
  page,        \* is there a MetaPageConnection?
  mirror,      \* the marketing connection
  leads,       \* rows in the CRM for each lead
  warned,      \* the log says that the last sync to list the lead passed it over
  stops,       \* how often work was cut off
  worker       \* what each worker is at

leadVars == <<submitted, listed, notices, subscribed, page, mirror, leads, warned, stops, worker>>
forms    == <<submitted, listed>>
meta     == <<forms, notices, subscribed>>
links    == <<page, mirror>>
logs     == <<warned, stops>>

\* orphan: a sync of a connection that has been deleted since.
Errands == {"notice", "sync", "orphan", "connect", "none"}
Steps   == {"idle", "check", "find", "store", "subscribe", "page", "mirror", "list", "pick",
            "unmirror", "unpage"}
Worker  == [at : Steps, errand : Errands, lead : Leadgens \cup {NoLead},
            todo : SUBSET Leadgens]
AtRest    == [at |-> "idle", errand |-> "none", lead |-> NoLead, todo |-> {}]

LeadInit ==
  /\ submitted = {} /\ listed = Leadgens /\ notices = {} /\ subscribed = FALSE
  /\ page = FALSE /\ mirror = "none"
  /\ leads = [l \in Leadgens |-> 0]
  /\ warned = {} /\ stops = 0
  /\ worker = [w \in Workers |-> AtRest]

\* Meta's side: a lead is submitted, and whoever is subscribed is told, or is not.
Submit(l) ==
  /\ l \notin submitted
  /\ submitted' = submitted \cup {l}
  /\ \/ subscribed /\ notices' = notices \cup {l}
     \/ UNCHANGED notices
  /\ UNCHANGED <<listed, subscribed, links, leads, logs, worker>>

\* A form is archived or activated again, newer leads come in, or there are more than 50 forms.
Relist(l) ==
  /\ listed' \in {listed \cup {l}, listed \ {l}}
  /\ UNCHANGED <<submitted, notices, subscribed, links, leads, logs, worker>>

Go(w, step) == worker' = [worker EXCEPT ![w].at = step]
Begin(w, new) == worker[w] = AtRest /\ worker' = [worker EXCEPT ![w] = new]
Rest(w) == worker' = [worker EXCEPT ![w] = AtRest]

-----------------------------------------------------------------------------
(* ingestLeadgen, for a notification or for a lead that a sync has listed. *)

\* The webhook answers 200 whatever comes of it.
Notice(w, l) ==
  /\ Begin(w, [at |-> "check", errand |-> "notice", lead |-> l, todo |-> {}])
  /\ l \in notices
  /\ notices' \in {notices, notices \ {l}}
  /\ UNCHANGED <<forms, subscribed, links, leads, logs>>

\* A sync goes on with the next lead, whether or not this one came in.
Proceed(w) == IF worker[w].errand = "notice" THEN Rest(w) ELSE Go(w, "pick")

Check(w) ==
  /\ worker[w].at = "check"
  /\ IF leads[worker[w].lead] > 0 THEN Proceed(w) ELSE Go(w, "find")
  /\ UNCHANGED <<meta, links, leads, logs>>

\* The page, or else its mirror in whatever status.
Find(w) ==
  /\ worker[w].at = "find"
  /\ IF page \/ mirror # "none" THEN Go(w, "store") ELSE Proceed(w)
  /\ UNCHANGED <<meta, links, leads, logs>>

\* Mutant: there is no unique index.
Store_Again(w) ==
  /\ worker[w].at = "store"
  /\ leads' = [leads EXCEPT ![worker[w].lead] = @ + 1]
  /\ Proceed(w)
  /\ UNCHANGED <<meta, links, logs>>

\* The lead's details are fetched and a row is inserted; metaLeadgenId is unique, and the
\* error of a second insertion is taken for success.
Store(w) ==
  /\ worker[w].at = "store"
  /\ leads' = [leads EXCEPT ![worker[w].lead] = IF @ = 0 THEN 1 ELSE @]
  /\ Proceed(w)
  /\ UNCHANGED <<meta, links, logs>>

\* Meta or the database fails while a lead is ingested; a sync logs the lead it skips.
Miss(w) ==
  /\ worker[w].at \in {"check", "find", "store"}
  /\ warned' = IF worker[w].errand = "notice" THEN warned ELSE warned \cup {worker[w].lead}
  /\ Proceed(w)
  /\ UNCHANGED <<meta, links, leads, stops>>

-----------------------------------------------------------------------------
(* Synchronisation: resyncPage, and what runSync makes of its outcome.     *)

\* Mutant: the sweep takes connections that have failed only.
Sweep_Failed(w) ==
  /\ mirror = "error"
  /\ Begin(w, [AtRest EXCEPT !.at = "subscribe", !.errand = "sync"])
  /\ UNCHANGED <<meta, links, leads, logs>>

\* syncAllConnected.
Sweep(w) ==
  /\ mirror = "connected"
  /\ Begin(w, [AtRest EXCEPT !.at = "subscribe", !.errand = "sync"])
  /\ UNCHANGED <<meta, links, leads, logs>>

SyncNow(w) ==
  /\ mirror \in {"connected", "error"}
  /\ Begin(w, [AtRest EXCEPT !.at = "subscribe", !.errand = "sync"])
  /\ UNCHANGED <<meta, links, leads, logs>>

Subscribe(w) ==
  /\ worker[w].at = "subscribe"
  /\ subscribed' = TRUE
  /\ Go(w, IF worker[w].errand = "connect" THEN "mirror" ELSE "list")
  /\ UNCHANGED <<forms, notices, links, leads, logs>>

\* backfillRecentLeads: no more than 50 forms, the active ones, and the newest leads of each.
\* That the forms are read one after the other is left out.
List(w) ==
  LET todo == submitted \cap listed IN
  /\ worker[w].at = "list"
  /\ worker' = [worker EXCEPT ![w].at = "pick", ![w].todo = todo]
  /\ warned' = warned \ todo
  /\ UNCHANGED <<meta, links, leads, stops>>

\* Meta declines to list the forms, or the leads of a form: they are passed over with a
\* warning in the log, and the sync is a success all the same.
Overlook(w) ==
  /\ worker[w].at = "pick"
  /\ \E F \in SUBSET worker[w].todo :
       /\ F # {}
       /\ worker' = [worker EXCEPT ![w].todo = @ \ F]
       /\ warned' = warned \cup F
  /\ UNCHANGED <<meta, links, leads, stops>>

Pick(w) ==
  /\ worker[w].at = "pick"
  /\ \E l \in worker[w].todo :
       worker' = [worker EXCEPT ![w].at = "check", ![w].lead = l, ![w].todo = @ \ {l}]
  /\ UNCHANGED <<meta, links, leads, logs>>

Mirrored(status) == mirror' = IF mirror = "none" THEN "none" ELSE status

Finish(w) ==
  /\ worker[w].at = "pick" /\ worker[w].todo = {}
  /\ IF worker[w].errand = "sync" THEN Mirrored("connected") ELSE UNCHANGED mirror
  /\ Rest(w)
  /\ UNCHANGED <<meta, page, leads, logs>>

\* Subscribing fails, a fetch throws while forms or leads are listed, or the success is not
\* written: a sync marks the connection, connecting just ends.
Refuse(w) ==
  /\ worker[w].at \in {"subscribe", "list", "pick"}
  /\ IF worker[w].errand = "sync" THEN Mirrored("error") ELSE UNCHANGED mirror
  /\ Rest(w)
  /\ UNCHANGED <<meta, page, leads, logs>>

-----------------------------------------------------------------------------
(* Connecting and disconnecting.                                           *)

\* handleOAuthCallback.
ConnectPage(w) ==
  /\ Begin(w, [AtRest EXCEPT !.at = "subscribe", !.errand = "connect"])
  /\ page' = TRUE
  /\ UNCHANGED <<meta, mirror, leads, logs>>

\* connectWithToken: it subscribes first, and goes on if that fails.
ConnectWithToken(w) ==
  /\ Begin(w, [AtRest EXCEPT !.at = "page", !.errand = "connect"])
  /\ subscribed' \in {subscribed, TRUE}
  /\ UNCHANGED <<forms, notices, links, leads, logs>>

SavePage(w) ==
  /\ worker[w].at = "page"
  /\ page' = TRUE
  /\ Go(w, "mirror")
  /\ UNCHANGED <<meta, mirror, leads, logs>>

\* mirrorToMarketingConnection swallows its errors; then the recent leads are listed.
Mirror(w) ==
  /\ worker[w].at = "mirror"
  /\ mirror' \in {mirror, "connected"}
  /\ Go(w, "list")
  /\ UNCHANGED <<meta, page, leads, logs>>

\* The connection is deleted: a sync of it that is under way has nothing to mark any more.
Unlink(w, new) ==
  /\ mirror' = "none"
  /\ worker' = [v \in Workers |->
       IF v = w THEN new
       ELSE IF worker[v].errand = "sync" THEN [worker[v] EXCEPT !.errand = "orphan"]
       ELSE worker[v]]

\* MetaLeadsService.disconnect.
Disconnect(w) ==
  /\ page
  /\ Begin(w, [AtRest EXCEPT !.at = "unmirror"])
  /\ page' = FALSE
  /\ UNCHANGED <<meta, mirror, leads, logs>>

\* MetaMarketingAdapter.disconnect.
DisconnectMirror(w) ==
  /\ mirror # "none" /\ worker[w] = AtRest
  /\ Unlink(w, [AtRest EXCEPT !.at = "unpage"])
  /\ UNCHANGED <<meta, page, leads, logs>>

Unmirror(w) ==
  /\ worker[w].at = "unmirror"
  /\ Unlink(w, AtRest)
  /\ UNCHANGED <<meta, page, leads, logs>>

Unpage(w) ==
  /\ worker[w].at = "unpage"
  /\ page' = FALSE
  /\ Rest(w)
  /\ UNCHANGED <<meta, mirror, leads, logs>>

\* A restart, or the database fails also when a failure is to be marked.
Stop(w) ==
  /\ worker[w] # AtRest /\ stops < MaxStops
  /\ stops' = stops + 1
  /\ Rest(w)
  /\ UNCHANGED <<meta, links, leads, warned>>

WorkerStep(w) ==
  \/ Check(w) \/ Find(w) \/ Store(w) \/ Miss(w)
  \/ Subscribe(w) \/ List(w) \/ Overlook(w) \/ Pick(w) \/ Finish(w) \/ Refuse(w)
  \/ SavePage(w) \/ Mirror(w) \/ Unmirror(w) \/ Unpage(w)

LeadNext ==
  \/ \E l \in Leadgens : Submit(l) \/ Relist(l)
  \/ \E w \in Workers :
       \/ WorkerStep(w) \/ Stop(w)
       \/ \E l \in Leadgens : Notice(w, l)
       \/ Sweep(w) \/ SyncNow(w)
       \/ ConnectPage(w) \/ ConnectWithToken(w) \/ Disconnect(w) \/ DisconnectMirror(w)

\* The timer fires every hour, and work that has begun goes on, be it with a failure.
LeadFairness ==
  /\ \A w \in Workers : WF_leadVars(WorkerStep(w))
  /\ SF_leadVars(\E w \in Workers : Sweep(w))

LeadSpec == LeadInit /\ [][LeadNext]_leadVars /\ LeadFairness

-----------------------------------------------------------------------------
(* Properties.                                                             *)

LeadTypeOK ==
  /\ submitted \subseteq Leadgens /\ listed \subseteq Leadgens /\ notices \subseteq submitted
  /\ subscribed \in BOOLEAN /\ page \in BOOLEAN
  /\ mirror \in {"none", "connected", "error"}
  /\ warned \subseteq Leadgens /\ stops \in 0..MaxStops
  /\ leads \in [Leadgens -> Nat]
  /\ worker \in [Workers -> Worker]
  /\ \A w \in Workers : worker[w].at \in {"check", "find", "store"} => worker[w].lead \in Leadgens

(* However often a lead is notified and listed, and however the handlers   *)
(* overlap between looking for it and inserting it, the CRM has it once.   *)
OnceEach == \A l \in Leadgens : leads[l] <= 1

(* No lead is passed over in silence, however many calls fail and whether  *)
(* its notification comes or not: again and again it is in the CRM, or the *)
(* organisation is shown that the page is not connected or that its        *)
(* connection has failed, or the lead is out of a sync's reach (its form   *)
(* is not active, or it is not among the newest), or the last sync to list *)
(* it has logged that it skipped the lead.                                 *)
LeadsArrive ==
  \A l \in Leadgens :
    l \in submitted ~> \/ leads[l] > 0 \/ mirror # "connected"
                       \/ l \notin listed \/ l \in warned
=============================================================================
