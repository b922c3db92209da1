------------------------ MODULE PackageRequestContract ------------------------
(***************************************************************************)
(* What an organisation and the Super Admin may rely on when a package     *)
(* change is asked for: one open request at a time, one decision for each, *)
(* and the package switched in the same step as the approval is recorded.  *)
(***************************************************************************)
CONSTANTS Packages, Requests

VARIABLES
  status, target,      \* of each request: where it stands, and the package it asks for
  package, subscribed  \* the organisation's package, and whether it has one

vars == <<status, target, package, subscribed>>

Init ==
  /\ status = [r \in Requests |-> "absent"]
  /\ target \in [Requests -> Packages]
  /\ package \in Packages
  /\ subscribed \in BOOLEAN

Submit(r, p) ==
  /\ subscribed /\ package # p
  /\ status[r] = "absent"
  /\ \A q \in Requests : status[q] # "pending"
  /\ status' = [status EXCEPT ![r] = "pending"]
  /\ target' = [target EXCEPT ![r] = p]
  /\ UNCHANGED <<package, subscribed>>

\* Withdrawn by the organisation or rejected by the Super Admin.
Decline(r, verdict) ==
  /\ status[r] = "pending"
  /\ status' = [status EXCEPT ![r] = verdict]
  /\ UNCHANGED <<target, package, subscribed>>

Approve(r) ==
  /\ status[r] = "pending"
  /\ status' = [status EXCEPT ![r] = "approved"]
  /\ package' = target[r]
  /\ subscribed' = TRUE
  /\ UNCHANGED target

\* The package also changes without a request: plan switches, cancellation, revival, a plan
\* attached where there is none.
Switch(p, b) ==
  /\ package' = p
  /\ subscribed' = b
  /\ UNCHANGED <<status, target>>

Next ==
  \/ \E r \in Requests, p \in Packages : Submit(r, p)
  \/ \E r \in Requests : Approve(r) \/ Decline(r, "cancelled") \/ Decline(r, "rejected")
  \/ \E p \in Packages, b \in BOOLEAN : Switch(p, b)

Spec == Init /\ [][Next]_vars
===============================================================================
