---------------------------- MODULE MCLandingPages ----------------------------
(* Instances of LandingPages small enough for TLC. *)
EXTENDS LandingPages, TLC

CONSTANTS t1, t2, y1, free, pro

MCThankYouOf == [t \in {t1, t2} |-> IF t = t1 THEN y1 ELSE NoTemplate]

Offer(create, live, templates, publishing, grants, tiers) ==
  [create |-> create, live |-> live, templates |-> templates, publishing |-> publishing,
   grants |-> grants, tiers |-> tiers]

\* A paid plan for two pages, and a free one for one page of one template.
MCTerms == [p \in {free, pro} |->
  IF p = pro THEN Offer(2, Unlimited, Unlimited, "yes", {t1, t2}, {t1, t2})
  ELSE Offer(1, 1, 1, "unset", {t1}, {t1})]

Bill(p, s) == [plan |-> p, sub |-> s]
MCBills == {Bill(pro, "usable"), Bill(free, "usable"), Bill(pro, "none")}

Symmetry == Permutations(Pages)
=============================================================================
