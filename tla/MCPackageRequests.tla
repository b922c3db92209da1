-------------------------- MODULE MCPackageRequests --------------------------
(* Instances of PackageRequests small enough for TLC. *)
EXTENDS PackageRequests, TLC

Offer(projects, pages) == [k \in Keys |-> IF k = "projects" THEN projects ELSE pages]

\* A generous plan and a tight one.
MCOffers == {Offer(Unlimited, 1), Offer(0, 0)}
OneOffer == {Offer(1, 1)}
Symmetry == Permutations(Requests) \cup Permutations(Workers)
=============================================================================
