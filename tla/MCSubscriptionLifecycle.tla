---------------------- MODULE MCSubscriptionLifecycle ----------------------
(* Instances of SubscriptionLifecycle small enough for TLC. *)
EXTENDS SubscriptionLifecycle, TLC

\* Days are scaled down: a month is one day, a year one or two.
Cfg(g, n, b) == [grace |-> g, notify |-> n, behavior |-> b]
MCDefaultConfig == Cfg(1, 1, "restrict")
MCConfigs       == {MCDefaultConfig, Cfg(0, 0, "cancel")}
OnePolicy       == {MCDefaultConfig}

Body(st, c, at, replan) == [status |-> st, cycle |-> c, renewsAt |-> at, replan |-> replan]
\* The bodies an admin may send: edits of the plan alone, of cycle and date, of the status.
MCUpdateDtos == {Body("keep", "keep", NoDate, TRUE), Body("keep", "yearly", 2, FALSE),
                 Body("active", "keep", NoDate, FALSE), Body("past_due", "keep", NoDate, FALSE),
                 Body("paused", "keep", 1, FALSE), Body("cancelled", "keep", NoDate, FALSE)}
SuspendOnly  == {Body("past_due", "keep", NoDate, FALSE)}
FewUpdateDtos == SuspendOnly \cup {Body("active", "keep", NoDate, FALSE)}
TrialOnly    == {Body("trial", "monthly", 1, TRUE)}

Symmetry == Permutations(Subs) \cup Permutations(Members)
=============================================================================
