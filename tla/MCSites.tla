-------------------------------- MODULE MCSites --------------------------------
(* What stands behind an organisation's site: its domains, the intake of its *)
(* leads and the editor of its pages, on instances small enough for TLC.     *)
(* They share no variable: a behaviour is of one of them, the others stand   *)
(* still.                                                                    *)
EXTENDS OrgDomains, LeadIntake, EditorHistory

CONSTANTS o1

VARIABLE part

MCOwnerOf == [p \in Pages |-> o1]

Parts == {"domains", "leads", "editor"}

vars == <<part, domainVars, leadVars, editorVars>>

Init ==
  /\ part \in Parts
  /\ DomainInit
  /\ LeadInit
  /\ EditorInit

Others(p) ==
  /\ part = p /\ UNCHANGED part
  /\ p = "domains" \/ UNCHANGED domainVars
  /\ p = "leads" \/ UNCHANGED leadVars
  /\ p = "editor" \/ UNCHANGED editorVars

Next ==
  \/ Others("domains") /\ DomainNext
  \/ Others("leads") /\ LeadNext
  \/ Others("editor") /\ EditorNext

\* Only a behaviour of that part can be fair to it.
Spec == Init /\ [][Next]_vars /\ (part = "leads" => LeadFairness)

\* Types of all of them.
TypeOK == DomainTypeOK /\ LeadTypeOK /\ EditorTypeOK
=============================================================================
