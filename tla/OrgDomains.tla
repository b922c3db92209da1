------------------------------ MODULE OrgDomains ------------------------------
(***************************************************************************)
(* Custom domains: organisations claim hosts, the platform approves or     *)
(* rejects each claim, and an organisation assigns its approved hosts to   *)
(* its landing pages.  A host is recorded twice: in the table of requests, *)
(* by which the public site is served (public-site.service.ts), and, for   *)
(* the first of an organisation's hosts, in its own row, by which its      *)
(* members sign in (resolveLoginHost).                                     *)
(*                                                                         *)
(* Each handler is one action, as when no two of them overlap.  The unique *)
(* index on the host in the organisation's row then never refuses a write. *)
(***************************************************************************)
EXTENDS Integers, SequencesExt

CONSTANTS
  Orgs,
  Hosts,
  Pages,
  OwnerOf,      \* the organisation of each landing page
  NoHost, NoPage,
  MaxRequests   \* bound: rows in the table of requests

ASSUME OwnerAssumption == OwnerOf \in [Pages -> Orgs]
ASSUME NoneAssumption  == NoHost \notin Hosts /\ NoPage \notin Pages
ASSUME RowAssumption   == MaxRequests \in Nat

VARIABLES
  registered,  \* organisations that exist
  pages,       \* landing pages that exist
  requests,    \* OrgDomainRequest, oldest first
  primary      \* customDomain, its status and its page in each organisation's row

domainVars == <<registered, pages, requests, primary>>

Reviewed == {"approved", "connected"}
Claimed  == {"pending"} \cup Reviewed
Target   == Pages \cup {NoPage}

Request  == [org : Orgs, host : Hosts, page : Target, status : Claimed \cup {"rejected"}]
Primary  == [host : Hosts \cup {NoHost}, page : Target,
             status : Claimed \cup {"none", "rejected"}]
NoDomain == [host |-> NoHost, page |-> NoPage, status |-> "none"]

DomainInit ==
  /\ registered = {} /\ pages = {}
  /\ requests = <<>>
  /\ primary = [o \in Orgs |-> NoDomain]

Rows == DOMAIN requests

\* Mutant: hosts that are approved and not assigned are given out again.
Available_Unassigned(h) ==
  /\ \A o \in Orgs : primary[o].host # h
  /\ \A i \in Rows : requests[i].host = h => requests[i].status \notin {"pending", "connected"}

\* assertDomainAvailable, assertCustomDomainAvailable.
Available(h) ==
  /\ \A o \in Orgs : primary[o].host # h
  /\ \A i \in Rows : requests[i].host = h => requests[i].status \notin Claimed

OwnPages(o) == {p \in pages : OwnerOf[p] = o}

File(o, h, p) ==
  /\ Len(requests) < MaxRequests
  /\ requests' = Append(requests, [org |-> o, host |-> h, page |-> p, status |-> "pending"])

Point(o, h, p, status) ==
  primary' = [primary EXCEPT ![o] = [host |-> h, page |-> p, status |-> status]]

-----------------------------------------------------------------------------
(* What an organisation does.                                              *)

\* register, createOrganisationStep.
Register(o) ==
  /\ o \notin registered
  /\ registered' = registered \cup {o}
  /\ \/ UNCHANGED <<requests, primary>>
     \/ \E h \in Hosts : Available(h) /\ File(o, h, NoPage) /\ Point(o, h, NoPage, "pending")
  /\ UNCHANGED pages

RequestCustomDomain(o, h, p) ==
  /\ o \in registered
  /\ Available(h)
  /\ p # NoPage => \A i \in Rows : requests[i].page = p => requests[i].status # "pending"
  /\ File(o, h, p)
  /\ IF primary[o].host = NoHost \/ primary[o].status \in {"none", "rejected"}
     THEN Point(o, h, p, "pending")
     ELSE UNCHANGED primary
  /\ UNCHANGED <<registered, pages>>

Assigned(p) == IF p = NoPage THEN "approved" ELSE "connected"

Linked(r, p) == [r EXCEPT !.page = p, !.status = Assigned(p)]

\* The other hosts of the page are unassigned.  Where the organisation's row has one of
\* those, it is written the page that it has.
AssignDomain(i, p) ==
  LET o == requests[i].org
      Displaced(j) == /\ j # i /\ p # NoPage /\ requests[j].page = p
                      /\ requests[j].org = o /\ requests[j].status \in Reviewed IN
  /\ requests[i].status \in Reviewed
  /\ requests' = [j \in Rows |->
       IF j = i THEN Linked(requests[j], p)
       ELSE IF Displaced(j) THEN Linked(requests[j], NoPage) ELSE requests[j]]
  /\ IF primary[o].host \in {NoHost, requests[i].host}
     THEN Point(o, requests[i].host, p, Assigned(p))
     ELSE UNCHANGED primary
  /\ UNCHANGED <<registered, pages>>

\* The newest reviewed host of the organisation among the rows takes the place of one
\* that is lost; if there is none, the row has the status given.
FallBack(o, rows, status) ==
  LET others == {i \in rows : requests[i].org = o /\ requests[i].status \in Reviewed} IN
  \/ others = {} /\ Point(o, NoHost, NoPage, status)
  \/ \E i \in others :
       /\ \A j \in others : j <= i
       /\ Point(o, requests[i].host, requests[i].page, requests[i].status)

\* Mutant: the organisation's row is not looked after.
DeleteCustomDomain_Row(i) ==
  /\ requests' = RemoveAt(requests, i)
  /\ UNCHANGED <<registered, pages, primary>>

DeleteCustomDomain(i) ==
  LET o == requests[i].org IN
  /\ requests' = RemoveAt(requests, i)
  /\ IF primary[o].host = requests[i].host THEN FallBack(o, Rows \ {i}, "none")
                                           ELSE UNCHANGED primary
  /\ UNCHANGED <<registered, pages>>

CreatePage(p) ==
  /\ p \notin pages /\ OwnerOf[p] \in registered
  /\ pages' = pages \cup {p}
  /\ UNCHANGED <<registered, requests, primary>>

\* ON DELETE SET NULL; the status stays.
Unpaged(r, p) == IF r.page = p THEN [r EXCEPT !.page = NoPage] ELSE r

\* Mutant: the organisation's row keeps the page.
DeletePage_Keep(p) ==
  /\ p \in pages
  /\ pages' = pages \ {p}
  /\ requests' = [i \in Rows |-> Unpaged(requests[i], p)]
  /\ UNCHANGED <<registered, primary>>

DeletePage(p) ==
  /\ p \in pages
  /\ pages' = pages \ {p}
  /\ requests' = [i \in Rows |-> Unpaged(requests[i], p)]
  /\ primary' = [o \in Orgs |-> Unpaged(primary[o], p)]
  /\ UNCHANGED registered

-----------------------------------------------------------------------------
(* What the platform does.                                                 *)

Approve(i) ==
  LET r == requests[i] IN
  /\ r.status = "pending"
  /\ requests' = [requests EXCEPT ![i] = Linked(r, r.page)]
  /\ IF primary[r.org].host \in {NoHost, r.host}
     THEN Point(r.org, r.host, IF r.page = NoPage THEN primary[r.org].page ELSE r.page,
                Assigned(r.page))
     ELSE UNCHANGED primary
  /\ UNCHANGED <<registered, pages>>

Refused(r) == [r EXCEPT !.status = "rejected"]

\* Mutant: no other host takes the place.
Reject_Bare(i) ==
  LET o == requests[i].org IN
  /\ requests[i].status = "pending"
  /\ requests' = [requests EXCEPT ![i] = Refused(@)]
  /\ IF primary[o].host = requests[i].host THEN Point(o, NoHost, NoPage, "rejected")
                                           ELSE UNCHANGED primary
  /\ UNCHANGED <<registered, pages>>

Reject(i) ==
  LET o == requests[i].org IN
  /\ requests[i].status = "pending"
  /\ requests' = [requests EXCEPT ![i] = Refused(@)]
  /\ IF primary[o].host = requests[i].host THEN FallBack(o, Rows \ {i}, "rejected")
                                           ELSE UNCHANGED primary
  /\ UNCHANGED <<registered, pages>>

DomainNext ==
  \/ \E o \in Orgs :
       \/ Register(o)
       \/ \E h \in Hosts, p \in OwnPages(o) \cup {NoPage} : RequestCustomDomain(o, h, p)
  \/ \E i \in Rows :
       \/ DeleteCustomDomain(i) \/ Approve(i) \/ Reject(i)
       \/ \E p \in OwnPages(requests[i].org) \cup {NoPage} : AssignDomain(i, p)
  \/ \E p \in Pages : CreatePage(p) \/ DeletePage(p)

DomainSpec == DomainInit /\ [][DomainNext]_domainVars

-----------------------------------------------------------------------------
(* Properties.                                                             *)

\* With the foreign keys: a page that is named exists.
DomainTypeOK ==
  /\ registered \subseteq Orgs
  /\ pages \subseteq Pages
  /\ requests \in Seq(Request) /\ Len(requests) <= MaxRequests
  /\ primary \in [Orgs -> Primary]
  /\ \A i \in Rows : requests[i].page \in pages \cup {NoPage}
  /\ \A o \in Orgs : primary[o].page \in pages \cup {NoPage}

(* Whoever signs in at a host gets to the organisation whose site the host *)
(* shows: the host in an organisation's row is held by a request of that   *)
(* organisation at the same stage, and by no request of another one, how-  *)
(* ever often it was rejected, deleted and claimed again.                  *)
SignInMeetsSite ==
  \A o \in Orgs : primary[o].host # NoHost =>
    /\ \E i \in Rows : /\ requests[i].org = o /\ requests[i].host = primary[o].host
                       /\ requests[i].status \in Claimed
                       /\ requests[i].status = "pending" <=> primary[o].status = "pending"
    /\ \A i \in Rows : requests[i].host = primary[o].host /\ requests[i].status \in Claimed =>
                         requests[i].org = o

(* An organisation that has an approved host can be signed in to at one:   *)
(* its row loses its host only if it has no other (deleteCustomDomain,     *)
(* reject).                                                                *)
KeepsAnAddress ==
  \A i \in Rows : requests[i].status \in Reviewed => primary[requests[i].org].host # NoHost

(* The organisation's row tells what its request for that host tells, and  *)
(* so serves the page that the host is assigned to: "If org had a previous *)
(* domain linked to this landing page, update org's pointer"               *)
(* (org-domain.service.ts:288).                                            *)
RowInStep ==
  \A o \in Orgs : primary[o].host # NoHost =>
    \E i \in Rows : /\ requests[i].org = o /\ requests[i].host = primary[o].host
                    /\ requests[i].page = primary[o].page
                    /\ requests[i].status = primary[o].status
=============================================================================
