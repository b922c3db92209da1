---------------------------- MODULE BrowserSession ----------------------------
(***************************************************************************)
(* The session of one browser: the token pair in its local storage, which  *)
(* all its tabs share; the calls of lib/api.ts, which refresh the pair when *)
(* they are refused and then try once more; signing in and out; tabs left  *)
(* in the midst of it; and the server's end of it, the rotation of refresh *)
(* tokens (auth.service.ts).                                               *)
(*                                                                         *)
(* Any call may be refused: access tokens expire by themselves, so they    *)
(* are not told apart.  Requests and answers take time and may be lost.    *)
(***************************************************************************)
EXTENDS FiniteSets

CONSTANTS
  Pairs,   \* token pairs; the id of a pair that nobody holds is given out again
  NoPair,
  Calls,   \* apiFetch calls that may be under way
  TabOf    \* the tab of each call

ASSUME PairAssumption == NoPair \notin Pairs

VARIABLES
  stored,   \* the pair in local storage
  row,      \* the refresh token of each pair in the database
  call,
  flight,   \* the refresh that each call has started for its tab
  leaving,  \* the refresh token that a sign-out has sent to the server
  adrift    \* tokens whose page was left while they were being exchanged

browserVars == <<stored, row, call, flight, leaving, adrift>>

MaybePair == Pairs \cup {NoPair}
Call      == [at : {"idle", "sent", "refused", "waiting"}, retried : BOOLEAN,
              on : Calls]
Flight    == [at : {"none", "sent", "found", "granted", "failed"}, token : MaybePair,
              fresh : MaybePair]

NoFlight  == [at |-> "none", token |-> NoPair, fresh |-> NoPair]
Idle(c)   == [at |-> "idle", retried |-> FALSE, on |-> c]

BrowserInit ==
  /\ stored = NoPair /\ leaving = NoPair
  /\ row = [p \in Pairs |-> "revoked"]
  /\ call = [c \in Calls |-> Idle(c)]
  /\ flight = [c \in Calls |-> NoFlight]
  /\ adrift = {}

Held  == {stored, leaving} \cup {flight[c].token : c \in Calls} \cup {flight[c].fresh : c \in Calls}
Fresh == Pairs \ Held

-----------------------------------------------------------------------------
(* A page goes, and with it its calls and the promise of its refresh.      *)

LeavePage(tab) ==
  /\ call' = [c \in Calls |-> IF TabOf[c] = tab THEN Idle(c) ELSE call[c]]
  /\ flight' = [c \in Calls |-> IF TabOf[c] = tab THEN NoFlight ELSE flight[c]]
  /\ adrift' = adrift \cup {p \in Pairs : \E c \in Calls : TabOf[c] = tab /\ flight[c].token = p}

\* The user reloads or closes the tab; a sign-out may be one of the calls that go.
Reload(tab) ==
  /\ LeavePage(tab)
  /\ leaving' \in {leaving, NoPair}
  /\ UNCHANGED <<stored, row>>

\* The server exchanges the token all the same, sooner or later; nobody gets its answer.
Exchanged(p) ==
  /\ p \in adrift
  /\ row[p] = "live"
  /\ row' = [row EXCEPT ![p] = "rotated"]
  /\ UNCHANGED <<stored, call, flight, leaving, adrift>>

-----------------------------------------------------------------------------
(* A call, until its answer.                                               *)

Send(c) ==
  /\ call[c].at = "idle"
  /\ call' = [call EXCEPT ![c].at = "sent"]
  /\ UNCHANGED <<stored, row, flight, leaving, adrift>>

\* Any answer but a 401, or none.
Answered(c) ==
  /\ call[c].at = "sent"
  /\ call' = [call EXCEPT ![c] = Idle(c)]
  /\ UNCHANGED <<stored, row, flight, leaving, adrift>>

\* A 401 on the second attempt is an error like any other.
Refused(c) ==
  /\ call[c].at = "sent"
  /\ call' = [call EXCEPT ![c] = IF @.retried THEN Idle(c) ELSE [@ EXCEPT !.at = "refused"]]
  /\ UNCHANGED <<stored, row, flight, leaving, adrift>>

\* forceSessionEnd: the session is cleared and the tab loads the sign-in page anew.
Evicted(c) ==
  /\ call[c].at = "sent"
  /\ stored' = NoPair
  /\ LeavePage(TabOf[c])
  /\ UNCHANGED <<row, leaving>>

-----------------------------------------------------------------------------
(* tryRefresh.                                                             *)

Flying(c) == {d \in Calls : TabOf[d] = TabOf[c] /\ flight[d].at # "none"}

Wait(c, d) == call' = [call EXCEPT ![c].at = "waiting", ![c].on = d]

Join(c) ==
  /\ call[c].at = "refused"
  /\ \E d \in Flying(c) : Wait(c, d)
  /\ UNCHANGED <<stored, row, flight, leaving, adrift>>

\* Mutant: the promise of a refresh under way is not looked at.
StartRefresh_Always(c) ==
  /\ call[c].at = "refused"
  /\ stored # NoPair
  /\ flight[c].at = "none"
  /\ flight' = [flight EXCEPT ![c] = [at |-> "sent", token |-> stored, fresh |-> NoPair]]
  /\ Wait(c, c)
  /\ UNCHANGED <<stored, row, leaving, adrift>>

StartRefresh(c) ==
  /\ call[c].at = "refused"
  /\ Flying(c) = {}
  /\ stored # NoPair
  /\ flight' = [flight EXCEPT ![c] = [at |-> "sent", token |-> stored, fresh |-> NoPair]]
  /\ Wait(c, c)
  /\ UNCHANGED <<stored, row, leaving, adrift>>

\* No refresh token: clearSession.
GiveUp(c) ==
  /\ call[c].at = "refused"
  /\ Flying(c) = {}
  /\ stored = NoPair
 
  /\ call' = [call EXCEPT ![c] = Idle(c)]
  /\ UNCHANGED <<stored, row, flight, leaving, adrift>>

FindToken(c) ==
  /\ flight[c].at = "sent"
  /\ row[flight[c].token] = "live"
  /\ flight' = [flight EXCEPT ![c].at = "found"]
  /\ UNCHANGED <<stored, row, call, leaving, adrift>>

\* A 401, a failed call, or a request that never arrives.
Fail(c) ==
  /\ flight[c].at \in {"sent", "found"}
  /\ flight' = [flight EXCEPT ![c].at = "failed"]
  /\ UNCHANGED <<stored, row, call, leaving, adrift>>

\* The server has exchanged the token; its answer may be lost.
Rotate(c) ==
  /\ flight[c].at = "found"
  /\ \E p \in Fresh :
       /\ row' = [row EXCEPT ![flight[c].token] = "rotated", ![p] = "live"]
       /\ adrift' = adrift \ {p}
       /\ \/ flight' = [flight EXCEPT ![c].at = "granted", ![c].fresh = p]
          \/ flight' = [flight EXCEPT ![c].at = "failed"]
  /\ UNCHANGED <<stored, call, leaving>>

Waiting(c) == {d \in Calls : call[d].at = "waiting" /\ call[d].on = c}

\* Mutant: the new pair is used but the refresh token is not stored.
Stored_Old(c) == stored

Stored(c) == flight[c].fresh

\* Mutant: a retried call may be retried.
Again_Unmarked(c) == [at |-> "sent", retried |-> FALSE, on |-> c]

Again(c) == [at |-> "sent", retried |-> TRUE, on |-> c]

\* The answer is stored, the promise dropped, and every call that waits for it goes on.
Granted(c) ==
  /\ flight[c].at = "granted"
  /\ stored' = Stored(c)
  /\ call' = [d \in Calls |-> IF d \in Waiting(c) THEN Again(d) ELSE call[d]]
  /\ flight' = [flight EXCEPT ![c] = NoFlight]
  /\ UNCHANGED <<row, leaving, adrift>>

Denied(c) ==
  /\ flight[c].at = "failed"
  /\ stored' = NoPair
  /\ call' = [d \in Calls |-> IF d \in Waiting(c) THEN Idle(d) ELSE call[d]]
  /\ flight' = [flight EXCEPT ![c] = NoFlight]
  /\ UNCHANGED <<row, leaving, adrift>>

-----------------------------------------------------------------------------
(* Signing in and out, and what ends a session from outside.               *)

SignIn ==
  /\ \E p \in Fresh : stored' = p /\ row' = [row EXCEPT ![p] = "live"] /\ adrift' = adrift \ {p}
  /\ UNCHANGED <<call, flight, leaving>>

SignOut ==
  /\ leaving = NoPair
  /\ stored # NoPair
  /\ leaving' = stored
  /\ UNCHANGED <<stored, row, call, flight, adrift>>

\* The server revokes the token, or the call fails; the session is cleared in either case.
SignedOut ==
  /\ leaving # NoPair
  /\ row' \in {row, [row EXCEPT ![leaving] = IF @ = "live" THEN "revoked" ELSE @]}
  /\ leaving' = NoPair
  /\ stored' = NoPair
  /\ UNCHANGED <<call, flight, adrift>>

\* Expiry, or the session is ended by an administrator.
Revoke(p) ==
  /\ p \notin Fresh
  /\ row[p] = "live"
  /\ row' = [row EXCEPT ![p] = "revoked"]
  /\ UNCHANGED <<stored, call, flight, leaving, adrift>>

BrowserStep(c) ==
  \/ Answered(c) \/ Refused(c) \/ Evicted(c)
  \/ Join(c) \/ StartRefresh(c) \/ GiveUp(c)
  \/ FindToken(c) \/ Fail(c) \/ Rotate(c) \/ Granted(c) \/ Denied(c)

BrowserNext ==
  \/ \E c \in Calls : Send(c) \/ BrowserStep(c) \/ Reload(TabOf[c])
  \/ SignIn \/ SignOut \/ SignedOut
  \/ \E p \in Pairs : Revoke(p) \/ Exchanged(p)

\* Every request is answered or fails, and the browser handles what has happened.
BrowserFairness == \A c \in Calls : WF_browserVars(BrowserStep(c))

BrowserSpec == BrowserInit /\ [][BrowserNext]_browserVars /\ BrowserFairness

-----------------------------------------------------------------------------
(* Properties.                                                             *)

BrowserTypeOK ==
  /\ stored \in MaybePair /\ leaving \in MaybePair
  /\ row \in [Pairs -> {"live", "rotated", "revoked"}]
  /\ call \in [Calls -> Call]
  /\ flight \in [Calls -> Flight]
  /\ adrift \subseteq Pairs

(* Within one tab no refresh token is exchanged twice, however many calls  *)
(* are refused at once, answers are late or lost and the user signs in and *)
(* out: the server looks for the token and revokes it in separate calls    *)
(* and relies on the client's single flight for this.  Only leaving the    *)
(* page in the midst of the exchange takes the promise away, so that the   *)
(* next page may send the same token again.                                *)
ExchangedOnce ==
  [][\A c \in Calls :
       Rotate(c) => row[flight[c].token] # "rotated" \/ flight[c].token \in adrift]_browserVars

(* The browser keeps a refresh token that has been exchanged, and will see *)
(* the user signed out by its next refresh, only while the refresh that    *)
(* exchanged it is under way, or if the page was reloaded or closed before *)
(* that came to its end: not by a lost answer, a sign-in or a sign-out.    *)
StoredIsCurrent ==
  stored # NoPair /\ row[stored] = "rotated" =>
    stored \in adrift \/ \E c \in Calls : flight[c].token = stored

(* Every call comes to an end: its refresh is shared, and it is tried      *)
(* again once at most.                                                     *)
CallsEnd == \A c \in Calls : call[c].at # "idle" ~> call[c].at = "idle"
=============================================================================
