---------------------------- MODULE BrowserProofs ----------------------------
(* Theorems about BrowserSession, for every value of its constants. *)
EXTENDS BrowserSession, TLAPS

OneTab == \A c, d \in Calls : TabOf[c] = TabOf[d]

-----------------------------------------------------------------------------
(* Type correctness.                                                       *)

LEMMA PartsType ==
  /\ \A c \in Calls : Idle(c) \in Call /\ Again(c) \in Call
  /\ NoFlight \in Flight
BY DEF Idle, Again, Call, NoFlight, Flight, MaybePair

LEMMA CallType ==
  ASSUME NEW k \in Call, NEW at \in {"idle", "sent", "refused", "waiting"}, NEW d \in Calls
  PROVE  /\ [k EXCEPT !.at = at] \in Call
         /\ [k EXCEPT !.at = at, !.on = d] \in Call
BY DEF Call

LEMMA FlightType ==
  ASSUME NEW f \in Flight, NEW at \in {"none", "sent", "found", "granted", "failed"},
         NEW p \in MaybePair
  PROVE  /\ [f EXCEPT !.at = at] \in Flight
         /\ [f EXCEPT !.at = at, !.fresh = p] \in Flight
         /\ [at |-> at, token |-> p, fresh |-> NoPair] \in Flight
BY DEF Flight, MaybePair

LEMMA PageType ==
  ASSUME BrowserTypeOK, NEW tab, LeavePage(tab)
  PROVE  /\ call' \in [Calls -> Call] /\ flight' \in [Calls -> Flight]
         /\ adrift' \subseteq Pairs
BY PartsType DEF BrowserTypeOK, LeavePage

LEMMA StepType ==
  ASSUME BrowserTypeOK, NEW c \in Calls, Send(c) \/ BrowserStep(c)
  PROVE  BrowserTypeOK'
<1> USE PartsType DEF BrowserTypeOK
<1>0. call[c] \in Call /\ flight[c] \in Flight
  OBVIOUS
<1>1. CASE Send(c)
  BY <1>0, <1>1, CallType DEF Send
<1>2. CASE Answered(c)
  BY <1>2 DEF Answered
<1>3. CASE Refused(c)
  BY <1>0, <1>3, CallType DEF Refused
<1>4. CASE Evicted(c)
  BY <1>4, PageType DEF Evicted, MaybePair
<1>5. CASE Join(c)
  BY <1>0, <1>5, CallType DEF Join, Wait, Flying
<1>6. CASE StartRefresh(c)
  BY <1>0, <1>6, CallType, FlightType DEF StartRefresh, Wait
<1>7. CASE GiveUp(c)
  BY <1>7 DEF GiveUp
<1>8. CASE FindToken(c)
  BY <1>0, <1>8, FlightType DEF FindToken
<1>9. CASE Fail(c)
  BY <1>0, <1>9, FlightType DEF Fail
<1>10. CASE Rotate(c)
  <2>1. PICK p \in Fresh :
          /\ row' = [row EXCEPT ![flight[c].token] = "rotated", ![p] = "live"]
          /\ adrift' = adrift \ {p}
          /\ \/ flight' = [flight EXCEPT ![c].at = "granted", ![c].fresh = p]
             \/ flight' = [flight EXCEPT ![c].at = "failed"]
    BY <1>10 DEF Rotate
  <2>2. p \in MaybePair
    BY DEF Fresh, MaybePair
  <2>3. flight' \in [Calls -> Flight]
    <3>1. CASE flight' = [flight EXCEPT ![c].at = "granted", ![c].fresh = p]
      <4> DEFINE f == [flight[c] EXCEPT !.at = "granted", !.fresh = p]
      <4>1. f \in Flight
        BY <1>0, <2>2, FlightType
      <4>2. flight' = [flight EXCEPT ![c] = f]
        BY <3>1
      <4> QED BY <4>1, <4>2
    <3>2. CASE flight' = [flight EXCEPT ![c].at = "failed"]
      BY <1>0, <3>2, FlightType
    <3> QED BY <2>1, <3>1, <3>2
  <2>4. row' \in [Pairs -> {"live", "rotated", "revoked"}]
    BY <2>1
  <2> QED BY <1>10, <2>1, <2>3, <2>4 DEF Rotate
<1>11. CASE Granted(c)
  BY <1>0, <1>11 DEF Granted, Stored, Flight
<1>12. CASE Denied(c)
  BY <1>12 DEF Denied, MaybePair
<1> QED BY <1>1, <1>2, <1>3, <1>4, <1>5, <1>6, <1>7, <1>8, <1>9, <1>10, <1>11, <1>12
        DEF BrowserStep

\* What is done outside the calls of a page that stays.
Outside ==
  \/ SignIn \/ SignOut \/ SignedOut
  \/ \E p \in Pairs : Revoke(p) \/ Exchanged(p)

LEMMA OutsideType ==
  ASSUME BrowserTypeOK, Outside
  PROVE  BrowserTypeOK'
<1> USE DEF BrowserTypeOK, MaybePair
<1>1. CASE SignIn
  BY <1>1 DEF SignIn, Fresh
<1>2. CASE SignOut
  BY <1>2 DEF SignOut
<1>3. CASE SignedOut
  <2>1. leaving \in Pairs
    BY <1>3 DEF SignedOut
  <2>2. CASE row' = row
    BY <1>3, <2>2 DEF SignedOut
  <2>3. CASE row' = [row EXCEPT ![leaving] = IF @ = "live" THEN "revoked" ELSE @]
    BY <1>3, <2>1, <2>3 DEF SignedOut
  <2> QED BY <1>3, <2>2, <2>3 DEF SignedOut
<1>4. CASE \E p \in Pairs : Revoke(p) \/ Exchanged(p)
  BY <1>4 DEF Revoke, Exchanged
<1> QED BY <1>1, <1>2, <1>3, <1>4 DEF Outside

LEMMA ReloadType ==
  ASSUME BrowserTypeOK, NEW tab, Reload(tab)
  PROVE  BrowserTypeOK'
<1>1. leaving' \in MaybePair /\ UNCHANGED <<stored, row>>
  BY DEF Reload, BrowserTypeOK, MaybePair
<1> QED BY <1>1, PageType DEF Reload, BrowserTypeOK

LEMMA NextType == BrowserTypeOK /\ [BrowserNext]_browserVars => BrowserTypeOK'
<1> SUFFICES ASSUME BrowserTypeOK, [BrowserNext]_browserVars PROVE BrowserTypeOK'
  OBVIOUS
<1>1. CASE UNCHANGED browserVars
  BY <1>1 DEF browserVars, BrowserTypeOK
<1>2. CASE \E c \in Calls : Send(c) \/ BrowserStep(c)
  BY <1>2, StepType
<1>3. CASE Outside
  BY <1>3, OutsideType
<1>4. CASE \E c \in Calls : Reload(TabOf[c])
  BY <1>4, ReloadType
<1> QED BY <1>1, <1>2, <1>3, <1>4 DEF BrowserNext, Outside

LEMMA BrowserInitType == BrowserInit => BrowserTypeOK
BY PartsType DEF BrowserInit, BrowserTypeOK, MaybePair

\* Behaviours, fair or not.
BrowserRuns == BrowserInit /\ [][BrowserNext]_browserVars

LEMMA RunsTyped == BrowserRuns => []BrowserTypeOK
BY BrowserInitType, NextType, PTL DEF BrowserRuns

\* The browser's state has its type.
THEOREM BrowserTypeCorrect == BrowserSpec => []BrowserTypeOK
BY RunsTyped, PTL DEF BrowserSpec, BrowserRuns

-----------------------------------------------------------------------------
(* One tab has one refresh under way at most, so that the token which it   *)
(* has sent is exchanged by it alone, unless an earlier page sent it.      *)

Flies(c) == flight[c].at # "none"

RefreshInv ==
  /\ \A c \in Calls : flight[c] = NoFlight \/ (Flies(c) /\ flight[c].token \in Pairs)
  /\ \A c, d \in Calls : Flies(c) /\ Flies(d) => c = d
  /\ \A c \in Calls : flight[c].at \in {"sent", "found"} =>
       row[flight[c].token] # "rotated" \/ flight[c].token \in adrift
  /\ \A c \in Calls : flight[c].at = "granted" =>
       flight[c].fresh \in Pairs \ adrift /\ row[flight[c].fresh] # "rotated"
  /\ StoredIsCurrent

\* The token in storage may be sent if no refresh is under way.
LEMMA StoredFresh ==
  ASSUME BrowserTypeOK, RefreshInv, \A c \in Calls : ~Flies(c), stored # NoPair
  PROVE  stored \in Pairs /\ (row[stored] # "rotated" \/ stored \in adrift)
<1>1. stored \in Pairs
  BY DEF BrowserTypeOK, MaybePair
<1>2. \A c \in Calls : flight[c].token # stored
  BY <1>1, PairAssumption DEF RefreshInv, Flies, NoFlight
<1> QED BY <1>1, <1>2 DEF RefreshInv, StoredIsCurrent

\* With the page go all the calls there are.
LEMMA LeaveRefresh ==
  ASSUME OneTab, BrowserTypeOK, RefreshInv, NEW c \in Calls, LeavePage(TabOf[c]), row' = row,
         stored' \in {stored, NoPair}
  PROVE  RefreshInv'
<1>1. \A d \in Calls : flight'[d] = NoFlight
  BY DEF LeavePage, OneTab
<1>2. adrift' = adrift \cup {p \in Pairs : \E d \in Calls : flight[d].token = p}
  BY DEF LeavePage, OneTab
<1>3. StoredIsCurrent'
  BY <1>2 DEF RefreshInv, StoredIsCurrent, BrowserTypeOK, MaybePair
<1> QED BY <1>1, <1>3 DEF RefreshInv, Flies, NoFlight

LEMMA StepRefresh ==
  ASSUME OneTab, BrowserTypeOK, RefreshInv, NEW c \in Calls, Send(c) \/ BrowserStep(c)
  PROVE  RefreshInv'
<1> USE DEF RefreshInv, StoredIsCurrent, Flies
<1>1. CASE Send(c) \/ Answered(c) \/ Refused(c) \/ Join(c) \/ GiveUp(c)
  BY <1>1 DEF Send, Answered, Refused, Join, GiveUp
<1>2. CASE Denied(c)
  BY <1>2 DEF Denied, BrowserTypeOK, NoFlight
<1>7. CASE Evicted(c)
  BY <1>7, LeaveRefresh DEF Evicted
<1>3. CASE StartRefresh(c)
  <2>1. \A d \in Calls : ~Flies(d)
    BY <1>3 DEF StartRefresh, Flying, OneTab
  <2>2. stored \in Pairs /\ (row[stored] # "rotated" \/ stored \in adrift)
    BY <1>3, <2>1, StoredFresh DEF StartRefresh
  <2>3. /\ flight'[c] = [at |-> "sent", token |-> stored, fresh |-> NoPair]
        /\ \A d \in Calls \ {c} : flight'[d] = flight[d]
        /\ row' = row /\ stored' = stored /\ adrift' = adrift
    BY <1>3 DEF StartRefresh, BrowserTypeOK
  <2> QED BY <2>1, <2>2, <2>3
<1>4. CASE FindToken(c) \/ Fail(c)
  <2>1. /\ flight'[c].token = flight[c].token
        /\ flight'[c].at \in {"found", "failed"} /\ flight[c].at \in {"sent", "found"}
        /\ \A d \in Calls \ {c} : flight'[d] = flight[d]
        /\ row' = row /\ stored' = stored /\ adrift' = adrift
    BY <1>4 DEF FindToken, Fail, BrowserTypeOK, Flight
  <2> QED BY <2>1 DEF NoFlight
<1>5. CASE Rotate(c)
  <2> DEFINE used == flight[c].token
  <2>1. PICK p \in Fresh :
          /\ row' = [row EXCEPT ![flight[c].token] = "rotated", ![p] = "live"]
          /\ adrift' = adrift \ {p}
          /\ \/ flight' = [flight EXCEPT ![c].at = "granted", ![c].fresh = p]
             \/ flight' = [flight EXCEPT ![c].at = "failed"]
    BY <1>5 DEF Rotate
  <2>2. /\ p \in Pairs /\ p # used /\ p # stored
        /\ used \in Pairs /\ \A d \in Calls \ {c} : flight[d].at = "none"
    BY <1>5, <2>1 DEF Fresh, Held, Rotate, NoFlight
  <2>3. /\ flight'[c].token = used
        /\ flight'[c].at = "failed" \/ (flight'[c].at = "granted" /\ flight'[c].fresh = p)
        /\ \A d \in Calls \ {c} : flight'[d] = flight[d]
    <3>1. CASE flight' = [flight EXCEPT ![c].at = "granted", ![c].fresh = p]
      BY <3>1 DEF BrowserTypeOK, Flight
    <3>2. CASE flight' = [flight EXCEPT ![c].at = "failed"]
      BY <3>2 DEF BrowserTypeOK, Flight
    <3> QED BY <2>1, <3>1, <3>2
  <2>4. row'[p] = "live" /\ \A q \in Pairs \ {p, used} : row'[q] = row[q]
    BY <2>1, <2>2 DEF BrowserTypeOK
  <2>5. stored' = stored /\ adrift' = adrift \ {p}
    BY <1>5, <2>1 DEF Rotate
  <2>6. stored # NoPair => stored \in Pairs
    BY DEF BrowserTypeOK, MaybePair
  <2>7. StoredIsCurrent'
    BY <2>2, <2>3, <2>4, <2>5, <2>6
  <2> QED BY <2>2, <2>3, <2>4, <2>5, <2>7
<1>6. CASE Granted(c)
  <2>1. /\ stored' = flight[c].fresh /\ row' = row /\ adrift' = adrift
        /\ flight'[c] = NoFlight
        /\ \A d \in Calls \ {c} : flight'[d] = flight[d]
    BY <1>6 DEF Granted, Stored, BrowserTypeOK
  <2> QED BY <1>6, <2>1 DEF Granted, NoFlight
<1> QED BY <1>1, <1>2, <1>3, <1>4, <1>5, <1>6, <1>7 DEF BrowserStep

LEMMA OutsideRefresh ==
  ASSUME BrowserTypeOK, RefreshInv, Outside
  PROVE  RefreshInv'
<1> USE DEF RefreshInv, StoredIsCurrent, Flies
<1>1. CASE SignIn
  <2>1. PICK p \in Fresh : /\ stored' = p /\ row' = [row EXCEPT ![p] = "live"]
                          /\ adrift' = adrift \ {p}
    BY <1>1 DEF SignIn
  <2>2. \A c \in Calls : flight[c].token # p /\ flight[c].fresh # p
    BY <2>1 DEF Fresh, Held
  <2>3. row'[p] = "live" /\ \A q \in Pairs \ {p} : row'[q] = row[q]
    BY <2>1 DEF Fresh, BrowserTypeOK
  <2>4. flight' = flight
    BY <1>1 DEF SignIn
  <2> QED BY <2>1, <2>2, <2>3, <2>4 DEF NoFlight, Fresh
<1>2. CASE SignOut \/ SignedOut \/ \E p \in Pairs : Revoke(p)
  <2>1. /\ \A q \in Pairs : row[q] # "rotated" => row'[q] # "rotated"
        /\ flight' = flight /\ adrift' = adrift
    BY <1>2 DEF BrowserTypeOK, SignOut, SignedOut, Revoke
  <2>2. \/ stored' = NoPair
        \/ stored' = stored /\ row'[stored] = row[stored]
        \/ stored' = stored /\ stored \in Pairs /\ row'[stored] # "rotated"
    BY <1>2 DEF BrowserTypeOK, SignOut, SignedOut, Revoke, MaybePair
  <2>3. StoredIsCurrent'
    BY <2>1, <2>2
  <2> QED BY <2>1, <2>3 DEF NoFlight
<1>3. ASSUME NEW p \in Pairs, Exchanged(p) PROVE RefreshInv'
  <2>1. /\ p \in adrift /\ row' = [row EXCEPT ![p] = "rotated"]
        /\ flight' = flight /\ adrift' = adrift /\ stored' = stored
    BY <1>3 DEF Exchanged
  <2>2. \A q \in Pairs : row'[q] = row[q] \/ q \in adrift
    BY <2>1 DEF BrowserTypeOK
  <2>3. StoredIsCurrent'
    BY <2>1, <2>2 DEF BrowserTypeOK, MaybePair
  <2> QED BY <2>1, <2>2, <2>3 DEF NoFlight
<1> QED BY <1>1, <1>2, <1>3 DEF Outside

LEMMA NextRefresh ==
  ASSUME OneTab
  PROVE  BrowserTypeOK /\ RefreshInv /\ [BrowserNext]_browserVars => RefreshInv'
<1> SUFFICES ASSUME BrowserTypeOK, RefreshInv, [BrowserNext]_browserVars PROVE RefreshInv'
  OBVIOUS
<1>1. CASE UNCHANGED browserVars
  BY <1>1 DEF browserVars, RefreshInv, StoredIsCurrent, Flies
<1>2. CASE \E c \in Calls : Send(c) \/ BrowserStep(c)
  BY <1>2, StepRefresh
<1>3. CASE Outside
  BY <1>3, OutsideRefresh
<1>4. ASSUME NEW c \in Calls, Reload(TabOf[c]) PROVE RefreshInv'
  BY <1>4, LeaveRefresh DEF Reload
<1> QED BY <1>1, <1>2, <1>3, <1>4 DEF BrowserNext, Outside

\* With one tab, what tryRefresh relies on holds at every moment.
THEOREM RefreshInvariant == ASSUME OneTab PROVE BrowserRuns => []RefreshInv
<1>1. BrowserInit => RefreshInv
  BY DEF BrowserInit, RefreshInv, StoredIsCurrent, Flies, NoFlight
<1> QED BY <1>1, NextRefresh, RunsTyped, PTL DEF BrowserRuns

LEMMA RunsExchangeOnce == ASSUME OneTab PROVE BrowserRuns => ExchangedOnce
<1>1. RefreshInv =>
        [\A c \in Calls :
           Rotate(c) => row[flight[c].token] # "rotated" \/ flight[c].token \in adrift]_browserVars
  BY DEF RefreshInv, Rotate
<1> QED BY <1>1, RefreshInvariant, PTL DEF BrowserRuns, ExchangedOnce

\* With one tab the browser keeps no refresh token that has been exchanged, except by a
\* refresh under way or one whose page was left.
THEOREM StoredIsCurrentAlways == ASSUME OneTab PROVE BrowserSpec => []StoredIsCurrent
<1>1. RefreshInv => StoredIsCurrent
  BY DEF RefreshInv
<1> QED BY <1>1, RefreshInvariant, PTL DEF BrowserSpec, BrowserRuns

\* With one tab no refresh token is exchanged twice, unless a page was left in between.
THEOREM ExchangedOnceAlways == ASSUME OneTab PROVE BrowserSpec => ExchangedOnce
BY RunsExchangeOnce, PTL DEF BrowserSpec, BrowserRuns
=============================================================================
