----------------------------- MODULE AccountProofs -----------------------------
(***************************************************************************)
(* Proofs about AccountSessions: its types, and, when no handler begins    *)
(* while another one awaits, that an ended session stays ended and that    *)
(* nobody but an administrator lets a disabled member in again.            *)
(*                                                                         *)
(* The invariant says that one handler at most is under way, that what it  *)
(* has read still holds, that the token it exchanges is of no ended        *)
(* session, and that every access token of an ended session was issued     *)
(* before the account's stamp, which never is in the future.               *)
(***************************************************************************)
EXTENDS AccountSessions, TLAPS

-----------------------------------------------------------------------------
(* Types.                                                                  *)

LEMMA NothingTyped == Invited \in Account /\ Nothing \in Doing
BY InstantAssumption DEF Invited, Account, Nothing, Doing, Statuses, Ops, Instants

LEMMA InitTyped == AccountInit => AccountTypeOK
BY NothingTyped, InstantAssumption DEF AccountInit, AccountTypeOK, Invited, Instants

\* A handler begins.
LEMMA BeginTyped ==
  ASSUME AccountTypeOK, NEW h \in Handlers, NEW op \in Ops, NEW t \in Tokens \cup {NoToken},
         doing' = [doing EXCEPT ![h] = [op |-> op, token |-> t, seen |-> account]]
  PROVE  doing' \in [Handlers -> Doing]
<1> DEFINE new == [op |-> op, token |-> t, seen |-> account]
<1>1. new \in Doing
  BY DEF AccountTypeOK, Doing
<1>2. doing' = [doing EXCEPT ![h] = new]
  OBVIOUS
<1> HIDE DEF new
<1> QED BY <1>1, <1>2 DEF AccountTypeOK

LEMMA ReadTyped ==
  ASSUME AccountTypeOK, NEW h \in Handlers, NEW op \in Ops, NEW t \in Tokens \cup {NoToken},
         Read(h, op, t)
  PROVE  AccountTypeOK'
<1>1. doing' \in [Handlers -> Doing]
  BY BeginTyped DEF Read
<1> QED BY <1>1 DEF AccountTypeOK, Read

LEMMA DoneTyped ==
  ASSUME AccountTypeOK, NEW h \in Handlers, NEW op, Done(h, op)
  PROVE  doing' \in [Handlers -> Doing] /\ clock' = clock
BY NothingTyped DEF AccountTypeOK, Done

LEMMA IssueTyped ==
  ASSUME AccountTypeOK, NEW rest \in SUBSET Tokens, NEW over \in BOOLEAN, Issue(rest, over)
  PROVE  access' \subseteq Access /\ live' \subseteq Tokens /\ ended' \subseteq Tokens
<1>1. [at |-> clock, over |-> over] \in Access
  BY DEF AccountTypeOK, Access
<1>2. access' \subseteq Access
  BY <1>1 DEF AccountTypeOK, Issue
<1>3. live' \subseteq Tokens /\ ended' \subseteq Tokens
  <2>1. CASE live' = rest /\ ended' = ended
    BY <2>1 DEF AccountTypeOK
  <2>2. CASE \E t \in Unused : /\ live' = rest \cup {t}
                               /\ ended' = IF over THEN ended \cup {t} ELSE ended \ {t}
    BY <2>2 DEF AccountTypeOK, Unused
  <2> QED BY <2>1, <2>2 DEF Issue
<1> QED BY <1>2, <1>3

LEMMA LapsedTyped == ASSUME AccountTypeOK PROVE Lapsed \subseteq Access
<1>1. ASSUME NEW a \in access PROVE [a EXCEPT !.over = a.over \/ a.at < clock] \in Access
  <2>1. a \in Access
    BY DEF AccountTypeOK
  <2> DEFINE b == a.over \/ a.at < clock
  <2>2. b \in BOOLEAN
    OBVIOUS
  <2> HIDE DEF b
  <2>3. [a EXCEPT !.over = b] \in Access
    BY <2>1, <2>2 DEF Access
  <2> QED BY <2>3 DEF b
<1> QED BY <1>1 DEF Lapsed

LEMMA StampTyped ==
  ASSUME AccountTypeOK, NEW a \in Account
  PROVE  [a EXCEPT !.invalidBefore = clock] \in Account
BY DEF AccountTypeOK, Account

LEMMA EndTyped ==
  ASSUME AccountTypeOK, NEW a \in Account, EndSessions(a)
  PROVE  /\ account' \in Account /\ access' \subseteq Access
         /\ live' \subseteq Tokens /\ ended' \subseteq Tokens
BY StampTyped, LapsedTyped DEF EndSessions, AccountTypeOK

\* The rows that the handlers write.
LEMMA RowsTyped ==
  ASSUME AccountTypeOK
  PROVE  /\ \A s \in Statuses : [account EXCEPT !.status = s] \in Account
         /\ \A b \in BOOLEAN : [account EXCEPT !.mustChangePassword = b] \in Account
BY DEF AccountTypeOK, Account

LEMMA StepTyped == AccountTypeOK /\ [AccountNext]_accountVars => AccountTypeOK'
<1> SUFFICES ASSUME AccountTypeOK, [AccountNext]_accountVars PROVE AccountTypeOK'
  OBVIOUS
<1>1. ASSUME NEW h \in Handlers,
             \/ ReadLogin(h) \/ (\E t \in Tokens : ReadRefresh(h, t)) \/ ReadChangePassword(h)
             \/ ReadApprove(h) \/ ReadResend(h)
      PROVE  AccountTypeOK'
  <2>1. PICK op \in Ops, t \in Tokens \cup {NoToken} : Read(h, op, t)
    BY <1>1 DEF ReadLogin, ReadRefresh, ReadChangePassword, ReadApprove, ReadResend, Ops
  <2> QED BY <2>1, ReadTyped
<1>2. ASSUME NEW h \in Handlers, ReadForgot(h) PROVE AccountTypeOK'
  <2>1. doing' = [doing EXCEPT ![h] = [op |-> "forgot", token |-> NoToken, seen |-> account]]
    BY <1>2 DEF ReadForgot
  <2>2. doing' \in [Handlers -> Doing]
    BY <2>1, BeginTyped DEF Ops
  <2> QED BY <1>2, <2>2 DEF AccountTypeOK, ReadForgot
<1>3. ASSUME NEW h \in Handlers, Login(h) PROVE AccountTypeOK'
  <2>1. live \in SUBSET Tokens /\ Issue(live, FALSE)
    BY <1>3 DEF AccountTypeOK, Login
  <2>2. access' \subseteq Access /\ live' \subseteq Tokens /\ ended' \subseteq Tokens
    BY <2>1, IssueTyped
  <2> QED BY <1>3, <2>2, DoneTyped DEF AccountTypeOK, Login
<1>4. ASSUME NEW h \in Handlers, Refresh(h) PROVE AccountTypeOK'
  <2>1. /\ live \ {doing[h].token} \in SUBSET Tokens /\ (doing[h].token \in ended) \in BOOLEAN
        /\ Issue(live \ {doing[h].token}, doing[h].token \in ended)
    BY <1>4 DEF AccountTypeOK, Refresh
  <2>2. access' \subseteq Access /\ live' \subseteq Tokens /\ ended' \subseteq Tokens
    BY <2>1, IssueTyped
  <2> QED BY <1>4, <2>2, DoneTyped DEF AccountTypeOK, Refresh
<1>5. ASSUME NEW h \in Handlers, ChangePassword(h) PROVE AccountTypeOK'
  <2>1. PICK s \in Statuses :
          account' = [account EXCEPT !.status = s, !.mustChangePassword = FALSE,
                                     !.invalidBefore = clock]
    <3>1. account.status \in Statuses /\ "active" \in Statuses
      BY DEF AccountTypeOK, Account, Statuses
    <3> QED BY <1>5, <3>1 DEF ChangePassword
  <2>2. account' \in Account
    BY <2>1 DEF AccountTypeOK, Account
  <2> QED BY <1>5, <2>2, DoneTyped, LapsedTyped DEF AccountTypeOK, ChangePassword
<1>6. ASSUME NEW h \in Handlers, Forgot(h) PROVE AccountTypeOK'
  BY <1>6, DoneTyped DEF AccountTypeOK, Forgot
<1>7. ASSUME NEW h \in Handlers, ApproveUser(h) PROVE AccountTypeOK'
  <2>1. PICK s \in Statuses : account' = [account EXCEPT !.status = s, !.approved = TRUE]
    BY <1>7 DEF ApproveUser, Statuses
  <2>2. account' \in Account
    BY <2>1 DEF AccountTypeOK, Account
  <2> QED BY <1>7, <2>2, DoneTyped DEF AccountTypeOK, ApproveUser
<1>8. ASSUME NEW h \in Handlers, Resend(h) PROVE AccountTypeOK'
  BY <1>8, DoneTyped, EndTyped, RowsTyped DEF AccountTypeOK, Resend
<1>9. ASSUME NEW h \in Handlers, Abandon(h) PROVE AccountTypeOK'
  BY <1>9, NothingTyped DEF AccountTypeOK, Abandon
<1>10. CASE Disable
  BY <1>10, EndTyped, RowsTyped DEF AccountTypeOK, Disable, Statuses
<1>11. ASSUME NEW s \in {"pending", "active"}, SetStatus(s) PROVE AccountTypeOK'
  BY <1>11, RowsTyped DEF AccountTypeOK, SetStatus, Statuses
<1>12. CASE SetPassword
  BY <1>12, EndTyped, RowsTyped DEF AccountTypeOK, SetPassword
<1>13. ASSUME NEW l \in Links, ResetPassword(l) PROVE AccountTypeOK'
  BY <1>13, EndTyped, RowsTyped DEF AccountTypeOK, ResetPassword
<1>14. ASSUME NEW t \in Tokens, Logout(t) PROVE AccountTypeOK'
  BY <1>14 DEF AccountTypeOK, Logout
<1>15. CASE Pass
  BY <1>15, InstantAssumption DEF AccountTypeOK, Pass, Instants
<1>16. CASE UNCHANGED accountVars
  BY <1>16 DEF AccountTypeOK, accountVars
<1> QED BY <1>1, <1>2, <1>3, <1>4, <1>5, <1>6, <1>7, <1>8, <1>9, <1>10, <1>11, <1>12, <1>13,
           <1>14, <1>15, <1>16 DEF AccountNext

(* The clock, the account, its tokens and what every handler has read      *)
(* keep their types, with or without overlapping handlers.                 *)
THEOREM AccountTypeCorrect == AccountSpec => []AccountTypeOK
<1>1. AccountInit => AccountTypeOK
  BY InitTyped
<1>2. AccountTypeOK /\ [AccountNext]_accountVars => AccountTypeOK'
  BY StepTyped
<1> QED BY <1>1, <1>2, PTL DEF AccountSpec

-----------------------------------------------------------------------------
(* One handler at a time.                                                  *)

OneAtATime == ~Concurrent

\* One handler at most is under way, and what it has read still holds.
Undisturbed ==
  \A h \in Handlers : doing[h] # Nothing =>
    /\ doing[h].seen = account
    /\ \A g \in Handlers : doing[g] # Nothing => g = h

\* No token of an ended session is live, or about to be exchanged.
EndedGone ==
  /\ live \cap ended = {}
  /\ \A h \in Handlers : doing[h].op = "refresh" => doing[h].token \notin ended

\* Every access token that is over was issued before the account's stamp.
OverStamped ==
  /\ account.invalidBefore <= clock
  /\ \A a \in access : a.over => a.at < account.invalidBefore

SessionInv == AccountTypeOK /\ Undisturbed /\ EndedGone /\ OverStamped

LEMMA InitInv == AccountInit => SessionInv
BY InitTyped DEF AccountInit, SessionInv, Undisturbed, EndedGone, OverStamped, Nothing, Invited

\* What is over after the stamp has been set to the present instant.
LEMMA LapsedStamped ==
  ASSUME AccountTypeOK, OverStamped, NEW a \in Lapsed, a.over
  PROVE  a.at < clock
<1>1. PICK b \in access : a = [b EXCEPT !.over = b.over \/ b.at < clock]
  BY DEF Lapsed
<1>2. b \in Access
  BY DEF AccountTypeOK
<1>3. a.at = b.at /\ (b.over \/ b.at < clock)
  <2>1. DOMAIN b = {"at", "over"}
    BY <1>2 DEF Access
  <2>2. a.over = (b.over \/ b.at < clock)
    BY <1>1, <2>1
  <2> QED BY <1>1, <2>1, <2>2
<1>4. b.at \in Int /\ clock \in Int /\ account.invalidBefore \in Int
  BY <1>2 DEF AccountTypeOK, Access, Account, Instants
<1> QED BY <1>3, <1>4 DEF OverStamped

LEMMA StampNow ==
  ASSUME AccountTypeOK, OverStamped, access' = Lapsed, clock' = clock,
         account'.invalidBefore = clock
  PROVE  OverStamped'
<1>1. clock \in Int
  BY DEF AccountTypeOK, Instants
<1> QED BY <1>1, LapsedStamped DEF OverStamped

\* Ending the sessions, by whichever handler.
LEMMA EndKeeps ==
  ASSUME SessionInv, NEW a \in Account, EndSessions(a), clock' = clock,
         \A h \in Handlers : doing'[h] = Nothing
  PROVE  Undisturbed' /\ EndedGone' /\ OverStamped'
<1>1. account'.invalidBefore = clock
  BY DEF EndSessions, Account
<1>2. OverStamped'
  BY <1>1, StampNow DEF SessionInv, EndSessions
<1>3. EndedGone'
  BY DEF EndSessions, EndedGone, Nothing
<1> QED BY <1>2, <1>3 DEF Undisturbed

\* Handing out tokens of a session that has not ended.
LEMMA IssueKeeps ==
  ASSUME SessionInv, NEW rest \in SUBSET live, Issue(rest, FALSE), clock' = clock,
         UNCHANGED account, \A h \in Handlers : doing'[h] = Nothing
  PROVE  Undisturbed' /\ EndedGone' /\ OverStamped'
<1>1. OverStamped'
  <2>1. access' = access \cup {[at |-> clock, over |-> FALSE]}
    BY DEF Issue
  <2> QED BY <2>1 DEF SessionInv, OverStamped
<1>2. live' \cap ended' = {}
  <2>1. CASE live' = rest /\ ended' = ended
    BY <2>1 DEF SessionInv, EndedGone
  <2>2. CASE \E t \in Unused : live' = rest \cup {t} /\ ended' = ended \ {t}
    BY <2>2 DEF SessionInv, EndedGone
  <2> QED BY <2>1, <2>2 DEF Issue
<1>3. EndedGone'
  BY <1>2 DEF EndedGone, Nothing
<1> QED BY <1>1, <1>3 DEF Undisturbed

\* The handler that ends was the only one under way.
LEMMA DoneAlone ==
  ASSUME SessionInv, NEW h \in Handlers, NEW op \in Ops \ {"none"}, Done(h, op)
  PROVE  /\ \A g \in Handlers : doing'[g] = Nothing
         /\ clock' = clock /\ doing[h].seen = account
<1>1. doing[h] # Nothing
  BY DEF Done, Nothing
<1> QED BY <1>1 DEF SessionInv, AccountTypeOK, Undisturbed, Done

LEMMA QuietAlone ==
  ASSUME OneAtATime, Quiet
  PROVE  \A h \in Handlers : doing[h] = Nothing
BY DEF OneAtATime, Quiet

\* A handler begins, having read the account.
LEMMA BeginKeeps ==
  ASSUME SessionInv, OneAtATime, Quiet, NEW h \in Handlers,
         NEW op \in Ops, NEW t \in Tokens \cup {NoToken},
         op = "refresh" => t \notin ended,
         doing' = [doing EXCEPT ![h] = [op |-> op, token |-> t, seen |-> account]],
         UNCHANGED <<clock, account, live, ended, access>>
  PROVE  Undisturbed' /\ EndedGone' /\ OverStamped'
<1> DEFINE new == [op |-> op, token |-> t, seen |-> account]
<1>1. \A g \in Handlers : doing[g] = Nothing
  BY QuietAlone
<1>2. \A g \in Handlers : doing'[g] = IF g = h THEN new ELSE Nothing
  BY <1>1 DEF SessionInv, AccountTypeOK
<1>3. new.op = op /\ new.token = t /\ new.seen = account
  OBVIOUS
<1> HIDE DEF new
<1>4. Undisturbed'
  BY <1>2, <1>3 DEF Undisturbed
<1>5. EndedGone'
  BY <1>2, <1>3 DEF SessionInv, EndedGone, Nothing
<1>6. OverStamped'
  BY DEF SessionInv, OverStamped
<1> QED BY <1>4, <1>5, <1>6

\* An administrator's handler that leaves the tokens as they are.
LEMMA RowKeeps ==
  ASSUME SessionInv, account'.invalidBefore = account.invalidBefore,
         UNCHANGED <<clock, live, ended, access>>, \A g \in Handlers : doing'[g] = Nothing
  PROVE  Undisturbed' /\ EndedGone' /\ OverStamped'
BY DEF SessionInv, Undisturbed, EndedGone, OverStamped, Nothing

LEMMA StepInv ==
  ASSUME OneAtATime, SessionInv, [AccountNext]_accountVars
  PROVE  SessionInv'
<1> USE DEF SessionInv
<1>0. AccountTypeOK'
  BY StepTyped
<1> SUFFICES Undisturbed' /\ EndedGone' /\ OverStamped'
  BY <1>0
<1>1. ASSUME NEW h \in Handlers,
             \/ ReadLogin(h) \/ (\E t \in Tokens : ReadRefresh(h, t)) \/ ReadChangePassword(h)
             \/ ReadApprove(h) \/ ReadResend(h)
      PROVE  Undisturbed' /\ EndedGone' /\ OverStamped'
  <2>1. PICK op \in Ops, t \in Tokens \cup {NoToken} :
          Read(h, op, t) /\ (op = "refresh" => t \in live)
    BY <1>1 DEF ReadLogin, ReadRefresh, ReadChangePassword, ReadApprove, ReadResend, Ops
  <2>2. op = "refresh" => t \notin ended
    BY <2>1 DEF EndedGone
  <2> QED BY <2>1, <2>2, BeginKeeps DEF Read
<1>2. ASSUME NEW h \in Handlers, ReadForgot(h) PROVE Undisturbed' /\ EndedGone' /\ OverStamped'
  <2>1. /\ Quiet /\ UNCHANGED <<clock, account, live, ended, access>>
        /\ doing' = [doing EXCEPT ![h] = [op |-> "forgot", token |-> NoToken, seen |-> account]]
    BY <1>2 DEF ReadForgot
  <2>2. "forgot" \in Ops /\ "forgot" # "refresh"
    BY DEF Ops
  <2> QED BY <2>1, <2>2, BeginKeeps
<1>3. ASSUME NEW h \in Handlers, Login(h) PROVE Undisturbed' /\ EndedGone' /\ OverStamped'
  <2>1. "login" \in Ops \ {"none"}
    BY DEF Ops
  <2> QED BY <1>3, <2>1, DoneAlone, IssueKeeps DEF Login
<1>4. ASSUME NEW h \in Handlers, Refresh(h) PROVE Undisturbed' /\ EndedGone' /\ OverStamped'
  <2>1. "refresh" \in Ops \ {"none"} /\ Done(h, "refresh")
    BY <1>4 DEF Ops, Refresh
  <2>2. (doing[h].token \in ended) = FALSE
    BY <2>1 DEF EndedGone, Done
  <2>3. Issue(live \ {doing[h].token}, FALSE)
    BY <1>4, <2>2 DEF Refresh
  <2> QED BY <1>4, <2>1, <2>3, DoneAlone, IssueKeeps DEF Refresh
<1>5. ASSUME NEW h \in Handlers, ChangePassword(h)
      PROVE  Undisturbed' /\ EndedGone' /\ OverStamped'
  <2>1. "changePassword" \in Ops \ {"none"} /\ Done(h, "changePassword")
    BY <1>5 DEF Ops, ChangePassword
  <2>2. account'.invalidBefore = clock
    BY <1>5 DEF ChangePassword, AccountTypeOK, Account
  <2>3. OverStamped'
    BY <1>5, <2>1, <2>2, DoneAlone, StampNow DEF ChangePassword
  <2> QED BY <1>5, <2>1, <2>3, DoneAlone DEF ChangePassword, Undisturbed, EndedGone, Nothing
<1>6. ASSUME NEW h \in Handlers, Forgot(h) PROVE Undisturbed' /\ EndedGone' /\ OverStamped'
  <2>1. "forgot" \in Ops \ {"none"} /\ Done(h, "forgot")
    BY <1>6 DEF Ops, Forgot
  <2> QED BY <1>6, <2>1, DoneAlone, RowKeeps DEF Forgot
<1>7. ASSUME NEW h \in Handlers, ApproveUser(h)
      PROVE  Undisturbed' /\ EndedGone' /\ OverStamped'
  <2>1. "approve" \in Ops \ {"none"} /\ Done(h, "approve")
    BY <1>7 DEF Ops, ApproveUser
  <2>2. account'.invalidBefore = account.invalidBefore
    BY <1>7 DEF ApproveUser, AccountTypeOK, Account
  <2> QED BY <1>7, <2>1, <2>2, DoneAlone, RowKeeps DEF ApproveUser
<1>8. ASSUME NEW h \in Handlers, Resend(h) PROVE Undisturbed' /\ EndedGone' /\ OverStamped'
  <2>1. "resend" \in Ops \ {"none"} /\ Done(h, "resend")
    BY <1>8 DEF Ops, Resend
  <2>2. [account EXCEPT !.mustChangePassword = TRUE] \in Account
    BY RowsTyped
  <2> QED BY <1>8, <2>1, <2>2, DoneAlone, EndKeeps DEF Resend
<1>9. ASSUME NEW h \in Handlers, Abandon(h) PROVE Undisturbed' /\ EndedGone' /\ OverStamped'
  <2>1. \A g \in Handlers : doing'[g] = Nothing
    BY <1>9 DEF Abandon, Undisturbed, AccountTypeOK
  <2> QED BY <1>9, <2>1, RowKeeps DEF Abandon
<1>10. CASE Disable
  <2>1. [account EXCEPT !.status = "disabled"] \in Account
    BY RowsTyped DEF Statuses
  <2> QED BY <1>10, <2>1, QuietAlone, EndKeeps DEF Disable
<1>11. ASSUME NEW s \in {"pending", "active"}, SetStatus(s)
       PROVE  Undisturbed' /\ EndedGone' /\ OverStamped'
  <2>1. account'.invalidBefore = account.invalidBefore
    BY <1>11 DEF SetStatus, AccountTypeOK, Account
  <2> QED BY <1>11, <2>1, QuietAlone, RowKeeps DEF SetStatus
<1>12. CASE SetPassword
  <2>1. [account EXCEPT !.mustChangePassword = TRUE] \in Account
    BY RowsTyped
  <2> QED BY <1>12, <2>1, QuietAlone, EndKeeps DEF SetPassword
<1>13. ASSUME NEW l \in Links, ResetPassword(l)
       PROVE  Undisturbed' /\ EndedGone' /\ OverStamped'
  <2>1. [account EXCEPT !.mustChangePassword = FALSE] \in Account
    BY RowsTyped
  <2> QED BY <1>13, <2>1, QuietAlone, EndKeeps DEF ResetPassword
<1>14. ASSUME NEW t \in Tokens, Logout(t) PROVE Undisturbed' /\ EndedGone' /\ OverStamped'
  BY <1>14 DEF Logout, Undisturbed, EndedGone, OverStamped
<1>15. CASE Pass
  <2>1. /\ clock \in Int /\ account.invalidBefore \in Int
    BY DEF AccountTypeOK, Account, Instants
  <2>2. /\ clock' = clock + 1 /\ live' \subseteq live
        /\ UNCHANGED <<account, ended, access, doing>>
    BY <1>15 DEF Pass
  <2>3. OverStamped'
    BY <2>1, <2>2 DEF OverStamped
  <2> QED BY <2>2, <2>3 DEF Undisturbed, EndedGone
<1>16. CASE UNCHANGED accountVars
  BY <1>16 DEF accountVars, Undisturbed, EndedGone, OverStamped
<1> QED BY <1>1, <1>2, <1>3, <1>4, <1>5, <1>6, <1>7, <1>8, <1>9, <1>10, <1>11, <1>12, <1>13,
           <1>14, <1>15, <1>16 DEF AccountNext

LEMMA SessionInvariant == ASSUME OneAtATime PROVE AccountSpec => []SessionInv
<1>1. AccountInit => SessionInv
  BY InitInv
<1>2. SessionInv /\ [AccountNext]_accountVars => SessionInv'
  BY StepInv
<1> QED BY <1>1, <1>2, PTL DEF AccountSpec

-----------------------------------------------------------------------------
(* What it gives.                                                          *)

\* A JWT never claims to be later than it is.
LEMMA IssuedEarlier == ASSUME NEW a \in Access PROVE IssuedAt(a) <= a.at
<1>1. a.at \in Nat
  BY InstantAssumption DEF Access, Instants
<1>2. \A n \in Nat : 3 * (n \div 3) <= n
  OBVIOUS
<1> QED BY <1>1, <1>2 DEF IssuedAt

LEMMA OverRefused == SessionInv => EvictedStaysOut
<1> SUFFICES ASSUME SessionInv, NEW a \in access, a.over PROVE ~Admits(a)
  BY DEF SessionInv, EndedGone, EvictedStaysOut
<1>1. a \in Access /\ a.at < account.invalidBefore
  BY DEF SessionInv, AccountTypeOK, OverStamped
<1>2. IssuedAt(a) <= a.at
  BY <1>1, IssuedEarlier
<1>3. a.at \in Int /\ IssuedAt(a) \in Int /\ account.invalidBefore \in Int
  BY <1>1 DEF SessionInv, AccountTypeOK, Access, Account, Instants, IssuedAt
<1> QED BY <1>1, <1>2, <1>3 DEF Admits

(* One handler at a time, a session that was ended never gets anything     *)
(* again, whatever is done to the account, and whenever.                   *)
THEOREM EvictedSafe == ASSUME OneAtATime PROVE AccountSpec => []EvictedStaysOut
BY SessionInvariant, OverRefused, PTL

LEMMA StepReadmit ==
  ASSUME SessionInv, [AccountNext]_accountVars,
         account.status = "disabled", account'.status # "disabled"
  PROVE  (\E h \in Handlers : ApproveUser(h)) \/ \E s \in {"pending", "active"} : SetStatus(s)
<1> USE DEF SessionInv
<1> SUFFICES ASSUME ~\E h \in Handlers : ApproveUser(h),
                    ~\E s \in {"pending", "active"} : SetStatus(s)
             PROVE  FALSE
  OBVIOUS
<1>1. account \in Account
  BY DEF AccountTypeOK
<1>2. ASSUME NEW h \in Handlers, ChangePassword(h) PROVE account'.status = account.status
  <2>1. doing[h].seen = account
    BY <1>2 DEF ChangePassword, Done, Undisturbed, Nothing
  <2> QED BY <1>1, <1>2, <2>1 DEF ChangePassword, Account
<1>3. ASSUME NEW a \in Account, a.status = account.status \/ a.status = "disabled", EndSessions(a)
      PROVE  account'.status = "disabled"
  BY <1>3 DEF EndSessions, Account
<1>4. /\ \A b \in BOOLEAN : [account EXCEPT !.mustChangePassword = b].status = account.status
      /\ [account EXCEPT !.status = "disabled"].status = "disabled"
  BY <1>1 DEF Account
<1>5. ~\E h \in Handlers : Resend(h)
  BY <1>3, <1>4, RowsTyped DEF Resend
<1>6. ~Disable
  BY <1>3, <1>4, RowsTyped DEF Disable, Statuses
<1>7. ~SetPassword /\ ~\E l \in Links : ResetPassword(l)
  BY <1>3, <1>4, RowsTyped DEF SetPassword, ResetPassword
<1>8. account' # account
  OBVIOUS
<1>9. ~\E h \in Handlers :
        \/ ReadLogin(h) \/ (\E t \in Tokens : ReadRefresh(h, t)) \/ ReadChangePassword(h)
        \/ ReadForgot(h) \/ ReadApprove(h) \/ ReadResend(h)
  BY <1>8 DEF ReadLogin, ReadRefresh, ReadChangePassword, ReadForgot, ReadApprove, ReadResend, Read
<1>10. ~\E h \in Handlers : Login(h) \/ Refresh(h) \/ Forgot(h) \/ Abandon(h)
  BY <1>8 DEF Login, Refresh, Forgot, Abandon
<1>11. ~Pass /\ ~(\E t \in Tokens : Logout(t)) /\ ~UNCHANGED accountVars
  BY <1>8 DEF Pass, Logout, accountVars
<1> QED BY <1>2, <1>5, <1>6, <1>7, <1>9, <1>10, <1>11 DEF AccountNext

(* One handler at a time, only an administrator's approval or change of    *)
(* status lets a disabled member in again.                                 *)
THEOREM ReadmitSafe == ASSUME OneAtATime PROVE AccountSpec => OnlyAdminsReadmit
<1>1. SessionInv /\ [AccountNext]_accountVars =>
        [account.status = "disabled" /\ account'.status # "disabled" =>
           \/ \E h \in Handlers : ApproveUser(h)
           \/ \E s \in {"pending", "active"} : SetStatus(s)]_accountVars
  BY StepReadmit
<1> QED BY <1>1, SessionInvariant, PTL DEF AccountSpec, OnlyAdminsReadmit

=============================================================================
