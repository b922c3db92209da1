---------------------------- MODULE AccountSessions ----------------------------
(***************************************************************************)
(* The account of one organisation member and the sessions that act for    *)
(* it: signing in, refreshing, signing out, changing and resetting the     *)
(* password, and what an administrator does to the account (approve,       *)
(* disable, set a status, set a password, send the credentials again).     *)
(*                                                                         *)
(* A handler that decides on what it has read is two actions, Read and its *)
(* commit.  Where the row that was read decides nothing but whether there  *)
(* is an account, one action stands for both.  Nothing reads a refresh     *)
(* token between its revocation and the insertion of its successor, so     *)
(* these two calls are one action.                                         *)
(*                                                                         *)
(* An access token is a JWT: the server keeps no copy of it, and `access`  *)
(* holds those that clients may present.  The clock counts thirds of a     *)
(* second, because a JWT tells its time of issue in whole seconds while    *)
(* tokenInvalidBefore is exact.                                            *)
(***************************************************************************)
EXTENDS Integers, FiniteSets

CONSTANTS
  Tokens,       \* refresh tokens; the id of a dead one nobody uses is given out again
  Links,        \* password reset links
  Handlers,     \* request handlers that may be in flight
  NoToken,
  LastInstant,  \* bound: the clock stops here
  Concurrent    \* may a handler begin while another one awaits?

ASSUME TokenAssumption   == NoToken \notin Tokens
ASSUME InstantAssumption == LastInstant \in Nat /\ Concurrent \in BOOLEAN

VARIABLES
  clock,    \* thirds of a second
  account,  \* the user's row
  live,     \* refresh tokens that are neither revoked nor expired
  ended,    \* refresh tokens whose session was ended by an administrator or a reset
  access,   \* access tokens in the hands of clients
  link,     \* reset links that are neither used nor expired
  doing     \* what each handler is at, with what it has read

accountVars == <<clock, account, live, ended, access, link, doing>>

Instants == 0..LastInstant
Statuses == {"pending", "active", "disabled"}
Ops      == {"none", "login", "refresh", "changePassword", "forgot", "approve", "resend"}

Account == [status : Statuses, approved : BOOLEAN, mustChangePassword : BOOLEAN,
            invalidBefore : Instants]
\* over: did the session it belongs to end, or its account's tokens lapse, after its issue?
Access  == [at : Instants, over : BOOLEAN]
Doing   == [op : Ops, token : Tokens \cup {NoToken}, seen : Account]

\* provisionInvitedUser; a NULL stamp is before every instant.
Invited == [status |-> "pending", approved |-> FALSE, mustChangePassword |-> TRUE,
            invalidBefore |-> 0]
Nothing == [op |-> "none", token |-> NoToken, seen |-> Invited]

AccountInit ==
  /\ clock = 0
  /\ account = Invited
  /\ live = {} /\ ended = {} /\ access = {} /\ link = {}
  /\ doing = [h \in Handlers |-> Nothing]

-----------------------------------------------------------------------------
(* What the guards and the sign-in check read.                             *)

\* authenticate: after the password has been verified.
MaySignIn(a) == a.status # "disabled" /\ (a.status = "pending" => a.approved)

\* Mutant: the time of issue is rounded up.
IssuedAt_Up(a) == 3 * ((a.at + 2) \div 3)

\* A JWT knows the second only.
IssuedAt(a) == 3 * (a.at \div 3)

\* OrgApprovedGuard.
Admits(a) ==
  /\ account.status # "disabled"
  /\ IssuedAt(a) >= account.invalidBefore
  /\ ~account.mustChangePassword

-----------------------------------------------------------------------------
(* Handlers that decide on what they have read.                            *)

Quiet == Concurrent \/ \A h \in Handlers : doing[h] = Nothing

Unused == Tokens \ (live \cup {doing[h].token : h \in Handlers})

Read(h, op, t) ==
  /\ Quiet
  /\ doing[h] = Nothing
  /\ doing' = [doing EXCEPT ![h] = [op |-> op, token |-> t, seen |-> account]]
  /\ UNCHANGED <<clock, account, live, ended, access, link>>

ReadLogin(h)   == MaySignIn(account) /\ Read(h, "login", NoToken)
ReadRefresh(h, t) == t \in live /\ account.status # "disabled" /\ Read(h, "refresh", t)

\* JwtAuthGuard alone stands before it: any access token will do, and the current password.
ReadChangePassword(h) == access # {} /\ Read(h, "changePassword", NoToken)

ReadApprove(h) ==
  /\ ~(account.status = "active" /\ account.approved)
  /\ Read(h, "approve", NoToken)

ReadResend(h) ==
  /\ account.mustChangePassword \/ account.status # "active"
  /\ Read(h, "resend", NoToken)

Done(h, op) ==
  /\ doing[h].op = op
  /\ doing' = [doing EXCEPT ![h] = Nothing]
  /\ UNCHANGED clock

\* issueTokens: a token that cannot be stored is handed out all the same.
Issue(rest, over) ==
  /\ access' = access \cup {[at |-> clock, over |-> over]}
  /\ \/ /\ live' = rest
        /\ UNCHANGED ended
     \/ \E t \in Unused :
          /\ live' = rest \cup {t}
          /\ ended' = IF over THEN ended \cup {t} ELSE ended \ {t}

Login(h) ==
  /\ Done(h, "login")
  /\ Issue(live, FALSE)
  /\ UNCHANGED <<account, link>>

\* The successor belongs to the session of the token it replaces.
Refresh(h) ==
  /\ Done(h, "refresh")
  /\ Issue(live \ {doing[h].token}, doing[h].token \in ended)
  /\ UNCHANGED <<account, link>>

\* What was issued before this instant is over.
Lapsed == {[a EXCEPT !.over = a.over \/ a.at < clock] : a \in access}

\* Mutant: whoever chooses a password becomes active.
ChangePassword_Any(h) ==
  /\ Done(h, "changePassword")
  /\ account' = [account EXCEPT !.status = "active", !.mustChangePassword = FALSE,
                                !.invalidBefore = clock]
  /\ access' = Lapsed
  /\ UNCHANGED <<live, ended, link>>

ChangePassword(h) ==
  /\ Done(h, "changePassword")
  /\ account' = [account EXCEPT
                   !.status = IF doing[h].seen.status = "pending" THEN "active" ELSE @,
                   !.mustChangePassword = FALSE,
                   !.invalidBefore = clock]
  /\ access' = Lapsed
  /\ UNCHANGED <<live, ended, link>>

\* forgotPassword voids the links there are and then makes one, or fails in between.
ReadForgot(h) ==
  /\ Quiet
  /\ doing[h] = Nothing
  /\ link' = {}
  /\ doing' = [doing EXCEPT ![h] = [op |-> "forgot", token |-> NoToken, seen |-> account]]
  /\ UNCHANGED <<clock, account, live, ended, access>>

Forgot(h) ==
  /\ Done(h, "forgot")
  /\ link' = link \/ \E l \in Links : link' = link \cup {l}
  /\ UNCHANGED <<account, live, ended, access>>

ApproveUser(h) ==
  /\ Done(h, "approve")
  /\ account' = [account EXCEPT
                   !.status = IF doing[h].seen.mustChangePassword THEN "pending" ELSE "active",
                   !.approved = TRUE]
  /\ UNCHANGED <<live, ended, access, link>>

\* Mutant: refresh tokens are not revoked.
EndSessions_KeepsTokens(newAccount) ==
  /\ account' = [newAccount EXCEPT !.invalidBefore = clock]
  /\ live' = live
  /\ ended' = ended \cup live
  /\ access' = Lapsed

\* One transaction: the row with its stamp, and every refresh token of the account.
EndSessions(newAccount) ==
  /\ account' = [newAccount EXCEPT !.invalidBefore = clock]
  /\ live' = {}
  /\ ended' = ended \cup live
  /\ access' = Lapsed

Resend(h) ==
  /\ Done(h, "resend")
  /\ EndSessions([account EXCEPT !.mustChangePassword = TRUE])
  /\ UNCHANGED link

-----------------------------------------------------------------------------
(* Handlers for which one action stands.                                   *)

Disable ==
  /\ Quiet
  /\ EndSessions([account EXCEPT !.status = "disabled"])
  /\ UNCHANGED <<clock, link, doing>>

SetStatus(s) ==
  /\ Quiet
  /\ account' = [account EXCEPT !.status = s]
  /\ UNCHANGED <<clock, live, ended, access, link, doing>>

\* An administrator edits the member and gives a password.
SetPassword ==
  /\ Quiet
  /\ EndSessions([account EXCEPT !.mustChangePassword = TRUE])
  /\ UNCHANGED <<clock, link, doing>>

ResetPassword(l) ==
  /\ Quiet
  /\ l \in link
  /\ EndSessions([account EXCEPT !.mustChangePassword = FALSE])
  /\ link' = link \ {l}
  /\ UNCHANGED <<clock, doing>>

Logout(t) ==
  /\ Quiet
  /\ t \in live
  /\ live' = live \ {t}
  /\ UNCHANGED <<clock, account, ended, access, link, doing>>

\* Time passes: links (five minutes) and refresh tokens (thirty days) may expire in it.
Pass ==
  /\ clock < LastInstant
  /\ clock' = clock + 1
  /\ link' \in SUBSET link
  /\ live' \in SUBSET live
  /\ UNCHANGED <<account, ended, access, doing>>

\* A failed call or a restart: the handler ends where it stands.
Abandon(h) ==
  /\ doing[h] # Nothing
  /\ doing' = [doing EXCEPT ![h] = Nothing]
  /\ UNCHANGED <<clock, account, live, ended, access, link>>

AccountNext ==
  \/ \E h \in Handlers :
       \/ ReadLogin(h) \/ (\E t \in Tokens : ReadRefresh(h, t)) \/ ReadChangePassword(h)
       \/ ReadForgot(h) \/ ReadApprove(h) \/ ReadResend(h)
       \/ Login(h) \/ Refresh(h) \/ ChangePassword(h) \/ Forgot(h) \/ ApproveUser(h)
       \/ Resend(h) \/ Abandon(h)
  \/ Disable
  \/ \E s \in {"pending", "active"} : SetStatus(s)
  \/ SetPassword
  \/ \E l \in Links : ResetPassword(l)
  \/ \E t \in Tokens : Logout(t)
  \/ Pass

AccountSpec == AccountInit /\ [][AccountNext]_accountVars

-----------------------------------------------------------------------------
(* Properties.                                                             *)

AccountTypeOK ==
  /\ clock \in Instants
  /\ account \in Account
  /\ live \subseteq Tokens
  /\ ended \subseteq Tokens
  /\ access \subseteq Access
  /\ link \subseteq Links
  /\ doing \in [Handlers -> Doing]

(* Once an administrator has disabled a member, given it a password or     *)
(* sent new credentials, or the password was reset, no session from before *)
(* gets anything: not by its refresh token, not by what that token was     *)
(* exchanged for, not by an access token issued earlier, whatever is done  *)
(* to the account afterwards (super-admin.guard.ts:49: "re-enabling an     *)
(* account never silently resurrects a pre-disable session").              *)
EvictedStaysOut ==
  /\ live \cap ended = {}
  /\ \A a \in access : a.over => ~Admits(a)

(* A disabled member is let in again by an administrator only: no request  *)
(* of the member's own (changing the password, refreshing, resetting) ends *)
(* the disabling (setOrgUserStatus, approveOrgUser).                       *)
OnlyAdminsReadmit ==
  [][account.status = "disabled" /\ account'.status # "disabled" =>
       \/ \E h \in Handlers : ApproveUser(h)
       \/ \E s \in {"pending", "active"} : SetStatus(s)]_accountVars

=============================================================================
