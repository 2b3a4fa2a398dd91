------------------------------- MODULE SignIn -------------------------------
(***************************************************************************)
(* Signing in and staying signed in, for one person: password attempts and *)
(* the lockout (auth/login_service.py), the second pending, the tokens of a *)
(* session and their renewal (auth/security.py, web/routers/session.py),   *)
(* signing out here and everywhere (services/session_service.py), switching*)
(* organization, password changes and resets (services/user_service.py).   *)
(*                                                                         *)
(* A person belongs to organizations Orgs and has one user row; a request  *)
(* is one step, its requests do not overlap.  A token is signed, so a      *)
(* session lives in its tokens and the server keeps only what ends one:    *)
(* token_version and the revoked_session rows.  Only the newest pair of a  *)
(* session is kept here: what an older pair may do is a part of that.      *)
(* Whether a membership is active, an organization takes passwords or a    *)
(* key is registered varies freely at each use, and a ceremony with a key, *)
(* from its challenge to its answer, is one step: one that fails rolls its *)
(* transaction back.                                                       *)
(***************************************************************************)
EXTENDS Naturals, FiniteSets

CONSTANTS
  Orgs,       \* organizations the person belongs to
  Keyed,      \* of these, the ones whose membership has require_webauthn
  Tuned,      \* of these, the ones that set their own session length
  Sids,       \* session ids
  MaxFailed,  \* login_max_failed_attempts
  LockFor,    \* login_lockout_minutes
  Idle,       \* access_token_expire_minutes
  Grace,      \* _IDLE_GRACE
  Default,    \* jwt_refresh_token_expire_minutes, the length of a session
  Lengths,    \* what an administrator may enter for that length
  MaxTime,    \* bound on the clock
  MaxVersion, \* bound on token_version
  MaxTries,   \* bound on failed_login_attempts
  None

ASSUME ConstantsAssumption ==
  /\ Keyed \subseteq Orgs /\ Tuned \subseteq Orgs
  /\ MaxFailed \in Nat \ {0} /\ LockFor \in Nat \ {0} /\ Idle \in Nat \ {0} /\ Grace \in Nat
  /\ Default \in Nat \ {0} /\ Lengths \subseteq Nat
  /\ MaxTime \in Nat /\ MaxVersion \in Nat /\ MaxTries \in Nat
  /\ None \notin Nat /\ None \notin Orgs /\ None \notin Sids

\* user: failed_login_attempts, locked_until, token_version, must_change_password.
UserRow == [failed: Nat, locked: Nat \cup {None}, version: Nat, temporary: BOOLEAN]

\* The claims of a session's tokens: both carry the organization, the version
\* and the session's end, which is when the refresh token expires.  vouched
\* (history): it began with a security key or an identity provider.
Tokens == [org: Orgs, version: Nat, access: Nat, end: Nat, vouched: BOOLEAN]

\* An mfa_pending token; its expiry is the Abandon action.
MfaToken == [org: Orgs, version: Nat]

ASSUME NoneAssumption == None \notin Tokens /\ None \notin MfaToken

VARIABLES
  now,
  user,      \* UserRow
  length,    \* refresh_token_expire_minutes of each organization
  tokens,    \* [Sids -> Tokens \cup {None}], the newest pair of each session
  revoked,   \* revoked_session: [Sids -> expires_at, or None without a row]
  pending,   \* the mfa_pending token in the browser, or None
  left,      \* history: sessions that were signed out, here or everywhere
  ended,     \* history: sessions, and None for the sign-in that waits for its
             \* key, that rest on a sign-in from before all were signed out
  shortened, \* history: sessions under way when their organization's maximum was
             \* lowered
  guesses    \* history: wrong passwords tried at sign-in since one was right
             \* or an administrator unlocked the account

vars == <<now, user, length, tokens, revoked, pending, left, ended, shortened, guesses>>
history == <<left, ended, shortened, guesses>>

TypeOK ==
  /\ now \in 0..MaxTime
  /\ user \in UserRow
  /\ length \in [Orgs -> Lengths \cup {None}]
  /\ tokens \in [Sids -> Tokens \cup {None}]
  /\ revoked \in [Sids -> Nat \cup {None}]
  /\ pending \in MfaToken \cup {None}
  /\ left \subseteq Sids /\ ended \subseteq Sids \cup {None} /\ shortened \subseteq Sids
  /\ guesses \in Nat

Init ==
  /\ now = 0
  /\ user = [failed |-> 0, locked |-> None, version |-> 0, temporary |-> FALSE]
  /\ length = [o \in Orgs |-> None]
  /\ tokens = [s \in Sids |-> None]
  /\ revoked = [s \in Sids |-> None]
  /\ pending = None
  /\ left = {} /\ ended = {} /\ shortened = {}
  /\ guesses = 0

Tick ==
  /\ now < MaxTime
  /\ now' = now + 1
  /\ UNCHANGED <<user, length, tokens, revoked, pending, history>>

\* A maximum is positive, and the idle timeout, the platform's here, not above it.
Settable(l) == /\ l # None => l > 0
               /\ Idle <= (IF l = None THEN Default ELSE l)

-----------------------------------------------------------------------------
(* Tokens.                                                                 *)

Least(a, b) == IF a < b THEN a ELSE b

Locked(u) == u.locked # None /\ u.locked > now

SessionLength(o) == IF length[o] = None THEN Default ELSE length[o]

\* Sessions that began.
Live == {s \in Sids : tokens[s] # None}

\* An administrator sets or clears the organization's maximum session length.
SetLength(o, l) ==
  /\ Settable(l)
  /\ length' = [length EXCEPT ![o] = l]
  /\ shortened' = IF SessionLength(o)' >= SessionLength(o) THEN shortened
                  ELSE shortened \cup {s \in Live : tokens[s].org = o /\ now < tokens[s].end}
  /\ UNCHANGED <<now, user, tokens, revoked, pending, left, ended, guesses>>

\* A pair for a session that ends at end: the access token never outlives it.
Pair(o, version, end, vouched) ==
  [org |-> o, version |-> version, access |-> Least(now + Idle, end), end |-> end, vouched |-> vouched]

NewSession(o, version, vouched) == Pair(o, version, now + SessionLength(o), vouched)

\* A session goes on with fresh tokens up to the end it has always had.
Continue(s, version) == Pair(tokens[s].org, version, tokens[s].end, tokens[s].vouched)

\* Neither signed out here nor everywhere.
ClaimsAreCurrent(s) == tokens[s].version = user.version /\ revoked[s] = None

\* The access token is taken: a request is served.
Accepted(s) == tokens[s] # None /\ now < tokens[s].access /\ ClaimsAreCurrent(s)

\* A holder of a temporary password sees the change-password page only.
WebContext(s) == Accepted(s) /\ ~user.temporary

\* The refresh token is taken.
Refreshable(s) == tokens[s] # None /\ now < tokens[s].end /\ ClaimsAreCurrent(s)

\* A mutant: an mfa_pending token is taken on its signature and its expiry.
MfaContext_AnyVersion == pending # None

\* An mfa_pending token has no session id: only the version can end it.
MfaContext == pending # None /\ pending.version = user.version

\* uuid4: a new session's id was never used.
Fresh(s) == tokens[s] = None

-----------------------------------------------------------------------------
(* The user row.                                                           *)

\* A mutant: only the attempt that reaches the threshold locks.
Strike_Once(u) ==
  [u EXCEPT !.failed = @ + 1, !.locked = IF u.failed + 1 = MaxFailed THEN now + LockFor ELSE @]

\* A wrong password: one more failure, and the account is locked from the
\* threshold on, again after each further one.
Strike(u) ==
  [u EXCEPT !.failed = @ + 1, !.locked = IF u.failed + 1 >= MaxFailed THEN now + LockFor ELSE @]

Cleared(u) == [u EXCEPT !.failed = 0, !.locked = None]

\* revoke_all_sessions
SignedOut(u) == [u EXCEPT !.version = @ + 1]

\* change_own_password, admin_reset_password
PasswordChanged(u) == SignedOut([Cleared(u) EXCEPT !.temporary = FALSE])
PasswordReset(u) == SignedOut([Cleared(u) EXCEPT !.temporary = TRUE])

\* The session at hand is the one that goes on when all are ended.
Reissued(s) == [tokens EXCEPT ![s] = Continue(s, user.version + 1)]

\* What all but the session at hand leaves behind: the sessions that began, and
\* the sign-in that waits for its key.
EndAllBut(S) ==
  /\ left' = left \cup (Live \ S)
  /\ ended' = ended \cup (Live \ S) \cup (IF pending = None THEN {} ELSE {None})

-----------------------------------------------------------------------------
(* Signing in.                                                             *)

\* A locked account answers before the password is looked at.
LoginFails ==
  /\ ~Locked(user) /\ user.failed < MaxTries
  /\ user' = Strike(user)
  /\ guesses' = guesses + 1
  /\ UNCHANGED <<now, length, tokens, revoked, pending, left, ended, shortened>>

\* The right password clears the counter before anything else is decided.
Authenticated ==
  /\ ~Locked(user)
  /\ user' = Cleared(user)
  /\ guesses' = 0

\* The organization takes passwords, and no key is asked for.
LoginSucceeds(o, s) ==
  /\ Authenticated
  /\ o \notin Keyed /\ Fresh(s)
  /\ tokens' = [tokens EXCEPT ![s] = NewSession(o, user.version, FALSE)]
  /\ UNCHANGED <<now, length, revoked, pending, left, ended, shortened>>

\* A key is asked for: always where the membership requires one, elsewhere
\* when one is registered.
LoginNeedsKey(o) ==
  /\ Authenticated
  /\ pending' = [org |-> o, version |-> user.version]
  /\ ended' = ended \ {None}
  /\ UNCHANGED <<now, length, tokens, revoked, left, shortened>>

\* Only single sign-on is taken here, or no membership is active.
LoginRefused ==
  /\ Authenticated
  /\ UNCHANGED <<now, length, tokens, revoked, pending, left, ended, shortened>>

\* What an attempt comes to, in the browser's form and in the API alike.
Login ==
  \/ LoginFails \/ LoginRefused
  \/ \E o \in Orgs : LoginNeedsKey(o) \/ \E s \in Sids : LoginSucceeds(o, s)

\* A registered key answers, or one is registered on the set-up page; either way
\* the session begins.
CompleteCeremony(s) ==
  /\ MfaContext /\ Fresh(s)
  /\ pending' = None
  /\ tokens' = [tokens EXCEPT ![s] = NewSession(pending.org, user.version, TRUE)]
  /\ ended' = (ended \ {None}) \cup (IF None \in ended THEN {s} ELSE {})
  /\ UNCHANGED <<now, user, length, revoked, left, shortened, guesses>>

\* The mfa_pending token expires unused.
Abandon ==
  /\ pending # None
  /\ pending' = None
  /\ ended' = ended \ {None}
  /\ UNCHANGED <<now, user, length, tokens, revoked, left, shortened, guesses>>

\* The identity provider vouches for the person: neither password nor key.
SsoSignIn(o, s) ==
  /\ Fresh(s)
  /\ tokens' = [tokens EXCEPT ![s] = NewSession(o, user.version, TRUE)]
  /\ UNCHANGED <<now, user, length, revoked, pending, history>>

-----------------------------------------------------------------------------
(* Staying signed in, switching, signing out.                              *)

Refresh(s) ==
  /\ Refreshable(s)
  /\ tokens' = [tokens EXCEPT ![s] = Continue(s, user.version)]
  /\ UNCHANGED <<now, user, length, revoked, pending, history>>

\* The browser also needs an access token that expired at most Grace ago.
ContinueSession(s) == tokens[s] # None /\ tokens[s].access + Grace >= now /\ Refresh(s)

\* POST /api/v1/auth/refresh: the refresh token alone.
ApiRefresh(s) == Refresh(s)

\* A mutant: the organizations' own lengths are left out.
MayLast_Platform == {Default}

\* How long sessions that begin now may last: the platform's default, and the
\* lengths organizations have set.
MayLast == {Default} \cup {length[o] : o \in {x \in Orgs : length[x] # None}}

\* Rows past their time go, then s gets one, kept for the longest of these,
\* unless it has one.
RevokeSession(s) ==
  LET kept == [x \in Sids |-> IF revoked[x] # None /\ revoked[x] < now THEN None ELSE revoked[x]]
  IN \E keep \in MayLast :
       /\ \A l \in MayLast : keep >= l
       /\ revoked' = [kept EXCEPT ![s] = IF @ = None THEN now + keep ELSE @]

\* Any token the server signed will do, expired or not.
Logout(s) ==
  /\ tokens[s] # None
  /\ RevokeSession(s)
  /\ left' = left \cup {s}
  /\ UNCHANGED <<now, user, length, tokens, pending, guesses, ended, shortened>>

\* A mutant: the target's require_webauthn is not looked at.
SwitchTenant_AnyTarget(s, o, s2) ==
  /\ WebContext(s) /\ Fresh(s2)
  /\ RevokeSession(s)
  /\ left' = left \cup {s}
  /\ tokens' = [tokens EXCEPT ![s2] = NewSession(o, user.version, FALSE)]
  /\ UNCHANGED <<now, user, length, pending, guesses, ended, shortened>>

\* The old session ends and another begins, of full length; where a key is
\* required the old one stays until the ceremony is done, and after it.
SwitchTenant(s, o, s2) ==
  /\ WebContext(s) /\ Fresh(s2)
  /\ IF o \in Keyed
       THEN /\ pending' = [org |-> o, version |-> user.version]
            /\ ended' = (ended \ {None}) \cup (IF s \in ended THEN {None} ELSE {})
            /\ UNCHANGED <<tokens, revoked, left>>
       ELSE /\ RevokeSession(s)
            /\ left' = left \cup {s}
            /\ tokens' = [tokens EXCEPT ![s2] = NewSession(o, user.version, FALSE)]
            /\ ended' = ended \cup (IF s \in ended THEN {s2} ELSE {})
            /\ UNCHANGED pending
  /\ UNCHANGED <<now, user, length, guesses, shortened>>

-----------------------------------------------------------------------------
(* Passwords, resets and signing out everywhere.                           *)

\* The page a temporary password reaches too.  The wrong current password is
\* a strike, and a locked account is no bar.
ChangeFails(s) ==
  /\ Accepted(s) /\ user.failed < MaxTries
  /\ user' = Strike(user)
  /\ UNCHANGED <<now, length, tokens, revoked, pending, history>>

\* Every session ends and the one at hand gets tokens of the new version.
ChangePassword(s) ==
  /\ Accepted(s) /\ user.version < MaxVersion
  /\ user' = PasswordChanged(user)
  /\ tokens' = Reissued(s)
  /\ EndAllBut({s})
  /\ guesses' = 0
  /\ UNCHANGED <<now, length, revoked, pending, shortened>>

SignOutOthers(s) ==
  /\ WebContext(s) /\ user.version < MaxVersion
  /\ user' = SignedOut(user)
  /\ tokens' = Reissued(s)
  /\ EndAllBut({s})
  /\ UNCHANGED <<now, length, revoked, pending, guesses, shortened>>

\* An administrator of one of the organizations; refused while a membership of
\* another is active.
AdminResetPassword ==
  /\ user.version < MaxVersion
  /\ user' = PasswordReset(user)
  /\ EndAllBut({})
  /\ guesses' = 0
  /\ UNCHANGED <<now, length, tokens, revoked, pending, shortened>>

AdminSignOutEverywhere ==
  /\ user.version < MaxVersion
  /\ user' = SignedOut(user)
  /\ EndAllBut({})
  /\ UNCHANGED <<now, length, tokens, revoked, pending, guesses, shortened>>

UnlockUser ==
  /\ user' = Cleared(user)
  /\ guesses' = 0
  /\ UNCHANGED <<now, length, tokens, revoked, pending, left, ended, shortened>>

-----------------------------------------------------------------------------
Next ==
  \/ Tick
  \/ \E o \in Tuned, l \in Lengths \cup {None} : SetLength(o, l)
  \/ Login \/ Abandon
  \/ \E o \in Orgs, s \in Sids : SsoSignIn(o, s)
  \/ \E s \in Sids :
       \/ CompleteCeremony(s) \/ ContinueSession(s) \/ ApiRefresh(s) \/ Logout(s)
       \/ ChangeFails(s) \/ ChangePassword(s) \/ SignOutOthers(s)
  \/ \E s, s2 \in Sids, o \in Orgs : SwitchTenant(s, o, s2)
  \/ AdminResetPassword \/ AdminSignOutEverywhere \/ UnlockUser

Spec == Init /\ [][Next]_vars

-----------------------------------------------------------------------------
(* Properties.                                                             *)

\* A session that was signed out, alone or with all others, is never served
\* again: neither its access token nor its refresh token, however often
\* revoked_session rows are pruned.  A row is kept for as long as a session may
\* last that begins now, so this is said of every session but those that were
\* under way when their organization's maximum was lowered.
SignedOutIsForGood == \A s \in left \ shortened : ~Accepted(s) /\ ~Refreshable(s)

\* Signing out everywhere, changing the password and having it reset end all that
\* rests on an earlier sign-in but the session at hand: the other sessions, those
\* of a lowered maximum too, the sign-in that still waits for its key, and
\* whatever is reached from either by switching or by a ceremony.
EverywhereMeansAll ==
  /\ \A s \in ended \cap Sids : ~Accepted(s) /\ ~Refreshable(s)
  /\ None \in ended => ~MfaContext

\* The lock holds against guessing: after the first MaxFailed wrong passwords
\* sign-in looks at one per lockout period, for as long as none is right and
\* nobody unlocks.
GuessesAreThrottled == guesses <= MaxFailed + now \div LockFor

\* No session of a membership that requires a key began with a password alone,
\* by signing in or by switching there from another organization.
KeyedNeedsKey ==
  \A s \in Sids : tokens[s] # None /\ tokens[s].org \in Keyed => tokens[s].vouched

\* Types, and what the sessions of keyed memberships rest on.
SessionsAgree == TypeOK /\ KeyedNeedsKey
=============================================================================
