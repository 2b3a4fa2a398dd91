---------------------------- MODULE SignInProofs ----------------------------
(***************************************************************************)
(* Theorems about SignIn: what holds for any organizations, session        *)
(* lengths and numbers of sessions, attempts and sign-outs.                *)
(***************************************************************************)
EXTENDS SignIn, TLAPS

(***************************************************************************)
(* The inductive invariant.                                                *)
(***************************************************************************)

\* An access token never outlives its session, and no token is of a version
\* still to come.
PairInv == \A s \in Live :
  tokens[s].access <= tokens[s].end /\ tokens[s].version <= user.version

\* A session whose organization never lowered its maximum ends within the
\* time that one beginning now may last.
LastInv == \A s \in Live \ shortened :
  now < tokens[s].end => tokens[s].end <= now + SessionLength(tokens[s].org)

\* What keeps a session that was signed out from being served: its version, its
\* end, or a row that stays until then.
LeftInv ==
  /\ left \subseteq Live
  /\ \A s \in Sids : revoked[s] # None => s \in left
  /\ \A s \in left \ shortened :
       \/ tokens[s].version < user.version
       \/ tokens[s].end <= now
       \/ revoked[s] # None /\ tokens[s].end <= revoked[s]

\* The counter has at least the guesses of sign-in, and from the threshold on
\* the lock was set by the last failure.
LockInv ==
  /\ guesses <= user.failed
  /\ user.locked # None => user.locked <= now + LockFor
  /\ user.failed >= MaxFailed =>
       user.locked # None /\ guesses + 1 <= MaxFailed + user.locked \div LockFor

\* What rests on a sign-in from before all were ended is of an older version,
\* and so is whatever could be reached from it.
EndedInv ==
  /\ \A s \in ended \ {None} : tokens[s] # None /\ tokens[s].version < user.version
  /\ None \in ended => pending # None /\ pending.version < user.version
  /\ pending # None => pending.version <= user.version

IInv == /\ TypeOK /\ PairInv /\ LastInv /\ LeftInv /\ EndedInv /\ LockInv
        /\ KeyedNeedsKey /\ GuessesAreThrottled

-----------------------------------------------------------------------------
(* Facts about the operators.                                              *)

\* Whole lockout periods up to a time, and one period later.
LEMMA PeriodFacts ==
  ASSUME NEW L \in Nat \ {0}, NEW a \in Nat, NEW b \in Nat, a <= b
  PROVE  /\ a \div L \in Nat /\ a \div L <= b \div L
         /\ (a + L) \div L = a \div L + 1
OBVIOUS

LEMMA LengthType ==
  ASSUME TypeOK, NEW o \in Orgs PROVE SessionLength(o) \in Nat
BY ConstantsAssumption DEF TypeOK, SessionLength

LEMMA NowType == TypeOK => now \in Nat
BY ConstantsAssumption DEF TypeOK

LEMMA UserType ==
  ASSUME NEW u \in UserRow
  PROVE  /\ u.failed \in Nat /\ u.locked \in Nat \cup {None} /\ u.version \in Nat
         /\ u.temporary \in BOOLEAN
BY DEF UserRow

LEMMA TokensType ==
  ASSUME TypeOK, NEW s \in Live
  PROVE  /\ s \in Sids /\ tokens[s] \in Tokens
         /\ tokens[s].org \in Orgs /\ tokens[s].version \in Nat /\ tokens[s].access \in Nat
         /\ tokens[s].end \in Nat /\ tokens[s].vouched \in BOOLEAN
<1>1. s \in Sids /\ tokens[s] \in Tokens
  BY DEF Live, TypeOK
<1> QED BY <1>1 DEF Tokens

\* What a pair of tokens claims.
LEMMA PairFacts ==
  ASSUME TypeOK, NEW o \in Orgs, NEW v \in Nat, NEW end \in Nat, NEW vouched \in BOOLEAN
  PROVE  /\ Pair(o, v, end, vouched) \in Tokens /\ Pair(o, v, end, vouched) # None
         /\ Pair(o, v, end, vouched).org = o /\ Pair(o, v, end, vouched).version = v
         /\ Pair(o, v, end, vouched).end = end /\ Pair(o, v, end, vouched).vouched = vouched
         /\ Pair(o, v, end, vouched).access <= end
<1>1. Least(now + Idle, end) \in Nat /\ Least(now + Idle, end) <= end
  BY NowType, ConstantsAssumption DEF Least
<1> QED BY <1>1, NoneAssumption DEF Pair, Tokens

LEMMA NewFacts ==
  ASSUME TypeOK, NEW o \in Orgs, NEW v \in Nat, NEW vouched \in BOOLEAN
  PROVE  /\ NewSession(o, v, vouched) \in Tokens /\ NewSession(o, v, vouched) # None
         /\ NewSession(o, v, vouched).org = o /\ NewSession(o, v, vouched).version = v
         /\ NewSession(o, v, vouched).end = now + SessionLength(o)
         /\ NewSession(o, v, vouched).vouched = vouched
         /\ NewSession(o, v, vouched).access <= NewSession(o, v, vouched).end
<1>1. now + SessionLength(o) \in Nat
  BY NowType, LengthType
<1> QED BY <1>1, PairFacts DEF NewSession

LEMMA ContinueFacts ==
  ASSUME TypeOK, NEW s \in Live, NEW v \in Nat
  PROVE  /\ Continue(s, v) \in Tokens /\ Continue(s, v) # None
         /\ Continue(s, v).org = tokens[s].org /\ Continue(s, v).version = v
         /\ Continue(s, v).end = tokens[s].end /\ Continue(s, v).vouched = tokens[s].vouched
         /\ Continue(s, v).access <= Continue(s, v).end
BY TokensType, PairFacts DEF Continue

LEMMA StrikeFacts ==
  ASSUME TypeOK
  PROVE  /\ Strike(user) \in UserRow /\ Strike(user).failed = user.failed + 1
         /\ Strike(user).version = user.version
         /\ Strike(user).locked =
              IF user.failed + 1 >= MaxFailed THEN now + LockFor ELSE user.locked
<1> DEFINE until == IF user.failed + 1 >= MaxFailed THEN now + LockFor ELSE user.locked
<1>1. user \in UserRow /\ now + LockFor \in Nat
  BY NowType, ConstantsAssumption DEF TypeOK
<1>2. until \in Nat \cup {None} /\ user.failed + 1 \in Nat
  BY <1>1, UserType
<1>3. Strike(user) = [user EXCEPT !.failed = user.failed + 1, !.locked = until]
  BY <1>1 DEF Strike, UserRow
<1> HIDE DEF until
<1>4. /\ Strike(user) \in UserRow /\ Strike(user).failed = user.failed + 1
      /\ Strike(user).version = user.version /\ Strike(user).locked = until
  BY <1>1, <1>2, <1>3 DEF UserRow
<1> QED BY <1>4 DEF until

LEMMA ClearedFacts ==
  ASSUME TypeOK
  PROVE  /\ Cleared(user) \in UserRow /\ Cleared(user).failed = 0 /\ Cleared(user).locked = None
         /\ Cleared(user).version = user.version
<1>1. user \in UserRow
  BY DEF TypeOK
<1> QED BY <1>1 DEF Cleared, UserRow

LEMMA SignedOutFacts ==
  ASSUME NEW u \in UserRow
  PROVE  /\ SignedOut(u) \in UserRow /\ SignedOut(u).version = u.version + 1
         /\ SignedOut(u).failed = u.failed /\ SignedOut(u).locked = u.locked
BY DEF SignedOut, UserRow

LEMMA PasswordFacts ==
  ASSUME TypeOK, NEW u \in {PasswordChanged(user), PasswordReset(user)}
  PROVE  /\ u \in UserRow /\ u.version = user.version + 1 /\ u.failed = 0 /\ u.locked = None
<1> DEFINE c(b) == [Cleared(user) EXCEPT !.temporary = b]
<1>1. \A b \in BOOLEAN : /\ c(b) \in UserRow /\ c(b).version = user.version
                         /\ c(b).failed = 0 /\ c(b).locked = None
  BY ClearedFacts DEF UserRow
<1> HIDE DEF c
<1>2. u = SignedOut(c(FALSE)) \/ u = SignedOut(c(TRUE))
  BY DEF c, PasswordChanged, PasswordReset
<1> QED BY <1>1, <1>2, SignedOutFacts

\* A sign-out leaves a row at least until any session that begins now would end,
\* and removes none that is still due.
LEMMA RevokeFacts ==
  ASSUME TypeOK, NEW s \in Sids, RevokeSession(s)
  PROVE  /\ revoked' \in [Sids -> Nat \cup {None}]
         /\ \A x \in Sids : revoked[x] # None /\ now <= revoked[x] => revoked'[x] = revoked[x]
         /\ revoked'[s] # None
         /\ revoked[s] = None \/ revoked[s] < now =>
              \A o \in Orgs : now + SessionLength(o) <= revoked'[s]
<1> DEFINE kept == [x \in Sids |-> IF revoked[x] # None /\ revoked[x] < now THEN None ELSE revoked[x]]
<1>1. PICK keep \in MayLast :
        /\ \A l \in MayLast : keep >= l
        /\ revoked' = [kept EXCEPT ![s] = IF @ = None THEN now + keep ELSE @]
  BY DEF RevokeSession
<1>2. MayLast \subseteq Nat
  BY ConstantsAssumption DEF MayLast, TypeOK
<1>3. keep \in Nat /\ now \in Nat /\ now + keep \in Nat
  BY <1>1, <1>2, NowType
<1>4. kept \in [Sids -> Nat \cup {None}]
  BY DEF TypeOK
<1>5. \A o \in Orgs : SessionLength(o) \in MayLast
  BY DEF SessionLength, MayLast
<1>6. \A o \in Orgs : SessionLength(o) <= keep /\ SessionLength(o) \in Nat
  BY <1>1, <1>2, <1>3, <1>5
<1>7. /\ revoked'[s] = IF kept[s] = None THEN now + keep ELSE kept[s]
      /\ \A x \in Sids \ {s} : revoked'[x] = kept[x]
      /\ revoked' \in [Sids -> Nat \cup {None}]
  BY <1>1, <1>3, <1>4
<1>8. \A x \in Sids : revoked[x] \in Nat \cup {None}
  BY DEF TypeOK
<1>9. None \notin Nat
  BY ConstantsAssumption
<1> QED BY <1>3, <1>6, <1>7, <1>8, <1>9

-----------------------------------------------------------------------------
(* Type correctness.                                                       *)

LEMMA TypeStep == TypeOK /\ [Next]_vars => TypeOK'
<1> SUFFICES ASSUME TypeOK, [Next]_vars PROVE TypeOK'
  OBVIOUS
<1>1. user \in UserRow /\ user.version \in Nat /\ user.version + 1 \in Nat
  BY UserType DEF TypeOK
<1>2. ASSUME NEW s \in Sids, NEW o \in Orgs, NEW vouched \in BOOLEAN,
             tokens' = [tokens EXCEPT ![s] = NewSession(o, user.version, vouched)]
      PROVE  tokens' \in [Sids -> Tokens \cup {None}]
  BY <1>1, <1>2, NewFacts DEF TypeOK
<1>3. ASSUME NEW s \in Live, NEW v \in Nat, tokens' = [tokens EXCEPT ![s] = Continue(s, v)]
      PROVE  tokens' \in [Sids -> Tokens \cup {None}]
  BY <1>3, ContinueFacts DEF TypeOK
<1>4. ASSUME NEW s \in Sids, Accepted(s) PROVE s \in Live
  BY <1>4 DEF Accepted, Live
<1>5. Live \subseteq Sids
  BY DEF Live
<1>6. CASE Tick
  BY <1>6, ConstantsAssumption DEF Tick, TypeOK, history
<1>7. ASSUME NEW o \in Tuned, NEW l \in Lengths \cup {None}, SetLength(o, l) PROVE TypeOK'
  BY <1>5, <1>7 DEF SetLength, TypeOK
<1>8. CASE LoginFails
  <2>1. guesses + 1 \in Nat
    BY DEF TypeOK
  <2> QED BY <1>8, <2>1, StrikeFacts DEF LoginFails, TypeOK
<1>9. ASSUME Authenticated PROVE user' \in UserRow /\ guesses' \in Nat
  BY <1>9, ClearedFacts DEF Authenticated
<1>10. CASE LoginRefused
  BY <1>9, <1>10 DEF LoginRefused, TypeOK
<1>11. ASSUME NEW o \in Orgs, LoginNeedsKey(o) PROVE TypeOK'
  <2>1. pending' \in MfaToken \cup {None}
    BY <1>1, <1>11 DEF LoginNeedsKey, MfaToken
  <2> QED BY <1>9, <1>11, <2>1 DEF LoginNeedsKey, TypeOK
<1>12. ASSUME NEW o \in Orgs, NEW s \in Sids, LoginSucceeds(o, s) PROVE TypeOK'
  <2>1. tokens' \in [Sids -> Tokens \cup {None}]
    BY <1>2, <1>12 DEF LoginSucceeds
  <2> QED BY <1>9, <1>12, <2>1 DEF LoginSucceeds, TypeOK
<1>13. CASE Abandon
  BY <1>13 DEF Abandon, TypeOK, history
<1>14. ASSUME NEW o \in Orgs, NEW s \in Sids, SsoSignIn(o, s) PROVE TypeOK'
  <2>1. tokens' \in [Sids -> Tokens \cup {None}]
    BY <1>2, <1>14 DEF SsoSignIn
  <2> QED BY <1>14, <2>1 DEF SsoSignIn, TypeOK, history
<1>15. ASSUME NEW s \in Sids, CompleteCeremony(s) PROVE TypeOK'
  <2>1. pending.org \in Orgs
    BY <1>15 DEF CompleteCeremony, MfaContext, TypeOK, MfaToken
  <2>2. tokens' \in [Sids -> Tokens \cup {None}]
    BY <1>2, <1>15, <2>1 DEF CompleteCeremony
  <2> QED BY <1>15, <2>2 DEF CompleteCeremony, TypeOK, history
<1>16. ASSUME NEW s \in Sids, ContinueSession(s) \/ ApiRefresh(s) PROVE TypeOK'
  <2>1. Refresh(s) /\ s \in Live
    BY <1>16 DEF ContinueSession, ApiRefresh, Refresh, Refreshable, Live
  <2>2. tokens' \in [Sids -> Tokens \cup {None}]
    BY <1>1, <1>3, <2>1 DEF Refresh
  <2> QED BY <2>1, <2>2 DEF Refresh, TypeOK, history
<1>17. ASSUME NEW s \in Sids, Logout(s) PROVE TypeOK'
  <2>1. revoked' \in [Sids -> Nat \cup {None}]
    BY <1>17, RevokeFacts DEF Logout
  <2> QED BY <1>17, <2>1 DEF Logout, TypeOK
<1>18. ASSUME NEW s \in Sids, ChangeFails(s) PROVE TypeOK'
  BY <1>18, StrikeFacts DEF ChangeFails, TypeOK, history
<1>19. ASSUME NEW s \in Sids, ChangePassword(s) \/ SignOutOthers(s) PROVE TypeOK'
  <2>1. s \in Live /\ tokens' = [tokens EXCEPT ![s] = Continue(s, user.version + 1)]
    BY <1>4, <1>19 DEF ChangePassword, SignOutOthers, WebContext, Reissued
  <2>2. tokens' \in [Sids -> Tokens \cup {None}]
    BY <1>1, <1>3, <2>1
  <2>3. user' \in UserRow
    BY <1>1, <1>19, PasswordFacts, SignedOutFacts DEF ChangePassword, SignOutOthers
  <2>4. left' \subseteq Sids /\ ended' \subseteq Sids \cup {None}
    BY <1>5, <1>19 DEF ChangePassword, SignOutOthers, EndAllBut, TypeOK
  <2> QED BY <1>19, <2>2, <2>3, <2>4 DEF ChangePassword, SignOutOthers, TypeOK
<1>20. ASSUME NEW s \in Sids, NEW s2 \in Sids, NEW o \in Orgs, SwitchTenant(s, o, s2) PROVE TypeOK'
  <2>1. CASE o \in Keyed
    <3>1. pending' \in MfaToken \cup {None}
      BY <1>1, <1>20, <2>1 DEF SwitchTenant, MfaToken
    <3> QED BY <1>20, <2>1, <3>1 DEF SwitchTenant, TypeOK
  <2>2. CASE o \notin Keyed
    <3>1. revoked' \in [Sids -> Nat \cup {None}]
      BY <1>20, <2>2, RevokeFacts DEF SwitchTenant
    <3>2. tokens' \in [Sids -> Tokens \cup {None}]
      BY <1>2, <1>20, <2>2 DEF SwitchTenant
    <3> QED BY <1>20, <2>2, <3>1, <3>2 DEF SwitchTenant, TypeOK
  <2> QED BY <2>1, <2>2
<1>21. CASE AdminResetPassword
  BY <1>5, <1>21, PasswordFacts DEF AdminResetPassword, EndAllBut, TypeOK
<1>22. CASE AdminSignOutEverywhere
  BY <1>1, <1>5, <1>22, SignedOutFacts DEF AdminSignOutEverywhere, EndAllBut, TypeOK
<1>23. CASE UnlockUser
  BY <1>23, ClearedFacts DEF UnlockUser, TypeOK
<1>24. CASE UNCHANGED vars
  BY <1>24 DEF vars, TypeOK
<1> QED BY <1>6, <1>7, <1>8, <1>10, <1>11, <1>12, <1>13, <1>14, <1>15, <1>16, <1>17, <1>18,
           <1>19, <1>20, <1>21, <1>22, <1>23, <1>24
        DEF Next, Login

-----------------------------------------------------------------------------
(* Sessions.                                                               *)

SessionInv == PairInv /\ LastInv /\ LeftInv /\ KeyedNeedsKey

\* A pair goes on only for a session that is not over and not signed out.
GoesOn(x) ==
  /\ x \in Live /\ ClaimsAreCurrent(x) /\ now < tokens[x].end
  /\ tokens'[x] # None /\ tokens'[x].org = tokens[x].org /\ tokens'[x].end = tokens[x].end
  /\ tokens'[x].vouched = tokens[x].vouched
  /\ tokens'[x].access <= tokens'[x].end /\ tokens'[x].version <= user'.version

\* A session begins with an unused id and lasts as long as its organization says.
Begins(x) ==
  /\ x \notin Live
  /\ tokens'[x] # None /\ tokens'[x].org \in Orgs
  /\ tokens'[x].end = now + SessionLength(tokens'[x].org)
  /\ tokens'[x].org \in Keyed => tokens'[x].vouched
  /\ tokens'[x].access <= tokens'[x].end /\ tokens'[x].version <= user'.version

\* What signs a session out: a newer version, or a row that lasts.
SignsOut(x) ==
  /\ x \in Live /\ tokens'[x] = tokens[x]
  /\ \/ x \in shortened
     \/ tokens[x].version < user'.version
     \/ tokens[x].end <= now
     \/ revoked'[x] # None /\ tokens[x].end <= revoked'[x]

\* Any step made of these keeps the sessions in order.
LEMMA SessionFrame ==
  ASSUME IInv, UNCHANGED <<now, length, shortened>>,
         user'.version \in Nat, user.version <= user'.version,
         \A x \in Sids : tokens'[x] = tokens[x] \/ GoesOn(x) \/ Begins(x),
         \A x \in Sids : revoked[x] # None /\ now <= revoked[x] => revoked'[x] = revoked[x],
         \A x \in Sids : revoked'[x] # None => x \in left',
         left \subseteq left', \A x \in left' \ left : SignsOut(x)
  PROVE  SessionInv'
<1>0. /\ TypeOK /\ now \in Nat /\ user.version \in Nat /\ \A o \in Orgs : SessionLength(o) \in Nat
      /\ \A x \in Sids : revoked[x] \in Nat \cup {None}
  BY NowType, UserType, LengthType DEF IInv, TypeOK
<1>1. \A x \in Live : /\ x \in Sids /\ tokens[x].org \in Orgs /\ tokens[x].version \in Nat
                      /\ tokens[x].end \in Nat
  BY <1>0, TokensType
<1>2. \A o : SessionLength(o)' = SessionLength(o)
  BY DEF SessionLength
<1>3. PairInv'
  BY <1>0, <1>1 DEF IInv, PairInv, Live, GoesOn, Begins
<1>4. LastInv'
  <2> SUFFICES ASSUME NEW x \in Live' \ shortened', now' < tokens'[x].end,
                      NEW o, o = tokens'[x].org
               PROVE  tokens'[x].end <= now + SessionLength(o)
    BY <1>2 DEF LastInv, SessionLength
  <2>1. x \in Sids /\ tokens'[x] # None
    BY DEF Live
  <2>2. CASE Begins(x)
    BY <1>0, <2>2 DEF Begins
  <2>3. CASE tokens'[x] = tokens[x] \/ GoesOn(x)
    <3>1. x \in Live /\ tokens'[x].end = tokens[x].end /\ tokens'[x].org = tokens[x].org
      BY <2>1, <2>3 DEF GoesOn, Live
    <3> QED BY <3>1 DEF IInv, LastInv
  <2> QED BY <2>1, <2>2, <2>3
<1>5. KeyedNeedsKey'
  BY DEF IInv, KeyedNeedsKey, GoesOn, Begins, Live
<1>6. LeftInv'
  <2>1. \A x \in Live : tokens'[x] # None
    BY <1>1 DEF Live, GoesOn, Begins
  <2>2. left' \subseteq Live'
    BY <1>1, <2>1 DEF IInv, LeftInv, SignsOut, Live
  <2>3. ASSUME NEW x \in left' \ shortened'
        PROVE  \/ tokens'[x].version < user'.version
               \/ tokens'[x].end <= now'
               \/ revoked'[x] # None /\ tokens'[x].end <= revoked'[x]
    <3>1. CASE x \in left
      <4>1. x \in Live /\ x \in Sids
        BY <1>1, <3>1 DEF IInv, LeftInv
      <4>2. \/ tokens[x].version < user.version \/ tokens[x].end <= now
            \/ revoked[x] # None /\ tokens[x].end <= revoked[x]
        BY <2>3, <3>1 DEF IInv, LeftInv
      <4>3. tokens'[x] = tokens[x]
        BY <1>0, <1>1, <4>1, <4>2 DEF GoesOn, Begins, ClaimsAreCurrent
      <4>4. CASE tokens[x].version < user.version \/ tokens[x].end <= now
        BY <1>0, <1>1, <4>1, <4>3, <4>4
      <4>5. CASE revoked[x] # None /\ tokens[x].end <= revoked[x] /\ ~(tokens[x].end <= now)
        <5>1. now <= revoked[x]
          BY <1>0, <1>1, <4>1, <4>5
        <5> QED BY <4>1, <4>3, <4>5, <5>1
      <4> QED BY <4>2, <4>4, <4>5
    <3>2. CASE x \notin left
      BY <2>3, <3>2 DEF SignsOut
    <3> QED BY <3>1, <3>2
  <2> QED BY <2>2, <2>3 DEF LeftInv
<1> QED BY <1>3, <1>4, <1>5, <1>6 DEF SessionInv

\* Nothing of a session is written.
LEMMA SessionStutter ==
  ASSUME IInv, UNCHANGED <<now, length, shortened, tokens, revoked, left>>,
         user'.version = user.version
  PROVE  SessionInv'
<1>1. user.version \in Nat
  BY UserType DEF IInv, TypeOK
<1> QED BY <1>1, SessionFrame DEF IInv, LeftInv

\* A session begins, and nothing else happens to one.
LEMMA SessionBegins ==
  ASSUME IInv, NEW s \in Sids, Fresh(s), NEW o \in Orgs, NEW vouched \in BOOLEAN,
         o \in Keyed => vouched,
         tokens' = [tokens EXCEPT ![s] = NewSession(o, user.version, vouched)],
         UNCHANGED <<now, length, shortened, revoked, left>>, user'.version = user.version
  PROVE  SessionInv'
<1>1. user.version \in Nat
  BY UserType DEF IInv, TypeOK
<1>2. Begins(s)
  <2>1. tokens'[s] = NewSession(o, user.version, vouched)
    BY DEF IInv, TypeOK
  <2> QED BY <1>1, <2>1, NewFacts DEF IInv, Begins, Fresh, Live
<1>3. \A x \in Sids : tokens'[x] = tokens[x] \/ Begins(x)
  BY <1>2 DEF IInv, TypeOK
<1> QED BY <1>1, <1>3, SessionFrame DEF IInv, LeftInv

\* A session is signed out by a row, and another may begin.
LEMMA SessionEnds ==
  ASSUME IInv, NEW s \in Live, RevokeSession(s), left' = left \cup {s},
         UNCHANGED <<now, length, shortened, user>>,
         tokens'[s] = tokens[s],
         \A x \in Sids : tokens'[x] = tokens[x] \/ Begins(x)
  PROVE  SessionInv'
<1>0. /\ s \in Sids /\ user.version \in Nat /\ now \in Nat
      /\ tokens[s].org \in Orgs /\ tokens[s].end \in Nat
      /\ \A x \in Sids : revoked[x] \in Nat \cup {None}
      /\ \A o \in Orgs : SessionLength(o) \in Nat
  BY TokensType, UserType, NowType, LengthType DEF IInv, TypeOK
<1>1. /\ revoked' \in [Sids -> Nat \cup {None}]
      /\ \A x \in Sids : revoked[x] # None /\ now <= revoked[x] => revoked'[x] = revoked[x]
      /\ revoked'[s] # None
      /\ revoked[s] = None \/ revoked[s] < now =>
           \A o \in Orgs : now + SessionLength(o) <= revoked'[s]
  BY <1>0, RevokeFacts DEF IInv
<1>2. s \notin left => SignsOut(s)
  <2> SUFFICES ASSUME s \notin left, s \notin shortened, ~(tokens[s].end <= now)
               PROVE  revoked'[s] # None /\ tokens[s].end <= revoked'[s]
    BY DEF SignsOut
  <2>1. revoked[s] = None
    BY <1>0 DEF IInv, LeftInv
  <2>2. now + SessionLength(tokens[s].org) <= revoked'[s] /\ revoked'[s] \in Nat
    BY <1>0, <1>1, <2>1
  <2>3. tokens[s].end <= now + SessionLength(tokens[s].org)
    BY <1>0 DEF IInv, LastInv
  <2> QED BY <1>0, <1>1, <2>2, <2>3
<1>3. \A x \in Sids : revoked'[x] # None => x \in left'
  <2>1. \A x \in Sids \ {s} : revoked'[x] # None => revoked[x] # None
    BY DEF RevokeSession, IInv, TypeOK
  <2> QED BY <2>1 DEF IInv, LeftInv
<1> QED BY <1>0, <1>1, <1>2, <1>3, SessionFrame

LEMMA SessionStep == IInv /\ [Next]_vars => SessionInv'
<1> SUFFICES ASSUME IInv, [Next]_vars PROVE SessionInv'
  OBVIOUS
<1>0. TypeOK /\ user \in UserRow /\ user.version \in Nat /\ now \in Nat /\ Live \subseteq Sids
  BY UserType, NowType DEF IInv, TypeOK, Live
<1>1. ASSUME Authenticated PROVE user'.version = user.version
  BY <1>0, <1>1, ClearedFacts DEF Authenticated
<1>2. CASE Tick
  <2>1. /\ now' = now + 1 /\ UNCHANGED <<user, length, tokens, revoked, left, shortened>>
    BY <1>2 DEF Tick, history
  <2>2. \A s \in Live : tokens[s].end \in Nat /\ SessionLength(tokens[s].org) \in Nat
    BY <1>0, TokensType, LengthType
  <2>3. LastInv'
    BY <1>0, <2>1, <2>2 DEF IInv, LastInv, SessionLength, Live
  <2>4. LeftInv'
    <3>1. \A s \in left : tokens[s].end <= now => tokens[s].end <= now'
      BY <1>0, <2>1, <2>2 DEF IInv, LeftInv
    <3> QED BY <2>1, <3>1 DEF IInv, LeftInv, Live
  <2>5. PairInv' /\ KeyedNeedsKey'
    BY <2>1 DEF IInv, PairInv, KeyedNeedsKey, Live
  <2> QED BY <2>3, <2>4, <2>5 DEF SessionInv
<1>3. ASSUME NEW o \in Tuned, NEW l \in Lengths \cup {None}, SetLength(o, l) PROVE SessionInv'
  <2>1. /\ UNCHANGED <<now, user, tokens, revoked, left>>
        /\ length' = [length EXCEPT ![o] = l] /\ o \in Orgs
        /\ shortened' = IF SessionLength(o)' >= SessionLength(o) THEN shortened
                        ELSE shortened \cup {s \in Live : tokens[s].org = o /\ now < tokens[s].end}
    BY <1>3, ConstantsAssumption DEF SetLength
  <2>2. shortened \subseteq shortened'
    BY <2>1
  <2>3. \A x : x # o => SessionLength(x)' = SessionLength(x)
    BY <2>1 DEF SessionLength, IInv, TypeOK
  <2>4. SessionLength(o) \in Nat /\ SessionLength(o)' \in Nat
    BY <1>0, <2>1, LengthType, ConstantsAssumption DEF SessionLength, TypeOK
  <2>5. LastInv'
    <3> SUFFICES ASSUME NEW s \in Live \ shortened', now < tokens[s].end,
                        NEW x, x = tokens[s].org
                 PROVE  tokens[s].end <= now + SessionLength(x)'
      BY <2>1 DEF LastInv, SessionLength, Live
    <3>1. tokens[s].end <= now + SessionLength(x) /\ tokens[s].end \in Nat
      BY <1>0, <2>2, TokensType DEF IInv, LastInv
    <3>2. CASE x = o
      <4>1. SessionLength(o)' >= SessionLength(o)
        BY <2>1, <3>2
      <4> QED BY <1>0, <2>4, <3>1, <3>2, <4>1
    <3>3. CASE x # o
      BY <2>3, <3>1, <3>3
    <3> QED BY <3>2, <3>3
  <2>6. LeftInv'
    BY <2>1, <2>2 DEF IInv, LeftInv, Live
  <2>7. PairInv' /\ KeyedNeedsKey'
    BY <2>1 DEF IInv, PairInv, KeyedNeedsKey, Live
  <2> QED BY <2>5, <2>6, <2>7 DEF SessionInv
<1>4. CASE LoginFails
  BY <1>0, <1>4, StrikeFacts, SessionStutter DEF LoginFails
<1>5. CASE LoginRefused
  BY <1>1, <1>5, SessionStutter DEF LoginRefused
<1>6. ASSUME NEW o \in Orgs, LoginNeedsKey(o) PROVE SessionInv'
  BY <1>1, <1>6, SessionStutter DEF LoginNeedsKey
<1>7. ASSUME NEW o \in Orgs, NEW s \in Sids, LoginSucceeds(o, s) PROVE SessionInv'
  BY <1>1, <1>7, SessionBegins DEF LoginSucceeds
<1>8. CASE Abandon
  BY <1>8, SessionStutter DEF Abandon, history
<1>9. ASSUME NEW o \in Orgs, NEW s \in Sids, SsoSignIn(o, s) PROVE SessionInv'
  BY <1>9, SessionBegins DEF SsoSignIn, history
<1>10. ASSUME NEW s \in Sids, CompleteCeremony(s) PROVE SessionInv'
  <2>1. pending.org \in Orgs
    BY <1>0, <1>10 DEF CompleteCeremony, MfaContext, TypeOK, MfaToken
  <2> QED BY <1>10, <2>1, SessionBegins DEF CompleteCeremony, history
<1>11. ASSUME NEW s \in Sids, ContinueSession(s) \/ ApiRefresh(s) PROVE SessionInv'
  <2>1. /\ s \in Live /\ ClaimsAreCurrent(s) /\ now < tokens[s].end
        /\ tokens' = [tokens EXCEPT ![s] = Continue(s, user.version)]
        /\ UNCHANGED <<now, user, length, revoked, left, shortened>>
    BY <1>11 DEF ContinueSession, ApiRefresh, Refresh, Refreshable, Live, history
  <2>2. tokens'[s] = Continue(s, user.version) /\ \A x \in Sids \ {s} : tokens'[x] = tokens[x]
    BY <1>0, <2>1 DEF TypeOK
  <2>3. GoesOn(s)
    BY <1>0, <2>1, <2>2, ContinueFacts DEF GoesOn
  <2>4. \A x \in Sids : tokens'[x] = tokens[x] \/ GoesOn(x)
    BY <2>2, <2>3
  <2>5. \A x \in Sids : revoked[x] # None => x \in left
    BY DEF IInv, LeftInv
  <2> QED BY <1>0, <2>1, <2>4, <2>5, SessionFrame
<1>12. ASSUME NEW s \in Sids, Logout(s) PROVE SessionInv'
  BY <1>12, SessionEnds DEF Logout, Live
<1>13. ASSUME NEW s \in Sids, ChangeFails(s) PROVE SessionInv'
  BY <1>0, <1>13, StrikeFacts, SessionStutter DEF ChangeFails, history
<1>14. ASSUME user'.version = user.version + 1, UNCHANGED <<now, length, shortened, revoked>>,
              \A x \in Sids : tokens'[x] = tokens[x] \/ GoesOn(x),
              left \subseteq left', left' \subseteq Live,
              \A x \in left' \ left : tokens'[x] = tokens[x]
       PROVE  SessionInv'
  <2>1. \A x \in left' \ left : SignsOut(x)
    <3>1. \A x \in left' : tokens[x].version <= user.version /\ tokens[x].version \in Nat
      BY <1>0, <1>14, TokensType DEF IInv, PairInv
    <3> QED BY <1>0, <1>14, <3>1 DEF SignsOut
  <2>2. \A x \in Sids : revoked[x] # None => x \in left
    BY DEF IInv, LeftInv
  <2> QED BY <1>0, <1>14, <2>1, <2>2, SessionFrame
<1>15. ASSUME NEW s \in Sids, ChangePassword(s) \/ SignOutOthers(s) PROVE SessionInv'
  <2>1. /\ Accepted(s) /\ tokens' = [tokens EXCEPT ![s] = Continue(s, user.version + 1)]
        /\ left' = left \cup (Live \ {s}) /\ UNCHANGED <<now, length, shortened, revoked>>
        /\ user' = PasswordChanged(user) \/ user' = SignedOut(user)
    BY <1>15 DEF ChangePassword, SignOutOthers, WebContext, Reissued, EndAllBut
  <2>2. user'.version = user.version + 1
    BY <1>0, <2>1, PasswordFacts, SignedOutFacts
  <2>3. s \in Live /\ ClaimsAreCurrent(s) /\ now < tokens[s].end
    <3>1. s \in Live /\ ClaimsAreCurrent(s) /\ now < tokens[s].access
      BY <2>1 DEF Accepted, Live
    <3>2. tokens[s].access <= tokens[s].end /\ tokens[s].access \in Nat /\ tokens[s].end \in Nat
      BY <1>0, <3>1, TokensType DEF IInv, PairInv
    <3> QED BY <1>0, <3>1, <3>2
  <2>4. /\ tokens'[s] = Continue(s, user.version + 1)
        /\ \A x \in Sids \ {s} : tokens'[x] = tokens[x]
    BY <1>0, <2>1 DEF TypeOK
  <2>5. GoesOn(s)
    <3>1. user.version + 1 \in Nat
      BY <1>0
    <3> QED BY <1>0, <2>2, <2>3, <2>4, <3>1, ContinueFacts DEF GoesOn
  <2>6. left \subseteq Live
    BY DEF IInv, LeftInv
  <2> QED BY <1>0, <1>14, <2>1, <2>2, <2>4, <2>5, <2>6
<1>16. ASSUME NEW s \in Sids, NEW s2 \in Sids, NEW o \in Orgs, SwitchTenant(s, o, s2)
       PROVE  SessionInv'
  <2>1. CASE o \in Keyed
    BY <1>16, <2>1, SessionStutter DEF SwitchTenant
  <2>2. CASE o \notin Keyed
    <3>1. /\ s \in Live /\ Fresh(s2) /\ s2 # s /\ RevokeSession(s) /\ left' = left \cup {s}
          /\ tokens' = [tokens EXCEPT ![s2] = NewSession(o, user.version, FALSE)]
          /\ UNCHANGED <<now, length, shortened, user>>
      BY <1>16, <2>2 DEF SwitchTenant, WebContext, Accepted, Fresh, Live
    <3>2. /\ tokens'[s2] = NewSession(o, user.version, FALSE)
          /\ \A x \in Sids \ {s2} : tokens'[x] = tokens[x]
      BY <1>0, <3>1 DEF TypeOK
    <3>3. /\ tokens'[s2] # None /\ tokens'[s2].org = o /\ tokens'[s2].version = user.version
          /\ tokens'[s2].end = now + SessionLength(o) /\ tokens'[s2].access <= tokens'[s2].end
      <4> DEFINE new(b) == NewSession(o, user.version, b)
      <4>1. \A b \in BOOLEAN :
              /\ new(b) # None /\ new(b).org = o /\ new(b).version = user.version
              /\ new(b).end = now + SessionLength(o) /\ new(b).access <= new(b).end
        BY <1>0, NewFacts
      <4>2. tokens'[s2] = new(FALSE)
        BY <3>2
      <4> HIDE DEF new
      <4> QED BY <4>1, <4>2, Zenon
    <3>4. s2 \notin Live /\ user'.version = user.version /\ user.version <= user.version
      BY <1>0, <3>1 DEF Fresh, Live
    <3>5. Begins(s2)
      BY <2>2, <3>3, <3>4 DEF Begins
    <3> QED BY <1>0, <3>1, <3>2, <3>5, SessionEnds
  <2> QED BY <2>1, <2>2
<1>17. CASE AdminResetPassword \/ AdminSignOutEverywhere
  <2>1. user'.version = user.version + 1
    BY <1>0, <1>17, PasswordFacts, SignedOutFacts DEF AdminResetPassword, AdminSignOutEverywhere
  <2>2. left \subseteq Live
    BY DEF IInv, LeftInv
  <2> QED BY <1>14, <1>17, <2>1, <2>2 DEF AdminResetPassword, AdminSignOutEverywhere, EndAllBut
<1>18. CASE UnlockUser
  BY <1>0, <1>18, ClearedFacts, SessionStutter DEF UnlockUser
<1>19. CASE UNCHANGED vars
  BY <1>19, SessionStutter DEF vars
<1> QED BY <1>2, <1>3, <1>4, <1>5, <1>6, <1>7, <1>8, <1>9, <1>10, <1>11, <1>12, <1>13, <1>15,
           <1>16, <1>17, <1>18, <1>19
        DEF Next, Login

-----------------------------------------------------------------------------
(* Signing out everywhere.                                                 *)

\* Nothing comes to rest on an earlier sign-in: what does keeps its tokens, and
\* the sign-in that waits is the one that did, or one of the present version.
LEMMA EndedStutter ==
  ASSUME IInv, user'.version = user.version, ended' \subseteq ended,
         \A s \in ended \ {None} : tokens'[s] = tokens[s],
         \/ pending' = pending
         \/ None \notin ended' /\ (pending' # None => pending'.version = user.version)
  PROVE  EndedInv'
<1>1. user.version \in Nat
  BY UserType DEF IInv, TypeOK
<1> QED BY <1>1 DEF IInv, EndedInv

\* All are ended but S: what is left behind is of a version that has passed.
LEMMA EndedAll ==
  ASSUME IInv, NEW S, EndAllBut(S), user'.version = user.version + 1, pending' = pending,
         \A x \in Live \ S : tokens'[x] = tokens[x],
         \A x \in ended \cap S : FALSE
  PROVE  EndedInv'
<1>1. TypeOK /\ user.version \in Nat
  BY UserType DEF IInv, TypeOK
<1>2. \A x \in Live : /\ x # None /\ tokens[x] # None
                      /\ tokens[x].version \in Nat /\ tokens[x].version <= user.version
  BY <1>1, TokensType, ConstantsAssumption DEF IInv, PairInv, Live
<1>3. ended \ {None} \subseteq Live
  BY <1>1 DEF IInv, EndedInv, TypeOK, Live
<1>4. pending # None => pending.version \in Nat /\ pending.version <= user.version
  BY <1>1 DEF IInv, EndedInv, TypeOK, MfaToken
<1>5. ASSUME NEW x \in ended' \ {None}
      PROVE  tokens'[x] # None /\ tokens'[x].version < user'.version
  <2>1. x \in Live \ S
    BY <1>3, <1>5 DEF EndAllBut
  <2>2. tokens'[x] = tokens[x]
    BY <2>1
  <2> QED BY <1>1, <1>2, <2>1, <2>2
<1>6. None \in ended' => pending # None
  BY <1>2 DEF EndAllBut, IInv, EndedInv
<1> QED BY <1>1, <1>4, <1>5, <1>6 DEF EndedInv

LEMMA EndedStep == IInv /\ [Next]_vars => EndedInv'
<1> SUFFICES ASSUME IInv, [Next]_vars PROVE EndedInv'
  OBVIOUS
<1>0. TypeOK /\ user \in UserRow /\ user.version \in Nat
  BY UserType DEF IInv, TypeOK
<1>1. ASSUME NEW x \in Sids, Accepted(x) \/ Refreshable(x) \/ Fresh(x) PROVE x \notin ended
  <2>1. x # None
    BY ConstantsAssumption
  <2>2. x \in ended => tokens[x] # None /\ tokens[x].version < user.version
    BY <2>1 DEF IInv, EndedInv
  <2>3. x \in ended => tokens[x].version # user.version
    <3>1. tokens[x] # None => tokens[x].version \in Nat
      BY <1>0, TokensType DEF Live
    <3> QED BY <1>0, <2>2, <3>1
  <2> QED BY <1>1, <2>2, <2>3 DEF Accepted, Refreshable, Fresh, ClaimsAreCurrent
<1>2. ASSUME NEW x \in Sids, NEW new, tokens' = [tokens EXCEPT ![x] = new], x \notin ended
      PROVE  \A s \in ended \ {None} : tokens'[s] = tokens[s]
  BY <1>0, <1>2 DEF TypeOK
<1>3. ASSUME UNCHANGED <<tokens, pending, ended>>, user'.version = user.version PROVE EndedInv'
  BY <1>3, EndedStutter
<1>4. ASSUME Authenticated PROVE user'.version = user.version
  BY <1>0, <1>4, ClearedFacts DEF Authenticated
<1>5. CASE Tick \/ UNCHANGED vars
  BY <1>3, <1>5 DEF Tick, vars, history
<1>6. ASSUME NEW o \in Tuned, NEW l \in Lengths \cup {None}, SetLength(o, l) PROVE EndedInv'
  BY <1>3, <1>6 DEF SetLength
<1>7. CASE LoginFails
  BY <1>0, <1>3, <1>7, StrikeFacts DEF LoginFails
<1>8. CASE LoginRefused
  BY <1>3, <1>4, <1>8 DEF LoginRefused
<1>9. ASSUME NEW o \in Orgs, LoginNeedsKey(o) PROVE EndedInv'
  <2>1. /\ user'.version = user.version /\ ended' = ended \ {None} /\ tokens' = tokens
        /\ pending'.version = user.version
    BY <1>4, <1>9 DEF LoginNeedsKey
  <2> QED BY <2>1, EndedStutter
<1>10. ASSUME NEW o \in Orgs, NEW s \in Sids, LoginSucceeds(o, s) PROVE EndedInv'
  <2>1. /\ user'.version = user.version /\ ended' = ended /\ pending' = pending /\ Fresh(s)
        /\ tokens' = [tokens EXCEPT ![s] = NewSession(o, user.version, FALSE)]
    BY <1>4, <1>10 DEF LoginSucceeds
  <2> QED BY <1>1, <1>2, <2>1, EndedStutter
<1>11. CASE Abandon
  <2>1. user' = user /\ ended' = ended \ {None} /\ tokens' = tokens /\ pending' = None
    BY <1>11 DEF Abandon
  <2> QED BY <2>1, EndedStutter
<1>12. ASSUME NEW o \in Orgs, NEW s \in Sids, SsoSignIn(o, s) PROVE EndedInv'
  <2>1. /\ user' = user /\ ended' = ended /\ pending' = pending /\ Fresh(s)
        /\ tokens' = [tokens EXCEPT ![s] = NewSession(o, user.version, TRUE)]
    BY <1>12 DEF SsoSignIn, history
  <2> QED BY <1>1, <1>2, <2>1, EndedStutter
<1>13. ASSUME NEW s \in Sids, CompleteCeremony(s) PROVE EndedInv'
  <2>1. /\ user' = user /\ pending' = None /\ Fresh(s) /\ MfaContext
        /\ tokens' = [tokens EXCEPT ![s] = NewSession(pending.org, user.version, TRUE)]
        /\ ended' = (ended \ {None}) \cup (IF None \in ended THEN {s} ELSE {})
    BY <1>13 DEF CompleteCeremony
  <2>2. None \notin ended
    BY <1>0, <2>1 DEF MfaContext, IInv, EndedInv
  <2>3. ended' = ended \ {None}
    BY <2>1, <2>2
  <2> QED BY <1>1, <1>2, <2>1, <2>3, EndedStutter
<1>14. ASSUME NEW s \in Sids, ContinueSession(s) \/ ApiRefresh(s) PROVE EndedInv'
  <2>1. /\ Refreshable(s) /\ user' = user /\ pending' = pending /\ ended' = ended
        /\ tokens' = [tokens EXCEPT ![s] = Continue(s, user.version)]
    BY <1>14 DEF ContinueSession, ApiRefresh, Refresh, history
  <2> QED BY <1>1, <1>2, <2>1, EndedStutter
<1>15. ASSUME NEW s \in Sids, Logout(s) PROVE EndedInv'
  BY <1>3, <1>15 DEF Logout
<1>16. ASSUME NEW s \in Sids, ChangeFails(s) PROVE EndedInv'
  BY <1>0, <1>3, <1>16, StrikeFacts DEF ChangeFails, history
<1>17. ASSUME NEW s \in Sids, ChangePassword(s) \/ SignOutOthers(s) PROVE EndedInv'
  <2>1. /\ Accepted(s) /\ EndAllBut({s}) /\ pending' = pending
        /\ tokens' = [tokens EXCEPT ![s] = Continue(s, user.version + 1)]
        /\ user' = PasswordChanged(user) \/ user' = SignedOut(user)
    BY <1>17 DEF ChangePassword, SignOutOthers, WebContext, Reissued
  <2>2. user'.version = user.version + 1
    BY <1>0, <2>1, PasswordFacts, SignedOutFacts
  <2>3. \A x \in Live \ {s} : tokens'[x] = tokens[x]
    BY <1>0, <2>1 DEF TypeOK, Live
  <2>4. \A x \in ended \cap {s} : FALSE
    BY <1>1, <2>1
  <2> QED BY <2>1, <2>2, <2>3, <2>4, EndedAll
<1>18. ASSUME NEW s \in Sids, NEW s2 \in Sids, NEW o \in Orgs, SwitchTenant(s, o, s2)
       PROVE  EndedInv'
  <2>1. s \notin ended /\ s2 \notin ended /\ user' = user
    BY <1>1, <1>18 DEF SwitchTenant, WebContext
  <2>2. CASE o \in Keyed
    <3>1. ended' = ended \ {None} /\ tokens' = tokens /\ pending'.version = user.version
      BY <1>18, <2>1, <2>2 DEF SwitchTenant
    <3> QED BY <2>1, <3>1, EndedStutter
  <2>3. CASE o \notin Keyed
    <3>1. /\ ended' = ended /\ pending' = pending
          /\ tokens' = [tokens EXCEPT ![s2] = NewSession(o, user.version, FALSE)]
      BY <1>18, <2>1, <2>3 DEF SwitchTenant
    <3> QED BY <1>2, <2>1, <3>1, EndedStutter
  <2> QED BY <2>2, <2>3
<1>19. CASE AdminResetPassword \/ AdminSignOutEverywhere
  <2>1. /\ EndAllBut({}) /\ pending' = pending /\ tokens' = tokens
        /\ user' = PasswordReset(user) \/ user' = SignedOut(user)
    BY <1>19 DEF AdminResetPassword, AdminSignOutEverywhere
  <2>2. user'.version = user.version + 1
    BY <1>0, <2>1, PasswordFacts, SignedOutFacts
  <2> QED BY <2>1, <2>2, EndedAll
<1>20. CASE UnlockUser
  BY <1>0, <1>3, <1>20, ClearedFacts DEF UnlockUser
<1> QED BY <1>5, <1>6, <1>7, <1>8, <1>9, <1>10, <1>11, <1>12, <1>13, <1>14, <1>15, <1>16, <1>17,
           <1>18, <1>19, <1>20
        DEF Next, Login

-----------------------------------------------------------------------------
(* The lockout.                                                            *)

LockoutInv == LockInv /\ GuessesAreThrottled

\* A wrong password: at sign-in it counts as a guess, and the account is open.
LEMMA LockStrike ==
  ASSUME IInv, user' = Strike(user), now' = now,
         guesses' = guesses \/ (guesses' = guesses + 1 /\ ~Locked(user))
  PROVE  LockoutInv'
<1>1. /\ user.failed \in Nat /\ user.locked \in Nat \cup {None} /\ now \in Nat /\ guesses \in Nat
      /\ MaxFailed \in Nat /\ MaxFailed > 0 /\ LockFor \in Nat \ {0} /\ None \notin Nat
  BY UserType, NowType, ConstantsAssumption DEF IInv, TypeOK
<1>2. /\ user'.failed = user.failed + 1
      /\ user'.locked = IF user.failed + 1 >= MaxFailed THEN now + LockFor ELSE user.locked
  BY StrikeFacts DEF IInv
<1>3. now \div LockFor \in Nat /\ (now + LockFor) \div LockFor = now \div LockFor + 1
  <2>1. now <= now
    BY <1>1
  <2> QED BY <1>1, <2>1, PeriodFacts
<1>4. /\ guesses <= user.failed /\ guesses <= MaxFailed + now \div LockFor
      /\ user.locked # None => user.locked <= now + LockFor
      /\ user.failed >= MaxFailed =>
           user.locked # None /\ guesses + 1 <= MaxFailed + user.locked \div LockFor
  BY DEF IInv, LockInv, GuessesAreThrottled
<1>5. guesses' <= MaxFailed + now \div LockFor
  <2>1. CASE guesses' = guesses
    BY <1>4, <2>1
  <2>2. CASE guesses' = guesses + 1 /\ ~Locked(user) /\ user.failed >= MaxFailed
    <3>1. user.locked \in Nat /\ user.locked <= now
      BY <1>1, <1>4, <2>2 DEF Locked
    <3>2. user.locked \div LockFor \in Nat /\ user.locked \div LockFor <= now \div LockFor
      BY <1>1, <3>1, PeriodFacts
    <3> QED BY <1>1, <1>3, <1>4, <2>2, <3>2
  <2>3. CASE guesses' = guesses + 1 /\ ~(user.failed >= MaxFailed)
    BY <1>1, <1>3, <1>4, <2>3
  <2> QED BY <2>1, <2>2, <2>3
<1>6. GuessesAreThrottled'
  BY <1>5 DEF GuessesAreThrottled
<1>7. guesses' <= user'.failed
  BY <1>1, <1>2, <1>4
<1>8. user'.locked # None => user'.locked <= now' + LockFor
  BY <1>1, <1>2, <1>4
<1>9. user'.failed >= MaxFailed =>
        user'.locked # None /\ guesses' + 1 <= MaxFailed + user'.locked \div LockFor
  <2> SUFFICES ASSUME user'.failed >= MaxFailed
               PROVE  user'.locked # None /\ guesses' + 1 <= MaxFailed + user'.locked \div LockFor
    OBVIOUS
  <2>1. user'.locked = now + LockFor /\ now + LockFor \in Nat
    BY <1>1, <1>2
  <2>2. user'.locked \div LockFor = now \div LockFor + 1
    BY <1>3, <2>1
  <2>3. guesses' \in Nat
    BY <1>1
  <2> QED BY <1>1, <1>3, <1>5, <2>1, <2>2, <2>3
<1> QED BY <1>6, <1>7, <1>8, <1>9 DEF LockoutInv, LockInv

\* The counter and the lock are left alone while time passes.
LEMMA LockStutter ==
  ASSUME IInv, user'.failed = user.failed, user'.locked = user.locked, guesses' = guesses,
         now' \in Nat, now <= now'
  PROVE  LockoutInv'
<1>1. /\ user.locked \in Nat \cup {None} /\ now \in Nat /\ guesses \in Nat
      /\ MaxFailed \in Nat /\ LockFor \in Nat \ {0}
  BY UserType, NowType, ConstantsAssumption DEF IInv, TypeOK
<1>2. now \div LockFor \in Nat /\ now \div LockFor <= now' \div LockFor /\ now' \div LockFor \in Nat
  <2>1. now' <= now'
    OBVIOUS
  <2> QED BY <1>1, <2>1, PeriodFacts
<1>3. GuessesAreThrottled'
  <2>1. PICK p \in Nat, q \in Nat : p = now \div LockFor /\ q = now' \div LockFor /\ p <= q
    BY <1>2
  <2>2. guesses <= MaxFailed + p
    BY <2>1 DEF IInv, GuessesAreThrottled
  <2>3. guesses <= MaxFailed + q
    <3>1. guesses \in Nat /\ MaxFailed \in Nat /\ p <= q
      BY <1>1, <2>1
    <3> QED BY <2>2, <3>1
  <2> QED BY <2>1, <2>3 DEF GuessesAreThrottled
<1>4. LockInv'
  BY <1>1 DEF IInv, LockInv
<1> QED BY <1>3, <1>4 DEF LockoutInv

\* A right password, an unlocking, a password changed or reset.
LEMMA LockCleared ==
  ASSUME IInv, user'.failed = 0, user'.locked = None, guesses' = 0, now' = now
  PROVE  LockoutInv'
<1>1. MaxFailed \in Nat /\ MaxFailed > 0 /\ now \div LockFor \in Nat
  BY NowType, ConstantsAssumption, PeriodFacts DEF IInv
<1> QED BY <1>1 DEF LockoutInv, LockInv, GuessesAreThrottled

LEMMA LockStep == IInv /\ [Next]_vars => LockoutInv'
<1> SUFFICES ASSUME IInv, [Next]_vars PROVE LockoutInv'
  OBVIOUS
<1>0. TypeOK /\ user \in UserRow /\ now \in Nat /\ now <= now
  BY NowType DEF IInv, TypeOK
<1>1. CASE Tick
  <2>1. now' = now + 1 /\ UNCHANGED <<user, guesses>>
    BY <1>1 DEF Tick, history
  <2> QED BY <1>0, <2>1, LockStutter
<1>2. ASSUME UNCHANGED <<now, user, guesses>> PROVE LockoutInv'
  BY <1>0, <1>2, LockStutter
<1>3. ASSUME NEW o \in Tuned, NEW l \in Lengths \cup {None}, SetLength(o, l) PROVE LockoutInv'
  BY <1>2, <1>3 DEF SetLength
<1>4. CASE LoginFails
  BY <1>4, LockStrike DEF LoginFails
<1>5. ASSUME Authenticated, UNCHANGED now PROVE LockoutInv'
  BY <1>0, <1>5, ClearedFacts, LockCleared DEF Authenticated
<1>6. CASE LoginRefused
  BY <1>5, <1>6 DEF LoginRefused
<1>7. ASSUME NEW o \in Orgs, LoginNeedsKey(o) PROVE LockoutInv'
  BY <1>5, <1>7 DEF LoginNeedsKey
<1>8. ASSUME NEW o \in Orgs, NEW s \in Sids, LoginSucceeds(o, s) PROVE LockoutInv'
  BY <1>5, <1>8 DEF LoginSucceeds
<1>9. CASE Abandon
  BY <1>2, <1>9 DEF Abandon, history
<1>10. ASSUME NEW o \in Orgs, NEW s \in Sids, SsoSignIn(o, s) PROVE LockoutInv'
  BY <1>2, <1>10 DEF SsoSignIn, history
<1>11. ASSUME NEW s \in Sids, CompleteCeremony(s) PROVE LockoutInv'
  BY <1>2, <1>11 DEF CompleteCeremony, history
<1>12. ASSUME NEW s \in Sids, ContinueSession(s) \/ ApiRefresh(s) PROVE LockoutInv'
  BY <1>2, <1>12 DEF ContinueSession, ApiRefresh, Refresh, history
<1>13. ASSUME NEW s \in Sids, Logout(s) PROVE LockoutInv'
  BY <1>2, <1>13 DEF Logout
<1>14. ASSUME NEW s \in Sids, ChangeFails(s) PROVE LockoutInv'
  <2>1. user' = Strike(user) /\ now' = now /\ guesses' = guesses
    BY <1>14 DEF ChangeFails, history
  <2>2. guesses' = guesses \/ (guesses' = guesses + 1 /\ ~Locked(user))
    BY <2>1
  <2> QED BY <2>1, <2>2, LockStrike, Zenon
<1>15. ASSUME NEW s \in Sids, ChangePassword(s) PROVE LockoutInv'
  BY <1>0, <1>15, PasswordFacts, LockCleared DEF ChangePassword
<1>16. ASSUME user' = SignedOut(user), UNCHANGED <<now, guesses>> PROVE LockoutInv'
  BY <1>0, <1>16, SignedOutFacts, LockStutter
<1>17. ASSUME NEW s \in Sids, SignOutOthers(s) PROVE LockoutInv'
  BY <1>16, <1>17 DEF SignOutOthers
<1>18. ASSUME NEW s \in Sids, NEW s2 \in Sids, NEW o \in Orgs, SwitchTenant(s, o, s2)
       PROVE  LockoutInv'
  BY <1>2, <1>18 DEF SwitchTenant
<1>19. CASE AdminResetPassword
  BY <1>0, <1>19, PasswordFacts, LockCleared DEF AdminResetPassword
<1>20. CASE AdminSignOutEverywhere
  BY <1>16, <1>20 DEF AdminSignOutEverywhere
<1>21. CASE UnlockUser
  BY <1>0, <1>21, ClearedFacts, LockCleared DEF UnlockUser
<1>22. CASE UNCHANGED vars
  BY <1>2, <1>22 DEF vars
<1> QED BY <1>1, <1>3, <1>4, <1>6, <1>7, <1>8, <1>9, <1>10, <1>11, <1>12, <1>13, <1>14, <1>15,
           <1>17, <1>18, <1>19, <1>20, <1>21, <1>22
        DEF Next, Login

-----------------------------------------------------------------------------
(* The theorems.                                                           *)

LEMMA IInvInit == Init => IInv
<1> SUFFICES ASSUME Init PROVE IInv
  OBVIOUS
<1>1. /\ user.failed = 0 /\ user.locked = None /\ user \in UserRow
  BY ConstantsAssumption DEF Init, UserRow
<1>2. TypeOK
  BY <1>1, ConstantsAssumption DEF Init, TypeOK
<1>3. Live = {} /\ left = {} /\ \A s \in Sids : revoked[s] = None /\ tokens[s] = None
  BY DEF Init, Live
<1>4. PairInv /\ LastInv /\ LeftInv /\ KeyedNeedsKey
  BY <1>3 DEF PairInv, LastInv, LeftInv, KeyedNeedsKey
<1>5. LockInv /\ GuessesAreThrottled
  <2>1. guesses = 0 /\ MaxFailed \in Nat /\ MaxFailed > 0 /\ now \div LockFor \in Nat
    BY <1>2, NowType, ConstantsAssumption, PeriodFacts DEF Init
  <2> QED BY <1>1, <2>1 DEF LockInv, GuessesAreThrottled
<1>6. EndedInv
  BY DEF Init, EndedInv
<1> QED BY <1>2, <1>4, <1>5, <1>6 DEF IInv

LEMMA IInvStep == IInv /\ [Next]_vars => IInv'
<1> SUFFICES ASSUME IInv, [Next]_vars PROVE IInv'
  OBVIOUS
<1>1. TypeOK'
  BY TypeStep DEF IInv
<1>2. PairInv' /\ LastInv' /\ LeftInv' /\ KeyedNeedsKey'
  BY SessionStep DEF SessionInv
<1>3. LockInv' /\ GuessesAreThrottled'
  BY LockStep DEF LockoutInv
<1>4. EndedInv'
  BY EndedStep
<1> QED BY <1>1, <1>2, <1>3, <1>4 DEF IInv

LEMMA Invariance == Spec => []IInv
BY IInvInit, IInvStep, PTL DEF Spec

\* The state is well typed, and every session of a membership that requires a
\* key was vouched for by one or by an identity provider: LoginService and
\* SwitchTenant, whatever the organizations and however often one is switched.
THEOREM KeysAreAskedFor == Spec => []SessionsAgree
<1>1. IInv => SessionsAgree
  BY DEF IInv, SessionsAgree
<1> QED BY <1>1, Invariance, PTL

\* What was signed out is never served again, for any lengths of sessions and any
\* number of prunings of revoked_session: its version is old, its end is past or
\* its row outlives it, for every session whose organization did not lower the
\* maximum while it was under way.
THEOREM SignedOutStaysOut == Spec => []SignedOutIsForGood
<1>1. IInv => SignedOutIsForGood
  <2> SUFFICES ASSUME IInv, NEW s \in left \ shortened PROVE ~Accepted(s) /\ ~Refreshable(s)
    BY DEF SignedOutIsForGood
  <2>1. s \in Live /\ user.version \in Nat /\ now \in Nat /\ TypeOK
    BY UserType, NowType DEF IInv, TypeOK, LeftInv
  <2>2. /\ tokens[s].version \in Nat /\ tokens[s].access \in Nat /\ tokens[s].end \in Nat
        /\ tokens[s].access <= tokens[s].end
    BY <2>1, TokensType DEF IInv, PairInv
  <2>3. ~ClaimsAreCurrent(s) \/ tokens[s].end <= now
    BY <2>1, <2>2 DEF IInv, LeftInv, ClaimsAreCurrent
  <2> QED BY <2>1, <2>2, <2>3 DEF Accepted, Refreshable
<1> QED BY <1>1, Invariance, PTL

\* The lockout holds against guessing for any threshold and any period: between
\* two right passwords, sign-in has looked at no more than MaxFailed wrong ones
\* and one more per period.
THEOREM GuessingIsSlow == Spec => []GuessesAreThrottled
<1>1. IInv => GuessesAreThrottled
  BY DEF IInv
<1> QED BY <1>1, Invariance, PTL

\* Signing out everywhere, a change of the password and a reset leave nothing of
\* an earlier sign-in behind: no other session, no sign-in that waits for its key,
\* and nothing reached from either, whatever the settings (user.token_version).
THEOREM EndingAllEndsAll == Spec => []EverywhereMeansAll
<1>1. IInv => EverywhereMeansAll
  <2> SUFFICES ASSUME IInv PROVE EverywhereMeansAll
    OBVIOUS
  <2>0. TypeOK /\ user.version \in Nat
    BY UserType DEF IInv, TypeOK
  <2>1. ASSUME NEW s \in ended \cap Sids PROVE ~Accepted(s) /\ ~Refreshable(s)
    <3>1. s # None /\ tokens[s] # None /\ tokens[s].version < user.version
      BY ConstantsAssumption DEF IInv, EndedInv
    <3>2. tokens[s].version \in Nat
      BY <2>0, <3>1, TokensType DEF Live
    <3> QED BY <2>0, <3>1, <3>2 DEF Accepted, Refreshable, ClaimsAreCurrent
  <2>2. None \in ended => ~MfaContext
    <3>1. pending # None => pending.version \in Nat
      BY <2>0 DEF TypeOK, MfaToken
    <3> QED BY <2>0, <3>1 DEF IInv, EndedInv, MfaContext
  <2> QED BY <2>1, <2>2 DEF EverywhereMeansAll
<1> QED BY <1>1, Invariance, PTL
=============================================================================
