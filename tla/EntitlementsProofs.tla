-------------------------- MODULE EntitlementsProofs --------------------------
(***************************************************************************)
(* Theorems about Entitlements: what holds for any people, customers,      *)
(* groups and permissions, however groups are edited.                      *)
(***************************************************************************)
EXTENDS Entitlements, TLAPS

(***************************************************************************)
(* The inductive invariant.                                                *)
(***************************************************************************)

\* Who is known from another organization is known.
KnownInv == foreign \subseteq known

\* A bulk load was begun from a session of the whole bank.
BulkInv == bulk # None => bulk.from = Bank

IInv == /\ TypeOK /\ KnownInv /\ BulkInv
        /\ OneMembershipPerScope /\ ForeignersAreConfirmed /\ GrantedByTheBank

-----------------------------------------------------------------------------
(* Facts about the operators.                                              *)

\* A session scoped to a customer has none of the masked permissions, whatever
\* its group says.
LEMMA OnlyTheBankMay ==
  ASSUME NEW from, NEW permission \in Masked, May(from, permission) PROVE from = Bank
BY DEF May, TenantContext, Effective

LEMMA RowFacts ==
  ASSUME NEW p \in People, NEW s \in Scopes, NEW g \in Groups, NEW from \in Scopes
  PROVE  /\ Row(p, s, g, from) \in Membership
         /\ Row(p, s, g, from).person = p /\ Row(p, s, g, from).scope = s
         /\ Row(p, s, g, from).from = from
BY DEF Row, Membership

\* Whoever is added at once is new, or in the bank already.
LEMMA CreatedFacts ==
  ASSUME NEW p, NEW s, AddUserOutcome(p, s) = "created"
  PROVE  ~Holds(p, s) /\ (p \in known => Of(p) # {})
BY DEF AddUserOutcome

\* The settings of their types after a step.
SettingsOK ==
  /\ grants' \in [Groups -> (SUBSET Permissions) \cup {None}]
  /\ connection' \in Connection \cup {None}
  /\ passwords' \subseteq Scopes
  /\ changes' \in 0..MaxChanges

-----------------------------------------------------------------------------
(* What an action may do to the memberships.                               *)

\* Memberships granted to one person, in scopes the person does not hold.
LEMMA Granting ==
  ASSUME IInv, NEW p \in People, NEW S \in SUBSET Scopes, NEW g \in Groups,
         members' = members \cup {Row(p, s, g, Bank) : s \in S},
         \A s \in S : ~Holds(p, s),
         S # {} => p \in known',
         S # {} /\ p \in foreign => p \in agreed',
         known \subseteq known', known' \subseteq People,
         agreed \subseteq agreed', agreed' \subseteq foreign,
         UNCHANGED <<settings, bulk, foreign>>
  PROVE  IInv'
<1>1. \A s \in S : /\ Row(p, s, g, Bank) \in Membership
                   /\ Row(p, s, g, Bank).person = p /\ Row(p, s, g, Bank).scope = s
                   /\ Row(p, s, g, Bank).from = Bank
  BY RowFacts DEF Scopes
<1>2. \A m \in members' : m \in members \/ \E s \in S : m = Row(p, s, g, Bank)
  OBVIOUS
<1>3. members' \subseteq Membership
  BY <1>1, <1>2 DEF IInv, TypeOK
<1>4. OneMembershipPerScope'
  <2> SUFFICES ASSUME NEW m \in members', NEW n \in members', m.person = n.person, m.scope = n.scope
               PROVE  m = n
    BY DEF OneMembershipPerScope
  <2>1. ASSUME NEW a \in members, NEW s \in S, a.person = p, a.scope = s PROVE FALSE
    BY <2>1 DEF Holds, Of
  <2>2. CASE m \in members /\ n \in members
    BY <2>2 DEF IInv, OneMembershipPerScope
  <2> QED BY <1>1, <1>2, <2>1, <2>2
<1>5. ForeignersAreConfirmed'
  BY <1>1, <1>2 DEF IInv, ForeignersAreConfirmed
<1>6. GrantedByTheBank'
  BY <1>1, <1>2 DEF IInv, GrantedByTheBank
<1>7. TypeOK' /\ KnownInv' /\ BulkInv'
  BY <1>3 DEF IInv, TypeOK, KnownInv, BulkInv, settings
<1> QED BY <1>4, <1>5, <1>6, <1>7 DEF IInv

\* One membership rewritten: the same person's, and no other holds its scope.
LEMMA Rewriting ==
  ASSUME IInv, NEW m \in members, NEW new \in Membership, Replace(m, new),
         new.person = m.person, new.from = m.from,
         \A n \in members \ {m} : n.person = m.person => n.scope # new.scope,
         UNCHANGED <<known, settings, bulk, foreign, agreed>>
  PROVE  IInv'
<1>1. \A n \in members' : n \in members \ {m} \/ n = new
  BY DEF Replace
<1>2. members' \subseteq Membership
  BY <1>1 DEF IInv, TypeOK
<1>3. OneMembershipPerScope'
  BY <1>1 DEF IInv, OneMembershipPerScope
<1>4. ForeignersAreConfirmed' /\ GrantedByTheBank'
  BY <1>1 DEF IInv, ForeignersAreConfirmed, GrantedByTheBank
<1>5. TypeOK' /\ KnownInv' /\ BulkInv'
  BY <1>2 DEF IInv, TypeOK, KnownInv, BulkInv, settings
<1> QED BY <1>3, <1>4, <1>5 DEF IInv

\* The group and the flag of a membership change, its scope does not.
LEMMA Flagging ==
  ASSUME IInv, NEW m \in members, NEW g \in Groups, NEW active \in BOOLEAN,
         Replace(m, [m EXCEPT !.group = g, !.active = active]),
         UNCHANGED <<known, settings, bulk, foreign, agreed>>
  PROVE  IInv'
<1> DEFINE new == [m EXCEPT !.group = g, !.active = active]
<1>1. m \in Membership
  BY DEF IInv, TypeOK
<1>2. /\ new \in Membership /\ new.person = m.person /\ new.scope = m.scope /\ new.from = m.from
  BY <1>1 DEF Membership
<1>3. \A n \in members \ {m} : n.person = m.person => n.scope # m.scope
  BY DEF IInv, OneMembershipPerScope
<1>4. Replace(m, new)
  OBVIOUS
<1> HIDE DEF new
<1> QED BY <1>2, <1>3, <1>4, Rewriting

\* Settings change, memberships do not.
LEMMA Setting ==
  ASSUME IInv, SettingsOK, UNCHANGED <<known, members, bulk, foreign, agreed>>
  PROVE  IInv'
BY DEF IInv, SettingsOK, TypeOK, KnownInv, BulkInv, OneMembershipPerScope,
       ForeignersAreConfirmed, GrantedByTheBank

-----------------------------------------------------------------------------
(* Every step keeps the invariant.                                         *)

LEMMA MembersStep ==
  ASSUME IInv, NEW from \in Scopes, NEW p \in People, NEW g \in Groups
  PROVE  /\ \A s \in Scopes : CreateUser(from, p, s, g) => IInv'
         /\ \A s \in Scopes : ConfirmExistingUser(from, p, s, g) => IInv'
         /\ \A S \in SUBSET Scopes : AccessGrant(from, p, S, g) => IInv'
<1>0. /\ known \subseteq People /\ foreign \subseteq known /\ agreed \subseteq foreign
      /\ "user:manage" \in Masked
  BY DEF IInv, TypeOK, KnownInv, Masked
<1>1. ASSUME Of(p) # {}, p \in foreign PROVE p \in agreed
  BY <1>1 DEF IInv, Of, ForeignersAreConfirmed
<1>2. ASSUME NEW s \in Scopes, CreateUser(from, p, s, g) PROVE IInv'
  <2>1. from = Bank
    BY <1>0, <1>2, OnlyTheBankMay DEF CreateUser
  <2> DEFINE S == {s}
  <2>2. members' = members \cup {Row(p, x, g, Bank) : x \in S} /\ S \in SUBSET Scopes
    BY <1>2, <2>1 DEF CreateUser
  <2>3. /\ \A x \in S : ~Holds(p, x)
        /\ p \in known => Of(p) # {}
    BY <1>2, CreatedFacts DEF CreateUser
  <2>4. p \in foreign => p \in agreed
    BY <1>0, <1>1, <2>3
  <2>5. known' = known \cup {p} /\ UNCHANGED <<settings, bulk, foreign, agreed>>
    BY <1>2 DEF CreateUser
  <2>6. known \subseteq known' /\ known' \subseteq People /\ p \in known'
    BY <1>0, <2>5
  <2> HIDE DEF S
  <2> QED BY <1>0, <2>2, <2>3, <2>4, <2>5, <2>6, Granting
<1>3. ASSUME NEW s \in Scopes, ConfirmExistingUser(from, p, s, g) PROVE IInv'
  <2>1. from = Bank
    BY <1>0, <1>3, OnlyTheBankMay DEF ConfirmExistingUser
  <2> DEFINE S == IF Holds(p, s) THEN {} ELSE {s}
  <2>2. members' = members \cup {Row(p, x, g, Bank) : x \in S}
    BY <1>3, <2>1 DEF ConfirmExistingUser, Confirmed
  <2>3. /\ \A x \in S : ~Holds(p, x)
        /\ p \in known /\ agreed' = agreed \cup ({p} \cap foreign)
        /\ UNCHANGED <<known, settings, bulk, foreign>>
    BY <1>3 DEF ConfirmExistingUser, Confirmed
  <2>4. S \in SUBSET Scopes
    OBVIOUS
  <2> HIDE DEF S
  <2> QED BY <1>0, <2>2, <2>3, <2>4, Granting
<1>4. ASSUME NEW S \in SUBSET Scopes, AccessGrant(from, p, S, g) PROVE IInv'
  <2>1. from = Bank
    BY <1>0, <1>4, OnlyTheBankMay DEF AccessGrant
  <2>2. /\ members' = members \cup {Row(p, s, g, Bank) : s \in Granted(p, S)}
        /\ known' = IF Granted(p, S) = {} THEN known ELSE known \cup {p}
        /\ UNCHANGED <<settings, bulk, foreign, agreed>>
    BY <1>4, <2>1 DEF AccessGrant
  <2>3. Granted(p, S) \in SUBSET Scopes
    BY DEF Granted
  <2>4. \A s \in Granted(p, S) : ~Holds(p, s) /\ (p \in known => Of(p) # {})
    BY CreatedFacts DEF Granted
  <2>5. Granted(p, S) # {} /\ p \in foreign => p \in agreed
    BY <1>0, <1>1, <2>4
  <2> QED BY <1>0, <2>2, <2>3, <2>4, <2>5, Granting
<1> QED BY <1>2, <1>3, <1>4

LEMMA BulkStep ==
  ASSUME IInv, NEW p \in People, NEW s \in Scopes, NEW g \in Groups
  PROVE  /\ BulkUploadRow(p, s, g) => IInv'
         /\ BulkConfirmRow(p, s, g) => IInv'
<1>0. /\ known \subseteq People /\ foreign \subseteq known /\ agreed \subseteq foreign
  BY DEF IInv, TypeOK, KnownInv
<1>1. CASE BulkUploadRow(p, s, g)
  <2>1. bulk.from = Bank
    BY <1>1 DEF BulkUploadRow, IInv, BulkInv
  <2> DEFINE S == {s}
  <2>2. members' = members \cup {Row(p, x, g, Bank) : x \in S} /\ S \in SUBSET Scopes
    BY <1>1, <2>1 DEF BulkUploadRow
  <2>3. /\ \A x \in S : ~Holds(p, x)
        /\ p \in known => Of(p) # {}
    BY <1>1, CreatedFacts DEF BulkUploadRow
  <2>4. p \in foreign => p \in agreed
    BY <1>0, <2>3 DEF IInv, Of, ForeignersAreConfirmed
  <2>5. known' = known \cup {p} /\ UNCHANGED <<settings, bulk, foreign, agreed>>
    BY <1>1 DEF BulkUploadRow
  <2>6. known \subseteq known' /\ known' \subseteq People /\ p \in known'
    BY <1>0, <2>5
  <2> HIDE DEF S
  <2> QED BY <1>0, <2>2, <2>3, <2>4, <2>5, <2>6, Granting
<1>2. CASE BulkConfirmRow(p, s, g)
  <2>1. bulk.from = Bank
    BY <1>2 DEF BulkConfirmRow, IInv, BulkInv
  <2> DEFINE S == IF Holds(p, s) THEN {} ELSE {s}
  <2>2. members' = members \cup {Row(p, x, g, Bank) : x \in S}
    BY <1>2, <2>1 DEF BulkConfirmRow, Confirmed
  <2>3. /\ \A x \in S : ~Holds(p, x)
        /\ p \in known /\ agreed' = agreed \cup ({p} \cap foreign)
        /\ UNCHANGED <<known, settings, bulk, foreign>>
    BY <1>2 DEF BulkConfirmRow, Confirmed
  <2>4. S \in SUBSET Scopes
    OBVIOUS
  <2> HIDE DEF S
  <2> QED BY <1>0, <2>2, <2>3, <2>4, Granting
<1> QED BY <1>1, <1>2

LEMMA RewriteStep ==
  ASSUME IInv, NEW from \in Scopes, NEW m \in members
  PROVE  /\ DeactivateUser(from, m) => IInv'
         /\ ReactivateUser(from, m) => IInv'
         /\ \A g \in Groups, s \in Scopes : UpdateUser(from, m, g, s) => IInv'
<1>0. m \in Membership /\ m.group \in Groups
  BY DEF IInv, TypeOK, Membership
<1>1. CASE DeactivateUser(from, m)
  <2>1. Deactivated(m) = [m EXCEPT !.group = m.group, !.active = FALSE]
    BY <1>0 DEF Deactivated, Membership
  <2> QED BY <1>0, <1>1, <2>1, Flagging DEF DeactivateUser
<1>2. CASE ReactivateUser(from, m)
  <2>1. Reactivated(m) = [m EXCEPT !.group = m.group, !.active = TRUE]
    BY <1>0 DEF Reactivated, Membership
  <2> QED BY <1>0, <1>2, <2>1, Flagging DEF ReactivateUser
<1>3. ASSUME NEW g \in Groups, NEW s \in Scopes, UpdateUser(from, m, g, s) PROVE IInv'
  <2> DEFINE new == [m EXCEPT !.group = g, !.scope = s]
  <2>1. new \in Membership /\ new.person = m.person /\ new.scope = s /\ new.from = m.from
    BY <1>0 DEF Membership
  <2>2. Replace(m, new) /\ UNCHANGED <<known, settings, bulk, foreign, agreed>>
    BY <1>3 DEF UpdateUser
  <2>3. \A n \in members \ {m} : n.person = m.person => n.scope # s
    BY <1>3 DEF UpdateUser, Conflict, Of
  <2> HIDE DEF new
  <2> QED BY <2>1, <2>2, <2>3, Rewriting
<1> QED BY <1>1, <1>2, <1>3

\* Groups, the connection and password login: every one of these steps writes
\* settings of their types and nothing else.
SettingsOnly == SettingsOK /\ UNCHANGED <<known, members, bulk, foreign, agreed>>

LEMMA ConnectionType ==
  ASSUME TypeOK, connection # None
  PROVE  /\ connection \in Connection
         /\ connection.scope \in Scopes /\ connection.active \in BOOLEAN
         /\ connection.auto \in BOOLEAN /\ connection.groups \subseteq Groups
<1>1. connection \in Connection
  BY DEF TypeOK
<1> QED BY <1>1 DEF Connection

\* The services behind the two pages of settings.
LEMMA ServicesWriteSettings ==
  ASSUME TypeOK, NEW s \in Scopes, NEW b \in BOOLEAN, NEW g \in Groups
  PROVE  /\ CreateConnection(s, b) => SettingsOnly
         /\ UpdateConnection(s, b) => SettingsOnly
         /\ SetActive(b) => SettingsOnly
         /\ Add(g) => SettingsOnly
         /\ Remove(g) => SettingsOnly
         /\ SetPasswordLogin(s, b) => SettingsOnly
<1>1. Change => changes' \in 0..MaxChanges
  BY ConstantsAssumption DEF Change, TypeOK
<1>2. ASSUME connection' \in Connection, UNCHANGED <<known, members, grants, passwords, bulk, foreign, agreed>>,
             Change
      PROVE  SettingsOnly
  BY <1>1, <1>2 DEF SettingsOnly, SettingsOK, TypeOK
<1>3. CASE CreateConnection(s, b)
  <2>1. connection' \in Connection
    BY <1>3 DEF CreateConnection, Connection
  <2> QED BY <1>2, <1>3, <2>1 DEF CreateConnection
<1>4. CASE UpdateConnection(s, b)
  <2>1. connection' \in Connection
    BY <1>4, ConnectionType DEF UpdateConnection, Connection
  <2> QED BY <1>2, <1>4, <2>1 DEF UpdateConnection
<1>5. CASE SetActive(b)
  <2>1. connection' \in Connection
    BY <1>5, ConnectionType DEF SetActive, Connection
  <2> QED BY <1>2, <1>5, <2>1 DEF SetActive
<1>6. ASSUME NEW groups \in SUBSET Groups, connection # None, Map(groups) PROVE SettingsOnly
  <2>1. connection' \in Connection
    BY <1>6, ConnectionType DEF Map, Connection
  <2> QED BY <1>2, <1>6, <2>1 DEF Map
<1>7. CASE Add(g)
  <2>1. connection.groups \cup {g} \in SUBSET Groups
    BY <1>7, ConnectionType DEF Add
  <2> QED BY <1>6, <1>7, <2>1 DEF Add
<1>8. CASE Remove(g)
  <2>1. connection.groups \ {g} \in SUBSET Groups
    BY <1>8, ConnectionType DEF Remove
  <2> QED BY <1>6, <1>8, <2>1 DEF Remove
<1>9. CASE SetPasswordLogin(s, b)
  BY <1>1, <1>9 DEF SetPasswordLogin, SettingsOnly, SettingsOK, TypeOK
<1> QED BY <1>3, <1>4, <1>5, <1>7, <1>8, <1>9

LEMMA GroupStep ==
  ASSUME TypeOK, NEW from \in Scopes, NEW g \in Groups, NEW permissions \in PermissionSets,
         CreateSecurityGroup(from, g, permissions) \/ UpdateSecurityGroup(from, g, permissions)
  PROVE  SettingsOnly
<1>1. changes' \in 0..MaxChanges
  BY ConstantsAssumption DEF CreateSecurityGroup, UpdateSecurityGroup, Change, TypeOK
<1>2. grants' \in [Groups -> (SUBSET Permissions) \cup {None}]
  <2>1. permissions \in (SUBSET Permissions) \cup {None}
    BY ConstantsAssumption
  <2> QED BY <2>1 DEF CreateSecurityGroup, UpdateSecurityGroup, TypeOK
<1> QED BY <1>1, <1>2
        DEF CreateSecurityGroup, UpdateSecurityGroup, SettingsOnly, SettingsOK, TypeOK

\* What the two pages of settings do, whoever asks, are these services.
LEMMA PagesUseServices ==
  ASSUME TypeOK, NEW from \in Scopes, NEW b \in BOOLEAN, NEW s \in Scopes, NEW g \in Groups,
         \/ CreateBankConnection(from, b) \/ UpdateBankConnection(from, b)
         \/ SetBankPasswordLogin(from, b)
         \/ CreateCustomerConnection(from, s, b) \/ UpdateCustomerConnection(from, s, b)
         \/ SetCustomerPasswordLogin(from, s, b)
         \/ DeactivateBankConnection(from) \/ ReactivateBankConnection(from)
         \/ DeactivateCustomerConnection(from, s) \/ ReactivateCustomerConnection(from, s)
         \/ AddBankGroupMapping(from, g) \/ RemoveBankGroupMapping(from, g)
         \/ AddCustomerGroupMapping(from, g) \/ RemoveCustomerGroupMapping(from, g)
  PROVE  SettingsOnly
<1>1. Bank \in Scopes
  BY DEF Scopes
<1>2. \A x \in Scopes :
        /\ CreateConnection(x, b) => SettingsOnly
        /\ UpdateConnection(x, b) => SettingsOnly
        /\ SetPasswordLogin(x, b) => SettingsOnly
  BY ServicesWriteSettings
<1>3. (SetActive(TRUE) => SettingsOnly) /\ (SetActive(FALSE) => SettingsOnly)
  <2>1. \A a \in BOOLEAN : SetActive(a) => SettingsOnly
    BY ServicesWriteSettings
  <2> QED BY <2>1, Zenon
<1>4. (Add(g) => SettingsOnly) /\ (Remove(g) => SettingsOnly)
  BY ServicesWriteSettings
<1> QED BY <1>1, <1>2, <1>3, <1>4, Zenon
        DEF CreateBankConnection, UpdateBankConnection, SetBankPasswordLogin,
            CreateCustomerConnection, UpdateCustomerConnection, SetCustomerPasswordLogin,
            DeactivateBankConnection, ReactivateBankConnection, SetCustomerActive,
            DeactivateCustomerConnection, ReactivateCustomerConnection,
            AddBankGroupMapping, RemoveBankGroupMapping,
            AddCustomerGroupMapping, RemoveCustomerGroupMapping

\* Federation: the membership of the connection's scope follows the provider.
LEMMA FederationStep ==
  ASSUME IInv, NEW p \in People
  PROVE  /\ \A g \in Groups : SsoLogin(p, g) => IInv'
         /\ SsoRefused(p) => IInv'
<1>0. /\ known \subseteq People /\ foreign \subseteq known /\ agreed \subseteq foreign
      /\ members \subseteq Membership /\ TypeOK
  BY DEF IInv, TypeOK, KnownInv
<1>1. ASSUME NEW g \in Groups, SsoLogin(p, g) PROVE IInv'
  <2> DEFINE s == connection.scope
  <2>1. s \in Scopes
    BY <1>0, <1>1, ConnectionType DEF SsoLogin
  <2>2. CASE Holds(p, s)
    <3>1. PICK m \in Of(p) : m.scope = s /\ Replace(m, [m EXCEPT !.group = g, !.active = TRUE])
      BY <1>1, <2>2 DEF SsoLogin
    <3>2. m \in members /\ UNCHANGED <<known, settings, bulk, foreign, agreed>>
      BY <1>1, <2>2, <3>1 DEF SsoLogin, Of
    <3> QED BY <3>1, <3>2, Flagging
  <2>3. CASE ~Holds(p, s)
    <3> DEFINE S == {s}
    <3>1. /\ members' = members \cup {Row(p, x, g, Bank) : x \in S} /\ S \in SUBSET Scopes
          /\ \A x \in S : ~Holds(p, x)
          /\ known' = known \cup {p} /\ agreed' = agreed \cup ({p} \cap foreign)
          /\ UNCHANGED <<settings, bulk, foreign>>
      BY <1>1, <2>1, <2>3 DEF SsoLogin
    <3>2. known \subseteq known' /\ known' \subseteq People /\ p \in known'
      BY <1>0, <3>1
    <3> HIDE DEF s, S
    <3> QED BY <1>0, <3>1, <3>2, Granting
  <2> QED BY <2>2, <2>3
<1>2. CASE SsoRefused(p)
  <2>1. PICK m \in Of(p) : m.scope = connection.scope /\ m.active /\ Replace(m, Deactivated(m))
    BY <1>2 DEF SsoRefused
  <2>2. m \in members /\ m.group \in Groups /\ UNCHANGED <<known, settings, bulk, foreign, agreed>>
    BY <1>0, <1>2 DEF SsoRefused, Of, Membership
  <2>3. Deactivated(m) = [m EXCEPT !.group = m.group, !.active = FALSE]
    BY <1>0, <2>2 DEF Deactivated, Membership
  <2> QED BY <2>1, <2>2, <2>3, Flagging
<1> QED BY <1>1, <1>2

LEMMA IInvStep == IInv /\ [Next]_vars => IInv'
<1> SUFFICES ASSUME IInv, [Next]_vars PROVE IInv'
  OBVIOUS
<1>0. TypeOK /\ "user:manage" \in Masked
  BY DEF IInv, Masked
<1>1. SettingsOnly => IInv'
  BY Setting DEF SettingsOnly
<1>2. ASSUME NEW from \in Scopes, NEW s \in Scopes, NEW p \in People, NEW g \in Groups,
             CreateUser(from, p, s, g) \/ ConfirmExistingUser(from, p, s, g)
      PROVE  IInv'
  BY <1>2, MembersStep
<1>3. ASSUME NEW from \in Scopes, NEW p \in People, NEW S \in SUBSET Scopes, NEW g \in Groups,
             AccessGrant(from, p, S, g)
      PROVE  IInv'
  BY <1>3, MembersStep
<1>4. ASSUME NEW from \in Scopes, NEW m \in members,
             \/ DeactivateUser(from, m) \/ ReactivateUser(from, m)
             \/ \E g \in Groups, s \in Scopes : UpdateUser(from, m, g, s)
      PROVE  IInv'
  BY <1>4, RewriteStep
<1>5. ASSUME NEW from \in Scopes, BeginBulkUpload(from) \/ BeginBulkConfirm(from) PROVE IInv'
  <2>1. PICK kind \in {"upload", "confirm"} : Begin(from, kind)
    BY <1>5 DEF BeginBulkUpload, BeginBulkConfirm
  <2>2. from = Bank
    BY <1>0, <2>1, OnlyTheBankMay DEF Begin
  <2>3. bulk' \in Bulk /\ bulk'.from = Bank
    BY <2>1, <2>2 DEF Begin, Bulk
  <2>4. UNCHANGED <<known, members, settings, foreign, agreed>>
    BY <2>1 DEF Begin
  <2> QED BY <2>3, <2>4 DEF IInv, TypeOK, KnownInv, BulkInv, OneMembershipPerScope,
                            ForeignersAreConfirmed, GrantedByTheBank, settings
<1>6. ASSUME NEW p \in People, NEW s \in Scopes, NEW g \in Groups,
             BulkUploadRow(p, s, g) \/ BulkConfirmRow(p, s, g)
      PROVE  IInv'
  BY <1>6, BulkStep
<1>7. CASE EndBulk
  BY <1>7 DEF EndBulk, IInv, TypeOK, KnownInv, BulkInv, OneMembershipPerScope,
              ForeignersAreConfirmed, GrantedByTheBank, settings
<1>8. ASSUME NEW from \in Scopes, NEW g \in Groups, NEW permissions \in PermissionSets,
             CreateSecurityGroup(from, g, permissions) \/ UpdateSecurityGroup(from, g, permissions)
      PROVE  IInv'
  BY <1>0, <1>1, <1>8, GroupStep
<1>9. Admin \in Groups /\ TRUE \in BOOLEAN /\ Customers \subseteq Scopes /\ Bank \in Scopes
  BY ConstantsAssumption DEF Scopes
<1>10. ASSUME NEW from \in Scopes, NEW b \in BOOLEAN,
              \/ CreateBankConnection(from, b) \/ UpdateBankConnection(from, b)
              \/ SetBankPasswordLogin(from, b)
              \/ \E c \in Customers :
                   \/ CreateCustomerConnection(from, c, b) \/ UpdateCustomerConnection(from, c, b)
                   \/ SetCustomerPasswordLogin(from, c, b)
       PROVE  IInv'
  BY <1>0, <1>1, <1>9, <1>10, PagesUseServices
<1>11. ASSUME NEW from \in Scopes,
              DeactivateBankConnection(from) \/ ReactivateBankConnection(from)
       PROVE  IInv'
  BY <1>0, <1>1, <1>9, <1>11, PagesUseServices
<1>12. ASSUME NEW from \in Scopes, NEW c \in Customers,
              DeactivateCustomerConnection(from, c) \/ ReactivateCustomerConnection(from, c)
       PROVE  IInv'
  BY <1>0, <1>1, <1>9, <1>12, PagesUseServices
<1>13. ASSUME NEW from \in Scopes, NEW g \in Groups,
              \/ AddBankGroupMapping(from, g) \/ RemoveBankGroupMapping(from, g)
              \/ AddCustomerGroupMapping(from, g) \/ RemoveCustomerGroupMapping(from, g)
       PROVE  IInv'
  BY <1>0, <1>1, <1>9, <1>13, PagesUseServices
<1>14. ASSUME NEW p \in People, NEW g \in Groups, SsoLogin(p, g) PROVE IInv'
  BY <1>14, FederationStep
<1>15. ASSUME NEW p \in People, SsoRefused(p) PROVE IInv'
  BY <1>15, FederationStep
<1>16. CASE UNCHANGED vars
  BY <1>16 DEF vars, IInv, TypeOK, KnownInv, BulkInv, OneMembershipPerScope,
               ForeignersAreConfirmed, GrantedByTheBank, settings
<1> QED BY <1>2, <1>3, <1>4, <1>5, <1>6, <1>7, <1>8, <1>10, <1>11, <1>12, <1>13, <1>14, <1>15,
           <1>16, Zenon
        DEF Next

LEMMA IInvInit == Init => IInv
<1> SUFFICES ASSUME Init PROVE IInv
  OBVIOUS
<1> DEFINE root == [person |-> Root, scope |-> Bank, group |-> Admin, active |-> TRUE, from |-> Bank]
<1>1. root \in Membership /\ root.person = Root /\ root.from = Bank
  BY ConstantsAssumption DEF Membership, Scopes
<1>2. members = {root} /\ Root \notin foreign /\ foreign \subseteq People /\ known = {Root} \cup foreign
  BY DEF Init
<1> HIDE DEF root
<1>3. OneMembershipPerScope /\ ForeignersAreConfirmed /\ GrantedByTheBank
  BY <1>1, <1>2 DEF OneMembershipPerScope, ForeignersAreConfirmed, GrantedByTheBank
<1>4. TypeOK
  BY <1>1, <1>2, ConstantsAssumption DEF Init, TypeOK
<1> QED BY <1>2, <1>3, <1>4 DEF Init, IInv, KnownInv, BulkInv

LEMMA Invariance == Spec => []IInv
BY IInvInit, IInvStep, PTL DEF Spec

-----------------------------------------------------------------------------
(* The theorems.                                                           *)

\* The state is well typed and nobody holds a scope twice: adding, confirming,
\* several scopes at once, moving to another scope, bulk loads that interleave
\* with all of these, and federation each look the pair up before they write it.
THEOREM ScopesAreKeys == Spec => []MembershipsAgree
<1>1. IInv => MembershipsAgree
  BY DEF IInv, MembershipsAgree
<1> QED BY <1>1, Invariance, PTL

\* An identity of another organization is in the bank only after an administrator
\* answered the confirmation or the identity provider vouched for it
\* (UserService.add_user, confirm_existing_user, SsoService), for any number of
\* people and any interleaving with bulk loads.
THEOREM NoSilentAttachment == Spec => []ForeignersAreConfirmed
<1>1. IInv => ForeignersAreConfirmed
  BY DEF IInv
<1> QED BY <1>1, Invariance, PTL

\* No membership was ever granted from a session scoped to a customer, for any
\* permissions groups may be edited to: the mask of tenant_context covers
\* user:manage, and a bulk load keeps the scope it was begun from.
THEOREM TheBankGrants == Spec => []GrantedByTheBank
<1>1. IInv => GrantedByTheBank
  BY DEF IInv
<1> QED BY <1>1, Invariance, PTL
=============================================================================
