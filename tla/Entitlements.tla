---------------------------- MODULE Entitlements ----------------------------
(***************************************************************************)
(* Who may do what in one bank: memberships and the security groups that   *)
(* govern them, bulk loads of users, and federated sign-in, which grants   *)
(* and takes memberships away by itself (services/user_service.py,         *)
(* security_group_service.py, sso_service.py and the pages in front of     *)
(* them, web/routers/users.py, security_groups.py, sso_settings.py).       *)
(*                                                                         *)
(* A membership has a scope: the whole bank, or one of its customers.  An  *)
(* action of an administrator names the scope of the session it came from. *)
(* A request is one transaction, except a bulk load, which commits row by  *)
(* row: requests of others come in between, and it may stop anywhere.      *)
(***************************************************************************)
EXTENDS Naturals, FiniteSets

CONSTANTS
  People,
  Root,           \* the administrator a bank is provisioned with
  Customers,
  Bank,           \* the scope of the whole bank
  Groups,         \* security groups
  Admin,          \* of these, the one everything is granted to at first
  PermissionSets, \* what a group's permissions may be edited to
  MaxChanges,     \* bound on the changes of groups, connection and password settings
  None

Scopes == Customers \cup {Bank}

\* Of PERMISSION_CATALOG, the permissions these pages ask for ...
Permissions == {"user:manage", "security_group:manage", "tenant:manage", "customer:manage", "work"}

\* ... and the ones a session scoped to a customer never has, whatever its group
\* says (CUSTOMER_SCOPE_MASKED_PERMISSIONS).
Masked == {"user:manage", "security_group:manage", "tenant:manage", "customer:manage"}

ASSUME ConstantsAssumption ==
  /\ Root \in People /\ Admin \in Groups /\ Bank \notin Customers
  /\ PermissionSets \subseteq SUBSET Permissions
  /\ MaxChanges \in Nat
  /\ None \notin Groups

\* A tenant_membership row.  from (history): the scope it was granted from.
Membership == [person: People, scope: Scopes, group: Groups, active: BOOLEAN, from: Scopes]

\* An sso_connection row with the groups its mappings lead to.
Connection == [scope: Scopes, active: BOOLEAN, auto: BOOLEAN, groups: SUBSET Groups]

Bulk == [kind: {"upload", "confirm"}, from: Scopes]

VARIABLES
  known,      \* people with a user row, in this organization or another
  members,    \* tenant_membership
  grants,     \* security_group.permissions, None for a group not there yet
  connection, \* sso_connection, or None
  passwords,  \* scopes that still take passwords
  bulk,       \* the bulk load being handled, or None
  changes,    \* history: changes of the settings so far
  foreign,    \* history: people known before, from another organization only
  agreed      \* history: of these, whom an administrator or the bank's identity
              \* provider explicitly let in

settings == <<grants, connection, passwords, changes>>
vars == <<known, members, settings, bulk, foreign, agreed>>

TypeOK ==
  /\ known \subseteq People
  /\ members \subseteq Membership
  /\ grants \in [Groups -> (SUBSET Permissions) \cup {None}]
  /\ connection \in Connection \cup {None}
  /\ passwords \subseteq Scopes
  /\ bulk \in Bulk \cup {None}
  /\ changes \in 0..MaxChanges
  /\ foreign \subseteq People /\ agreed \subseteq foreign

\* A bank is provisioned with its groups and one administrator.
Init ==
  /\ foreign \in SUBSET (People \ {Root})
  /\ known = {Root} \cup foreign
  /\ members = {[person |-> Root, scope |-> Bank, group |-> Admin, active |-> TRUE, from |-> Bank]}
  /\ grants = [g \in Groups |-> IF g = Admin THEN Permissions ELSE None]
  /\ connection = None
  /\ passwords = Scopes
  /\ bulk = None
  /\ changes = 0
  /\ agreed = {}

-----------------------------------------------------------------------------
(* What a session may do.                                                  *)

\* A mutant: a customer's session keeps what its group says.
Effective_Unmasked(scope, group) == grants[group]

Effective(scope, group) == IF scope = Bank THEN grants[group] ELSE grants[group] \ Masked

\* Who a request comes from: group and membership are read again every time.
TenantContext(m) == [customer |-> m.scope, permissions |-> Effective(m.scope, m.group)]

\* Somebody's session of that scope has the permission.
May(scope, permission) ==
  \E m \in members :
    m.active /\ TenantContext(m).customer = scope /\ permission \in TenantContext(m).permissions

-----------------------------------------------------------------------------
(* Memberships.                                                            *)

Of(p) == {m \in members : m.person = p}
Holds(p, s) == \E m \in Of(p) : m.scope = s
Exists(g) == grants[g] # None

Row(p, s, g, from) == [person |-> p, scope |-> s, group |-> g, active |-> TRUE, from |-> from]

\* A mutant: whoever has an account anywhere is simply added.
AddUserOutcome_NoConfirmation(p, s) == IF Holds(p, s) THEN "already_member" ELSE "created"

\* A new person and one already in this bank are added at once; an identity
\* known from another organization only is not.
AddUserOutcome(p, s) ==
  IF Holds(p, s) THEN "already_member"
  ELSE IF p \in known /\ Of(p) = {} THEN "needs_confirmation"
  ELSE "created"

CreateUser(from, p, s, g) ==
  /\ May(from, "user:manage")
  /\ Exists(g)
  /\ AddUserOutcome(p, s) = "created"
  /\ members' = members \cup {Row(p, s, g, from)}
  /\ known' = known \cup {p}
  /\ UNCHANGED <<settings, bulk, foreign, agreed>>

\* The page that asks whether the identity may come in was answered; an existing
\* membership is left as it is.
Confirmed(p, s, g, from) ==
  /\ p \in known /\ Exists(g)
  /\ members' = IF Holds(p, s) THEN members ELSE members \cup {Row(p, s, g, from)}
  /\ agreed' = agreed \cup ({p} \cap foreign)

ConfirmExistingUser(from, p, s, g) ==
  /\ May(from, "user:manage")
  /\ Confirmed(p, s, g, from)
  /\ UNCHANGED <<known, settings, bulk, foreign>>

Granted(p, S) == {s \in S : AddUserOutcome(p, s) = "created"}

\* Several scopes at once, each as if added alone; all of it is one transaction.
AccessGrant(from, p, S, g) ==
  /\ May(from, "user:manage")
  /\ S # {} /\ Exists(g)
  /\ members' = members \cup {Row(p, s, g, from) : s \in Granted(p, S)}
  /\ known' = IF Granted(p, S) = {} THEN known ELSE known \cup {p}
  /\ UNCHANGED <<settings, bulk, foreign, agreed>>

Replace(m, new) == members' = (members \ {m}) \cup {new}
Deactivated(m) == [m EXCEPT !.active = FALSE]
Reactivated(m) == [m EXCEPT !.active = TRUE]

DeactivateUser(from, m) ==
  /\ May(from, "user:manage")
  /\ Replace(m, Deactivated(m))
  /\ UNCHANGED <<known, settings, bulk, foreign, agreed>>

ReactivateUser(from, m) ==
  /\ May(from, "user:manage")
  /\ Replace(m, Reactivated(m))
  /\ UNCHANGED <<known, settings, bulk, foreign, agreed>>

\* A mutant: the person's other memberships are not looked at.
UpdateUser_NoConflict(from, m, g, s) ==
  /\ May(from, "user:manage")
  /\ Exists(g)
  /\ Replace(m, [m EXCEPT !.group = g, !.scope = s])
  /\ UNCHANGED <<known, settings, bulk, foreign, agreed>>

\* The person holds that scope by a different membership.
Conflict(m, s) == \E other \in Of(m.person) \ {m} : other.scope = s

\* Another group, another scope.
UpdateUser(from, m, g, s) ==
  /\ May(from, "user:manage")
  /\ Exists(g)
  /\ ~Conflict(m, s)
  /\ Replace(m, [m EXCEPT !.group = g, !.scope = s])
  /\ UNCHANGED <<known, settings, bulk, foreign, agreed>>

-----------------------------------------------------------------------------
(* Bulk loads of users: a file, or the confirmations a file left over.     *)

Begin(from, kind) ==
  /\ bulk = None
  /\ May(from, "user:manage")
  /\ bulk' = [kind |-> kind, from |-> from]
  /\ UNCHANGED <<known, members, settings, foreign, agreed>>

BeginBulkUpload(from) == Begin(from, "upload")
BeginBulkConfirm(from) == Begin(from, "confirm")

\* One row of the file: committed when it created a membership, else rolled back.
\* The administrator's permission was looked at when the load began.
BulkUploadRow(p, s, g) ==
  /\ bulk # None /\ bulk.kind = "upload"
  /\ Exists(g)
  /\ AddUserOutcome(p, s) = "created"
  /\ members' = members \cup {Row(p, s, g, bulk.from)}
  /\ known' = known \cup {p}
  /\ UNCHANGED <<settings, bulk, foreign, agreed>>

BulkConfirmRow(p, s, g) ==
  /\ bulk # None /\ bulk.kind = "confirm"
  /\ Confirmed(p, s, g, bulk.from)
  /\ UNCHANGED <<known, settings, bulk, foreign>>

\* The file is at its end, or the process stopped: the committed rows stay.
EndBulk ==
  /\ bulk # None
  /\ bulk' = None
  /\ UNCHANGED <<known, members, settings, foreign, agreed>>

-----------------------------------------------------------------------------
(* Security groups.                                                        *)

Change == changes < MaxChanges /\ changes' = changes + 1

CreateSecurityGroup(from, g, permissions) ==
  /\ May(from, "security_group:manage")
  /\ ~Exists(g)
  /\ grants' = [grants EXCEPT ![g] = permissions]
  /\ UNCHANGED <<known, members, connection, passwords, bulk, foreign, agreed>>
  /\ Change

\* Nothing keeps an administrator from taking their own permissions away.
UpdateSecurityGroup(from, g, permissions) ==
  /\ May(from, "security_group:manage")
  /\ Exists(g)
  /\ grants' = [grants EXCEPT ![g] = permissions]
  /\ UNCHANGED <<known, members, connection, passwords, bulk, foreign, agreed>>
  /\ Change

-----------------------------------------------------------------------------
(* Federation.  The bank's page and a customer's page share the services   *)
(* but not the checks: see where each asks for the connection's scope.     *)

CreateConnection(s, auto) ==
  /\ connection = None
  /\ connection' = [scope |-> s, active |-> TRUE, auto |-> auto, groups |-> {}]
  /\ UNCHANGED <<known, members, grants, passwords, bulk, foreign, agreed>>
  /\ Change

CreateBankConnection(from, auto) == May(from, "tenant:manage") /\ CreateConnection(Bank, auto)

CreateCustomerConnection(from, c, auto) == May(from, "customer:manage") /\ CreateConnection(c, auto)

UpdateConnection(s, auto) ==
  /\ connection # None
  /\ connection' = [connection EXCEPT !.scope = s, !.auto = auto]
  /\ UNCHANGED <<known, members, grants, passwords, bulk, foreign, agreed>>
  /\ Change

\* Any connection of the bank, which is then one for the whole bank.
UpdateBankConnection(from, auto) == May(from, "tenant:manage") /\ UpdateConnection(Bank, auto)

UpdateCustomerConnection(from, c, auto) ==
  /\ May(from, "customer:manage")
  /\ connection # None /\ connection.scope = c
  /\ UpdateConnection(c, auto)

SetActive(active) ==
  /\ connection # None
  /\ connection' = [connection EXCEPT !.active = active]
  /\ UNCHANGED <<known, members, grants, passwords, bulk, foreign, agreed>>
  /\ Change

DeactivateBankConnection(from) == May(from, "tenant:manage") /\ SetActive(FALSE)
ReactivateBankConnection(from) == May(from, "tenant:manage") /\ SetActive(TRUE)

SetCustomerActive(from, c, active) ==
  /\ May(from, "customer:manage")
  /\ connection # None /\ connection.scope = c
  /\ SetActive(active)

DeactivateCustomerConnection(from, c) == SetCustomerActive(from, c, FALSE)
ReactivateCustomerConnection(from, c) == SetCustomerActive(from, c, TRUE)

Map(groups) ==
  /\ connection' = [connection EXCEPT !.groups = groups]
  /\ UNCHANGED <<known, members, grants, passwords, bulk, foreign, agreed>>
  /\ Change

Add(g) == connection # None /\ Exists(g) /\ Map(connection.groups \cup {g})
Remove(g) == connection # None /\ Map(connection.groups \ {g})

\* Either page maps groups of any connection.
AddBankGroupMapping(from, g) == May(from, "tenant:manage") /\ Add(g)
RemoveBankGroupMapping(from, g) == May(from, "tenant:manage") /\ Remove(g)
AddCustomerGroupMapping(from, g) == May(from, "customer:manage") /\ Add(g)
RemoveCustomerGroupMapping(from, g) == May(from, "customer:manage") /\ Remove(g)

\* Connections the login page of that scope offers.
LoginConnection(s) ==
  connection # None /\ connection.scope = s /\ connection.active /\ connection.groups # {}

\* Passwords are turned off only where there is another way in.
SetPasswordLogin(s, enabled) ==
  /\ enabled \/ LoginConnection(s)
  /\ passwords' = IF enabled THEN passwords \cup {s} ELSE passwords \ {s}
  /\ UNCHANGED <<known, members, grants, connection, bulk, foreign, agreed>>
  /\ Change

SetBankPasswordLogin(from, enabled) == May(from, "tenant:manage") /\ SetPasswordLogin(Bank, enabled)

SetCustomerPasswordLogin(from, c, enabled) ==
  May(from, "customer:manage") /\ SetPasswordLogin(c, enabled)

\* The provider names a group that is mapped: the membership follows it, one
\* that was deactivated included; without one it is made, if the connection may.
SsoLogin(p, g) ==
  /\ connection # None /\ connection.active /\ g \in connection.groups
  /\ LET s == connection.scope IN
     IF Holds(p, s)
       THEN /\ \E m \in Of(p) : m.scope = s /\ Replace(m, [m EXCEPT !.group = g, !.active = TRUE])
            /\ UNCHANGED <<known, agreed>>
       ELSE /\ connection.auto
            /\ members' = members \cup {Row(p, s, g, Bank)}
            /\ known' = known \cup {p}
            /\ agreed' = agreed \cup ({p} \cap foreign)
  /\ UNCHANGED <<settings, bulk, foreign>>

\* It names none: the membership of this scope is taken away.
SsoRefused(p) ==
  /\ connection # None /\ connection.active
  /\ \E m \in Of(p) : m.scope = connection.scope /\ m.active /\ Replace(m, Deactivated(m))
  /\ UNCHANGED <<known, settings, bulk, foreign, agreed>>

-----------------------------------------------------------------------------
Next ==
  \/ \E from, s \in Scopes, p \in People, g \in Groups :
       CreateUser(from, p, s, g) \/ ConfirmExistingUser(from, p, s, g)
  \/ \E from \in Scopes, p \in People, S \in SUBSET Scopes, g \in Groups : AccessGrant(from, p, S, g)
  \/ \E from \in Scopes, m \in members :
       \/ DeactivateUser(from, m) \/ ReactivateUser(from, m)
       \/ \E g \in Groups, s \in Scopes : UpdateUser(from, m, g, s)
  \/ \E from \in Scopes : BeginBulkUpload(from) \/ BeginBulkConfirm(from)
  \/ \E p \in People, s \in Scopes, g \in Groups : BulkUploadRow(p, s, g) \/ BulkConfirmRow(p, s, g)
  \/ EndBulk
  \/ \E from \in Scopes, g \in Groups, permissions \in PermissionSets :
       CreateSecurityGroup(from, g, permissions) \/ UpdateSecurityGroup(from, g, permissions)
  \/ \E from \in Scopes, b \in BOOLEAN :
       \/ CreateBankConnection(from, b) \/ UpdateBankConnection(from, b) \/ SetBankPasswordLogin(from, b)
       \/ \E c \in Customers :
            \/ CreateCustomerConnection(from, c, b) \/ UpdateCustomerConnection(from, c, b)
            \/ SetCustomerPasswordLogin(from, c, b)
  \/ \E from \in Scopes :
       \/ DeactivateBankConnection(from) \/ ReactivateBankConnection(from)
       \/ \E c \in Customers : DeactivateCustomerConnection(from, c) \/ ReactivateCustomerConnection(from, c)
       \/ \E g \in Groups :
            \/ AddBankGroupMapping(from, g) \/ RemoveBankGroupMapping(from, g)
            \/ AddCustomerGroupMapping(from, g) \/ RemoveCustomerGroupMapping(from, g)
  \/ \E p \in People, g \in Groups : SsoLogin(p, g)
  \/ \E p \in People : SsoRefused(p)

Spec == Init /\ [][Next]_vars

-----------------------------------------------------------------------------
(* Properties.                                                             *)

\* Nobody holds a scope twice: every request looks its membership up by person
\* and scope and expects at most one.  For the bank's own scope the database
\* does not help (NULLs are distinct), the services must.
OneMembershipPerScope ==
  \A m, n \in members : m.person = n.person /\ m.scope = n.scope => m = n

\* Types, and the key of the memberships.
MembershipsAgree == TypeOK /\ OneMembershipPerScope

\* An identity another organization brought into being is in this bank only if
\* an administrator confirmed it or the identity provider vouched for it: no
\* order of adding, loading and moving attaches it silently.
ForeignersAreConfirmed == \A m \in members : m.person \in foreign => m.person \in agreed

\* All access comes from a session of the whole bank or from federation, never
\* from a session scoped to a customer, however groups are edited and whoever is
\* put in them.
GrantedByTheBank == \A m \in members : m.from = Bank
=============================================================================
