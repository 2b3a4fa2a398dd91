SPECIFICATION Spec
CONSTANTS
  People = {root, ann}
  Root = root
  Customers = {c1}
  Bank = bank
  Groups = {admins, clerks}
  Admin = admins
  PermissionSets <- MCPermissionSets
  MaxChanges = 3
  None = None
INVARIANTS MembershipsAgree ForeignersAreConfirmed GrantedByTheBank
CHECK_DEADLOCK FALSE
