--------------------------- MODULE MCEntitlements ---------------------------
\* Entitlements for one bank with one customer, its administrator and one more
\* person, who may or may not be known from another organization.
EXTENDS Entitlements

MCPermissionSets == {Permissions, {"work"}}
=============================================================================
