------------------------------ MODULE MCAccess ------------------------------
EXTENDS Access, TLC

CONSTANTS t1, t2

Says(role, roles, tenant, actorTenant, act) ==
    [role |-> role, roles |-> roles \cup {"offline_access"}, tenant |-> tenant,
     actorTenant |-> actorTenant, act |-> act]

\* Both kinds of tenant members, an impersonated administrator, system
\* administrators without a tenant and with one, an ambiguous token.
MCClaims ==
    {Says("offline_access", {"tenant_admin"}, t1, Null, "none"),
     Says("tenant_user", {"tenant_admin"}, t1, Null, "self"),
     Says(Null, {"tenant_admin"}, t1, Null, "other"),
     Says("system_admin", {}, Null, Null, "none"),
     Says(Null, {"system_admin"}, Null, t2, "none"),
     Says(Null, {"tenant_admin", "tenant_user"}, t1, Null, "none")}

\* All routes that decorators tell apart.
MCRoutes == AllRoutes

\* The two requests are alike.
Symmetry == Permutations(Requests)

=============================================================================
