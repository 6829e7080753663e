------------------------------- MODULE Access -------------------------------
(***************************************************************************)
(* What an HTTP request meets on its way: JwtStrategy makes a user of the  *)
(* claims of its token, four guards refuse it or let it pass, the handler  *)
(* runs, and AuditInterceptor writes an entry after the answer, without    *)
(* anybody waiting for it.  The guards read and write tables between two   *)
(* awaits while other requests suspend, delete and revive tenants.         *)
(***************************************************************************)
EXTENDS Naturals, FiniteSets

CONSTANTS
    Tenants,     \* ids of tenants
    Claims,      \* what tokens say, after their signature is checked
    Routes,      \* the routes that requests ask for
    Requests,    \* HTTP requests
    Unknown,     \* an id in a query that is no tenant's
    MaxMishaps,  \* bound: refused writes and requests that die
    Null         \* an absent claim, tenant, user, action or request

ASSUME MishapsAssumption == MaxMishaps \in Nat

Roles == {"system_admin", "tenant_admin", "tenant_user"}

\* Strings in role claims: Keycloak adds roles of its own.
RoleNames == Roles \cup {"offline_access"}

\* act: the claim is absent, names the subject itself, or somebody else.
ClaimSets == [role : RoleNames \cup {Null}, roles : SUBSET RoleNames,
              tenant : Tenants \cup {Null}, actorTenant : Tenants \cup {Null},
              act : {"none", "self", "other"}]

Users == [role : Roles, tenant : Tenants \cup {Null},
          actorTenant : Tenants \cup {Null}, impersonating : BOOLEAN]

TenantActions == {"CREATE_TENANT", "UPDATE_TENANT", "DELETE_TENANT"}

\* The actions that differ to this module: those that change tenants, those
\* whose body names one, and "OTHER".
Actions == TenantActions \cup {"CREATE_GATEWAY", "OTHER"}

RouteSpecs == [policy : {"public", "admin", "tenant", "none"},
               roles : SUBSET Roles, blocked : BOOLEAN,
               audit : Actions \cup {Null}]

-----------------------------------------------------------------------------
(* The decorators of the controllers.                                      *)

TenantAdmin == {"tenant_admin"}

TenantMembers == {"tenant_admin", "tenant_user"}

Route(policy, roles) ==
    [policy |-> policy, roles |-> roles, blocked |-> FALSE, audit |-> Null]

Public == Route("public", {})

AdminOnly == Route("admin", {})

TenantScoped(roles) == Route("tenant", roles)

Audit(route, action) == [route EXCEPT !.audit = action]

BlockImpersonation(route) == [route EXCEPT !.blocked = TRUE]

Changes(roles) == Audit(TenantScoped(roles), "OTHER")

TenantsController ==
    [getTenants |-> AdminOnly, getTenantUsers |-> AdminOnly,
     createTenant |-> Audit(AdminOnly, "CREATE_TENANT"),
     updateTenant |-> Audit(AdminOnly, "UPDATE_TENANT"),
     deleteTenant |-> Audit(AdminOnly, "DELETE_TENANT")]

AdminGatewaysController ==
    [getAdminGateways |-> AdminOnly,
     addGateway |-> Audit(AdminOnly, "CREATE_GATEWAY")]

AlertsController ==
    [getAlerts |-> TenantScoped(TenantMembers),
     getAlertsConfig |-> TenantScoped(TenantMembers),
     setDefaultAlertsConfig |-> Changes(TenantAdmin),
     setGatewayAlertsConfig |-> Changes(TenantAdmin),
     deleteGatewayAlertsConfig |-> Changes(TenantAdmin)]

ApiClientController ==
    [createApiClient |-> Changes(TenantAdmin),
     getApiClients |-> TenantScoped(TenantAdmin),
     deleteApiClient |-> Changes(TenantAdmin)]

AuditLogController == [getAuditLogs |-> TenantScoped(TenantAdmin)]

AuthController ==
    [getMe |-> Route("none", {}), getTenantStatus |-> Route("none", {}),
     impersonate |-> AdminOnly]

CommandController ==
    [sendConfig |-> Changes(TenantAdmin), sendFirmware |-> Changes(TenantAdmin),
     getStatus |-> TenantScoped(TenantAdmin)]

CostsController == [getTenantCost |-> TenantScoped(TenantAdmin)]

GatewaysController ==
    [getGateways |-> TenantScoped(TenantMembers),
     getGatewayById |-> TenantScoped(TenantMembers),
     updateGateway |-> BlockImpersonation(Changes(TenantAdmin)),
     deleteGateway |-> BlockImpersonation(Changes(TenantAdmin))]

KeysController == [getKeys |-> BlockImpersonation(TenantScoped({}))]

ProvisioningController == [validate |-> Public, complete |-> Public]

ThresholdsController ==
    [getThresholds |-> TenantScoped(TenantMembers),
     setDefaultThreshold |-> Changes(TenantAdmin),
     setSensorThreshold |-> Changes(TenantAdmin),
     deleteSensorThreshold |-> Changes(TenantAdmin),
     deleteThresholdType |-> Changes(TenantAdmin)]

UsersController ==
    [getUserById |-> TenantScoped(TenantAdmin),
     getUsers |-> TenantScoped(TenantAdmin),
     createUser |-> Changes(TenantAdmin), updateUser |-> Changes(TenantAdmin),
     deleteUsers |-> Changes(TenantAdmin)]

Of(controller) == {controller[name] : name \in DOMAIN controller}

\* AppController and MetricsController answer anybody, like provisioning.
AllRoutes ==
    Of(TenantsController) \cup Of(AdminGatewaysController)
    \cup Of(AlertsController) \cup Of(ApiClientController)
    \cup Of(AuditLogController) \cup Of(AuthController)
    \cup Of(CommandController) \cup Of(CostsController)
    \cup Of(GatewaysController) \cup Of(KeysController)
    \cup Of(ProvisioningController) \cup Of(ThresholdsController)
    \cup Of(UsersController)

ASSUME DataAssumption ==
    /\ Claims \subseteq ClaimSets
    /\ Routes \subseteq RouteSpecs
    /\ Routes \subseteq AllRoutes

-----------------------------------------------------------------------------

\* The ids that a request may name, of tenants or not.
Ids == Tenants \cup {Unknown}

Request == [pc : {"guarding", "lifting", "blocking", "handling",
                  "reviving", "logging", "done", "refused", "blocked", "failed"},
            user : Users \cup {Null}, route : RouteSpecs,
            target : Tenants \cup {Null}, query : Ids \cup {Null}]

Entry == [request : Requests, kind : {"success", "blocked"}, tenant : Tenants]

ASSUME NullAssumption ==
    /\ Null \notin Ids /\ Null \notin Users /\ Null \notin Request
    /\ Unknown \notin Tenants
    /\ Null \notin RoleNames /\ Null \notin Actions

VARIABLES
    tenants,  \* table tenants: "none" before the row, "deleted" after it,
              \* "lapsed" for a suspension whose end has passed
    audits,   \* table audits
    req,      \* per request, how far it is, or Null
    mishaps,  \* failures so far
    lost,     \* history: requests whose entry failed with the database
    gone,     \* history: tenants that were deleted
    fit       \* history: requests whose tenant was there and not suspended
              \* at some moment since they arrived

vars == <<tenants, audits, req, mishaps, lost, gone, fit>>

TenantStates == {"none", "active", "suspended", "lapsed", "deleted"}

Exists(id) ==
    id \in Tenants /\ tenants[id] \in {"active", "suspended", "lapsed"}

Init ==
    /\ tenants \in [Tenants -> {"none", "active", "suspended"}]
    /\ audits = {}
    /\ req = [r \in Requests |-> Null]
    /\ mishaps = 0
    /\ lost = {}
    /\ gone = {}
    /\ fit = {}

Mishap ==
    /\ mishaps < MaxMishaps
    /\ mishaps' = mishaps + 1

-----------------------------------------------------------------------------
(* JwtStrategy.validate.                                                   *)

\* A mutant: an explicit claim is taken as it is.
EffectiveRoleVerbatim(c) ==
    IF c.role # Null THEN c.role
    ELSE IF \E x \in Roles : c.roles \cap Roles = {x}
         THEN CHOOSE x \in Roles : c.roles \cap Roles = {x}
         ELSE Null

\* extractEffectiveRole: the explicit claim, or the only role among those of
\* client and realm; Null for no role and for more than one.
EffectiveRole(c) ==
    IF c.role \in Roles THEN c.role
    ELSE IF \E x \in Roles : c.roles \cap Roles = {x}
         THEN CHOOSE x \in Roles : c.roles \cap Roles = {x}
         ELSE Null

ValidClaims(c) ==
    /\ EffectiveRole(c) # Null
    /\ EffectiveRole(c) # "system_admin" => c.tenant # Null

UserOf(c) ==
    [role |-> EffectiveRole(c), tenant |-> c.tenant,
     actorTenant |-> IF c.actorTenant # Null THEN c.actorTenant ELSE c.tenant,
     impersonating |-> c.act = "other"]

-----------------------------------------------------------------------------
(* The guards, in the order in which AuthModule provides them.             *)

\* The tenant of the session, or of the actor.
SessionTenant(u) == IF u.tenant # Null THEN u.tenant ELSE u.actorTenant

\* A mutant: impersonated requests are refused without a trace.
AfterPolicyQuiet(u, route) ==
    IF route.roles # {} /\ u.role \notin route.roles THEN "refused"
    ELSE IF route.blocked /\ u.impersonating THEN "blocked"
    ELSE "handling"

\* RolesGuard and then BlockImpersonationGuard.
AfterPolicy(u, route) ==
    IF route.roles # {} /\ u.role \notin route.roles THEN "refused"
    ELSE IF ~(route.blocked /\ u.impersonating) THEN "handling"
    ELSE IF SessionTenant(u) # Null THEN "blocking"
    ELSE "blocked"

\* AccessPolicyGuard up to its first await.
AfterToken(u, route) ==
    CASE route.policy = "tenant" ->
            IF u.tenant # Null THEN "guarding" ELSE "refused"
      [] route.policy = "admin" ->
            IF u.role = "system_admin" THEN AfterPolicy(u, route) ELSE "refused"
      [] OTHER -> AfterPolicy(u, route)

\* The tenant that the handler is asked to act on, by a parameter of the path
\* or by a validated body; other routes name none.
Targets(route) ==
    IF route.audit \in {"UPDATE_TENANT", "DELETE_TENANT", "CREATE_GATEWAY"}
    THEN Tenants ELSE {Null}

\* The id that a query may name besides, which no handler of these routes
\* reads or checks; the body of a deletion, which has no DTO, does the same.
\* Elsewhere nobody reads it: the guard refuses the user or requires a
\* tenant, nothing is audited, or the body of a new gateway comes before it.
Queries(c, route) ==
    IF route.audit \in TenantActions /\ EffectiveRole(c) = "system_admin"
    THEN Ids \cup {Null} ELSE {Null}

\* A token was issued when its tenants existed, and an id that a query takes
\* from a tenant is known since then.  JwtAuthGuard lets public routes pass
\* and looks at no token.
Arrive(r, c, route, target, query) ==
    /\ req[r] = Null
    /\ \A t \in {c.tenant, c.actorTenant, query} \ {Null, Unknown} :
         tenants[t] # "none"
    /\ LET anonymous == route.policy = "public" \/ ~ValidClaims(c)
           pc == IF route.policy = "public" THEN "handling"
                 ELSE IF ~ValidClaims(c) THEN "refused"
                 ELSE AfterToken(UserOf(c), route)
       IN  req' = [req EXCEPT ![r] =
                     [pc |-> pc, route |-> route, target |-> target,
                      query |-> query, user |-> IF anonymous THEN Null ELSE UserOf(c)]]
    /\ UNCHANGED <<tenants, audits, mishaps, lost, gone>>

At(r, pc) == req[r] # Null /\ req[r].pc = pc

Goto(r, pc) == req' = [req EXCEPT ![r].pc = pc]

TenantOf(r) == req[r].user.tenant

\* A mutant: an expired suspension is lifted, a running one is not looked at.
LoadTenantLenient(r) ==
    /\ At(r, "guarding")
    /\ Goto(r, IF ~Exists(TenantOf(r)) THEN "refused"
               ELSE IF tenants[TenantOf(r)] = "lapsed" THEN "lifting"
               ELSE AfterPolicy(req[r].user, req[r].route))
    /\ UNCHANGED <<tenants, audits, mishaps, lost, gone>>

\* AccessPolicyGuard.canActivate with the row it has read.
LoadTenant(r) ==
    /\ At(r, "guarding")
    /\ Goto(r, IF tenants[TenantOf(r)] = "active"
               THEN AfterPolicy(req[r].user, req[r].route)
               ELSE IF tenants[TenantOf(r)] = "lapsed" THEN "lifting"
               ELSE "refused")
    /\ UNCHANGED <<tenants, audits, mishaps, lost, gone>>

\* What the request has just changed stays, and it fails with 500 none the
\* less: the database's answer is lost, or a later call throws.
FailLate(r) == Mishap /\ Goto(r, "failed")

\* The save of an entity that was loaded before: it overwrites a suspension
\* made meanwhile, and inserts the row again when it has gone.
LiftSuspension(r) ==
    /\ At(r, "lifting")
    /\ tenants' = [tenants EXCEPT ![TenantOf(r)] = "active"]
    /\ \/ /\ Goto(r, AfterPolicy(req[r].user, req[r].route))
          /\ UNCHANGED mishaps
       \/ FailLate(r)
    /\ UNCHANGED <<audits, lost, gone>>

\* BlockImpersonationGuard: the entry is awaited before the refusal; when
\* it cannot be written, or nobody learns that it was, the request fails
\* with 500.
RecordBlocked(r) ==
    /\ At(r, "blocking")
    /\ LET t == SessionTenant(req[r].user)
       IN  \/ /\ Exists(t)
              /\ audits' = audits \cup
                   {[request |-> r, kind |-> "blocked", tenant |-> t]}
              /\ \/ Goto(r, "blocked") /\ UNCHANGED mishaps
                 \/ FailLate(r)
           \/ /\ Exists(t) => Mishap
              /\ ~Exists(t) => UNCHANGED mishaps
              /\ Goto(r, "failed")
              /\ UNCHANGED audits
    /\ UNCHANGED <<tenants, lost, gone>>

\* The database refuses to load or save a tenant: the request fails with 500.
DatabaseFails(r) ==
    /\ \E pc \in {"guarding", "lifting", "reviving"} : At(r, pc)
    /\ Mishap
    /\ Goto(r, "failed")
    /\ UNCHANGED <<tenants, audits, lost, gone>>

-----------------------------------------------------------------------------
(* Handlers and AuditInterceptor.                                          *)

\* A mutant: the query comes before the tenant of the session.
AuditIdByQuery(q) ==
    IF q.user = Null THEN Null
    ELSE IF q.query # Null THEN q.query
    ELSE IF SessionTenant(q.user) # Null THEN SessionTenant(q.user)
    ELSE q.target

\* resolveTenantId: effective, actor, then what body, query, parameters or
\* answer name.
AuditId(q) ==
    IF q.user = Null THEN Null
    ELSE IF SessionTenant(q.user) # Null THEN SessionTenant(q.user)
    ELSE IF q.query # Null THEN q.query
    ELSE q.target

Succeed(r, target) ==
    LET new == [req[r] EXCEPT !.target = target]
        logged == new.route.audit # Null /\ AuditId(new) # Null
    IN  req' = [req EXCEPT ![r] =
                  [new EXCEPT !.pc = IF logged THEN "logging" ELSE "done"]]

\* The answer to a request that has changed something.
Answer(r, target) == (Succeed(r, target) /\ UNCHANGED mishaps) \/ FailLate(r)

CreateTenant(r) ==
    /\ At(r, "handling") /\ req[r].route.audit = "CREATE_TENANT"
    /\ \E t \in Tenants :
         /\ tenants[t] = "none"
         /\ tenants' = [tenants EXCEPT ![t] = "active"]
         /\ Answer(r, t)
    /\ UNCHANGED <<audits, lost, gone>>

\* Status, name or interval; the steps of updateTenant are in Suspension.
UpdateTenant(r) ==
    /\ At(r, "handling") /\ req[r].route.audit = "UPDATE_TENANT"
    /\ LET t == req[r].target
       IN  /\ Exists(t)
           /\ \E s \in {"active", "suspended", tenants[t]} :
                tenants' = [tenants EXCEPT ![t] = s]
           /\ Answer(r, t)
    /\ UNCHANGED <<audits, lost, gone>>

\* The audit entries of the tenant go with it; deleteTenant is in Accounts.
DeleteTenant(r) ==
    /\ At(r, "handling") /\ req[r].route.audit = "DELETE_TENANT"
    /\ LET t == req[r].target
       IN  /\ Exists(t)
           /\ tenants' = [tenants EXCEPT ![t] = "deleted"]
           /\ audits' = {e \in audits : e.tenant # t}
           /\ gone' = gone \cup {t}
           /\ Answer(r, t)
    /\ UNCHANGED lost

\* AuthController.getTenantStatus finds a suspension whose end has passed ...
FindLapsed(r) ==
    /\ At(r, "handling") /\ req[r].route.policy = "none"
    /\ TenantOf(r) # Null /\ tenants[TenantOf(r)] = "lapsed"
    /\ Goto(r, "reviving")
    /\ UNCHANGED <<tenants, audits, mishaps, lost, gone>>

\* ... and saves the row it has loaded, as the guard does.
ReviveTenant(r) ==
    /\ At(r, "reviving")
    /\ tenants' = [tenants EXCEPT ![TenantOf(r)] = "active"]
    /\ Answer(r, Null)
    /\ UNCHANGED <<audits, lost, gone>>

\* All others change nothing that this module keeps; a gateway is made for
\* a tenant that exists.
HandleOther(r) ==
    /\ At(r, "handling") /\ req[r].route.audit \notin TenantActions
    /\ req[r].target # Null => Exists(req[r].target)
    /\ Succeed(r, req[r].target)
    /\ UNCHANGED <<tenants, audits, mishaps, lost, gone>>

\* NotFound, a conflict, an invalid body: the interceptor sees no value.
HandlerThrows(r) ==
    /\ At(r, "handling")
    /\ Goto(r, "failed")
    /\ UNCHANGED <<tenants, audits, mishaps, lost, gone>>

\* The INSERT that nobody waits for; the foreign key refuses an entry of a
\* tenant that has gone or never was, and the error is ignored.
WriteEntry(r) ==
    /\ At(r, "logging")
    /\ Goto(r, "done")
    /\ IF Exists(AuditId(req[r]))
       THEN audits' = audits \cup {[request |-> r, kind |-> "success",
                                    tenant |-> AuditId(req[r])]}
       ELSE UNCHANGED audits
    /\ UNCHANGED <<tenants, mishaps, lost, gone>>

\* The database refuses it, or the process ends first.
LoseEntry(r) ==
    /\ At(r, "logging")
    /\ Mishap
    /\ Goto(r, "done")
    /\ lost' = lost \cup {r}
    /\ UNCHANGED <<tenants, audits, gone>>

\* The end of a suspension passes.
Lapse(t) ==
    /\ tenants[t] = "suspended"
    /\ tenants' = [tenants EXCEPT ![t] = "lapsed"]
    /\ UNCHANGED <<audits, req, mishaps, lost, gone>>

Guards(r) ==
    LoadTenant(r) \/ LiftSuspension(r) \/ RecordBlocked(r) \/ DatabaseFails(r)

Handlers(r) ==
    \/ CreateTenant(r) \/ UpdateTenant(r) \/ DeleteTenant(r)
    \/ FindLapsed(r) \/ ReviveTenant(r)
    \/ HandleOther(r) \/ HandlerThrows(r)

Interceptor(r) == WriteEntry(r) \/ LoseEntry(r)

InStanding(r) ==
    /\ req'[r] # Null
    /\ req'[r].user # Null /\ req'[r].user.tenant # Null
    /\ tenants'[req'[r].user.tenant] \in {"active", "lapsed"}

Next ==
    /\ \/ \E r \in Requests :
            \/ \E c \in Claims, route \in Routes :
                 \E target \in Targets(route), query \in Queries(c, route) :
                    Arrive(r, c, route, target, query)
            \/ Guards(r)
            \/ Handlers(r)
            \/ Interceptor(r)
       \/ \E t \in Tenants : Lapse(t)
    /\ fit' = fit \cup {r \in Requests : InStanding(r)}

Spec == Init /\ [][Next]_vars

-----------------------------------------------------------------------------
(* Properties.                                                             *)

\* Every variable keeps its shape; nobody is let in without one of the three
\* roles, whatever its token says.
TypeOK ==
    /\ tenants \in [Tenants -> TenantStates]
    /\ audits \subseteq Entry
    /\ req \in [Requests -> Request \cup {Null}]
    /\ mishaps \in 0 .. MaxMishaps
    /\ lost \subseteq Requests /\ gone \subseteq Tenants
    /\ fit \subseteq Requests

\* A request that reaches the handler of a tenant's route has a tenant that
\* was there and not suspended at some moment since it arrived, however
\* suspensions, deletions and the guard's own save interleave with it.
HandledInGoodStanding ==
    \A r \in Requests :
        req[r] # Null /\ req[r].route.policy = "tenant"
        /\ req[r].pc \in {"handling", "logging", "done"}
        => r \in fit

\* The tenant a request acts on: its session's, or else the one its handler
\* was asked for or has made.
Subject(q) == IF SessionTenant(q.user) # Null THEN SessionTenant(q.user) ELSE q.target

\* A request whose entry goes by the id in its query: its user has no tenant.
Astray(q) == SessionTenant(q.user) = Null /\ AuditId(q) # q.target

\* An entry tells the truth: its request succeeded, or was refused because
\* of an impersonation (with 500 when the database's answer is lost), and it
\* is kept with the tenant the request acted on, or with the one that the
\* query of a user without a tenant named instead.
EntryIsTrue(e) ==
    LET q == req[e.request]
    IN  /\ q.user # Null
        /\ \/ /\ e.kind = "success"
              /\ q.pc = "done" /\ q.route.audit # Null
              /\ e.tenant = Subject(q) \/ (Astray(q) /\ e.tenant = q.query)
           \/ /\ e.kind = "blocked"
              /\ q.pc \in {"blocked", "failed"}
              /\ q.route.blocked /\ q.user.impersonating
              /\ e.tenant = SessionTenant(q.user)

\* A success on an audited route, of a request that named or had a tenant.
Auditable(r) ==
    /\ req[r] # Null /\ req[r].pc = "done" /\ req[r].route.audit # Null
    /\ req[r].user # Null
    /\ Subject(req[r]) # Null \/ Astray(req[r])

\* The trail says what happened: every entry is true, and every success on
\* an audited route is there, once it has been answered, unless the write
\* failed, the tenant it is kept with was deleted, or a query named an id
\* that is no tenant's.  The exceptions swallow every deletion of a tenant
\* by an administrator who has no tenant, and let a query hide the rest of
\* what such an administrator does to tenants, or move it to another tenant.
TrailIsTrue ==
    /\ \A e \in audits : EntryIsTrue(e)
    /\ \A r \in Requests \ lost :
         Auditable(r) =>
           \/ \E e \in audits : e.request = r /\ e.kind = "success"
           \/ ~Astray(req[r]) /\ Subject(req[r]) \in gone
           \/ Astray(req[r]) /\ req[r].query \in gone \cup {Unknown}

\* A request refused because of an impersonation did nothing and has left an
\* entry, unless its tenant was deleted, or its session has no tenant at all
\* under which the guard could write one.
BlockedLeavesTrace ==
    \A r \in Requests :
        LET q == req[r]
        IN  q # Null /\ q.pc = "blocked" =>
              \/ SessionTenant(q.user) = Null
              \/ SessionTenant(q.user) \in gone
              \/ \E e \in audits : e.request = r /\ e.kind = "blocked"

=============================================================================
