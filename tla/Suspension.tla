----------------------------- MODULE Suspension -----------------------------
(***************************************************************************)
(* Suspension of tenants.  An administrator's PATCH suspends a tenant, for *)
(* some days or without an end, or activates it, and then enables or       *)
(* disables the Keycloak accounts of its users one by one.  A suspension   *)
(* that is over is lifted by whoever meets it: the access guard, the       *)
(* tenant-status endpoint, the list of tenants or the next PATCH.  Each of *)
(* them loads the tenant and saves it after an await; save() writes all    *)
(* columns and inserts the row again when it has gone meanwhile.           *)
(***************************************************************************)
EXTENDS Naturals, FiniteSets

CONSTANTS
    Tenants,      \* ids of tenants
    Users,        \* ids of users, which are the ids of their accounts
    Updates,      \* calls of updateTenant under way at a time
    Readers,      \* other requests under way that may lift a suspension
    Days,         \* lengths of suspensions that requests ask for
    MaxUpdates,   \* bound: calls of updateTenant
    MaxTime,      \* bound: days that pass
    MaxFailures,  \* bound: rejected calls of Keycloak and crashes
    Null          \* an absent row, field or process

Statuses == {"active", "suspended"}

\* suspensionUntil is Null for none; the interval that produced it is left
\* out.
TenantRow == [status : Statuses, until : Nat \cup {Null}]

\* The body of a PATCH: 0 days means "no suspension any more".
Bodies == [status : Statuses \cup {Null}, days : Days \cup {0, Null}]

\* An id is given once: the account of a user deleted never comes back.
Accounts == {"none", "enabled", "disabled", "deleted"}

UpdatePC == {"expired", "relifting", "normalized", "loaded", "saved", "syncing"}

Update == [pc : UpdatePC, tenant : Tenants, body : Bodies, was : Statuses,
           row : TenantRow, todo : SUBSET Users]

Reader == [pc : {"expired", "holding"}, tenant : Tenants]

Creation == [pc : {"admitted", "created"}, tenant : Tenants]

Removal == [todo : SUBSET Users]

ASSUME BoundsAssumption ==
    /\ Days \subseteq Nat \ {0}
    /\ MaxUpdates \in Nat
    /\ MaxTime \in Nat
    /\ MaxFailures \in Nat

ASSUME NullAssumption ==
    /\ Null \notin Nat /\ Null \notin Statuses /\ Null \notin TenantRow
    /\ Null \notin Update /\ Null \notin Reader /\ Null \notin Creation
    /\ Null \notin Removal /\ Null \notin Tenants

VARIABLES
    tenant,     \* table admin.tenants
    users,      \* table users: the tenant of each row, or Null
    account,    \* Keycloak: the account of each user
    update,     \* calls of updateTenant
    reader,     \* requests that met a suspension that is over
    creation,   \* calls of createUser between their steps, per user
    removal,    \* calls of deleteTenant: the accounts left to delete, or Null
    asked,      \* calls of updateTenant so far, bounded by MaxUpdates
    clock,      \* the day
    failures,   \* failures so far
    promised,   \* history: the suspension the last PATCH saved, or Null
    overtaken,  \* history: tenants suspended while a lifting was under way
    calm,       \* history: updates that nothing disturbed so far
    settled     \* history: tenants whose last change reached every account

requests == <<update, reader, creation, removal>>

histories == <<promised, overtaken, calm, settled>>

vars == <<tenant, users, account, update, reader, creation, removal, asked,
          clock, failures, promised, overtaken, calm, settled>>

ActiveRow == [status |-> "active", until |-> Null]

\* A tenant is created active; its administrator's account is enabled.
Init ==
    /\ tenant = [t \in Tenants |-> ActiveRow]
    /\ users \in [Users -> Tenants \cup {Null}]
    /\ account = [u \in Users |-> IF users[u] = Null THEN "none" ELSE "enabled"]
    /\ update = [a \in Updates |-> Null]
    /\ reader = [r \in Readers |-> Null]
    /\ creation = [u \in Users |-> Null]
    /\ removal = [t \in Tenants |-> Null]
    /\ asked = 0
    /\ clock = 0
    /\ failures = 0
    /\ promised = [t \in Tenants |-> Null]
    /\ overtaken = {}
    /\ calm = {}
    /\ settled = Tenants

-----------------------------------------------------------------------------

\* A mutant: a suspension without an end counts as over.
ExpiredWithoutEnd(row) ==
    /\ row.status = "suspended"
    /\ row.until = Null \/ row.until <= clock

\* isSuspensionExpired, the same in the service, the guard and the controller.
Expired(row) ==
    /\ row.status = "suspended"
    /\ row.until # Null
    /\ row.until <= clock

UpdatesOf(t) == {a \in Updates : update[a] # Null /\ update[a].tenant = t}

CreatingIn(t) == {u \in Users : creation[u] # Null /\ creation[u].tenant = t}

\* No update of t runs and no user is being created in it.
Quiet(t) == UpdatesOf(t) = {} /\ CreatingIn(t) = {}

\* Something happens to t that no synchronisation takes into account.
Disturb(t) ==
    /\ settled' = settled \ {t}
    /\ calm' = calm \ UpdatesOf(t)

Undisturbed == UNCHANGED <<settled, calm>>

Tick ==
    /\ clock < MaxTime
    /\ clock' = clock + 1
    /\ UNCHANGED <<tenant, users, account, requests, asked, failures, histories>>

-----------------------------------------------------------------------------
(* updateTenant.                                                           *)

\* A mutant: the status is taken from the body as it is.
TargetStatusAsSent(body) == body.status

TargetStatus(body) ==
    IF /\ body.status # "active" /\ body.days # 0
       /\ body.days # Null \/ body.status = "suspended"
    THEN "suspended" ELSE "active"

\* Days of zero and an explicit "active" clear the end; a body without days
\* leaves the end that the row has.
Changed(row, body) ==
    [status |-> TargetStatus(body),
     until  |-> IF body.status = "active" \/ body.days = 0 THEN Null
                ELSE IF body.days # Null THEN clock + body.days
                ELSE row.until]

Goto(a, pc) == update' = [update EXCEPT ![a].pc = pc]

Close(a) ==
    /\ update' = [update EXCEPT ![a] = Null]
    /\ calm' = calm \ {a}

\* The tenant is looked up in the list of all tenants.
StartUpdate(a, t, body) ==
    /\ update[a] = Null
    /\ tenant[t] # Null
    /\ asked < MaxUpdates
    /\ asked' = asked + 1
    /\ update' = [update EXCEPT
                    ![a] = [pc     |-> IF Expired(tenant[t]) THEN "expired" ELSE "normalized",
                            tenant |-> t, body |-> body, was |-> tenant[t].status,
                            row    |-> ActiveRow, todo |-> {}]]
    /\ IF Quiet(t) THEN calm' = calm \cup {a} /\ UNCHANGED settled ELSE Disturb(t)
    /\ UNCHANGED <<tenant, users, account, reader, creation, removal, clock,
                   failures, promised, overtaken>>

\* reactivateTenantIfExpired loads the tenant again; one that has gone is
\* used as it was read.
RelieveLoad(a) ==
    /\ update[a] # Null /\ update[a].pc = "expired"
    /\ Goto(a, IF tenant[update[a].tenant] = Null THEN "normalized" ELSE "relifting")
    /\ UNCHANGED <<tenant, users, account, reader, creation, removal, asked,
                   clock, failures, histories>>

RelieveSave(a) ==
    /\ update[a] # Null /\ update[a].pc = "relifting"
    /\ tenant' = [tenant EXCEPT ![update[a].tenant] = ActiveRow]
    /\ update' = [update EXCEPT ![a].pc = "normalized", ![a].was = "active"]
    /\ Disturb(update[a].tenant)
    /\ UNCHANGED <<users, account, reader, creation, removal, asked, clock,
                   failures, promised, overtaken>>

\* The refusal of days for an active tenant comes only now, after the
\* reactivation; otherwise the tenant is loaded and changed.
LoadTenant(a) ==
    /\ update[a] # Null /\ update[a].pc = "normalized"
    /\ LET t == update[a].tenant
           body == update[a].body
       IN  IF (body.status = "active" /\ body.days \in Days) \/ tenant[t] = Null
           THEN Close(a)
           ELSE /\ update' = [update EXCEPT ![a].pc = "loaded", ![a].row = Changed(tenant[t], body)]
                /\ UNCHANGED calm
    /\ UNCHANGED <<tenant, users, account, reader, creation, removal, asked,
                   clock, failures, promised, overtaken, settled>>

\* Requests that found the suspension of t over and have yet to lift it.
Lifting(t) ==
    \/ \E r \in Readers : /\ reader[r] # Null /\ reader[r].tenant = t
    \/ \E a \in Updates : /\ update[a] # Null /\ update[a].tenant = t
                          /\ update[a].pc \in {"expired", "relifting"}

SaveTenant(a) ==
    /\ update[a] # Null /\ update[a].pc = "loaded"
    /\ LET t == update[a].tenant
           row == update[a].row
       IN  /\ tenant' = [tenant EXCEPT ![t] = row]
           /\ IF row.status = update[a].was THEN Close(a)
              ELSE Goto(a, "saved") /\ UNCHANGED calm
           /\ promised' = [promised EXCEPT
                             ![t] = IF row.status = "suspended" THEN row ELSE Null]
           /\ overtaken' = IF Lifting(t) THEN overtaken \cup {t} ELSE overtaken \ {t}
    /\ UNCHANGED <<users, account, reader, creation, removal, asked, clock,
                   failures, settled>>

\* syncTenantUsersEnabledState: the users, then one call each, in any order.
ListUsers(a) ==
    /\ update[a] # Null /\ update[a].pc = "saved"
    /\ update' = [update EXCEPT ![a].pc = "syncing",
                                ![a].todo = {u \in Users : users[u] = update[a].tenant}]
    /\ UNCHANGED <<tenant, users, account, reader, creation, removal, asked,
                   clock, failures, histories>>

\* A mutant: the synchronisation only ever disables.
EnabledForSuspending(a) == "disabled"

\* shouldEnable, of the status that the update has saved.
EnabledFor(a) ==
    IF update[a].row.status = "suspended" THEN "disabled" ELSE "enabled"

\* A call fails, or finds no account; the others go on.
SetUserEnabled(a, u) ==
    /\ update[a] # Null /\ update[a].pc = "syncing" /\ u \in update[a].todo
    /\ update' = [update EXCEPT ![a].todo = @ \ {u}]
    /\ \/ /\ account[u] # "deleted"
          /\ account' = [account EXCEPT ![u] = EnabledFor(a)]
          /\ UNCHANGED <<failures, settled, calm>>
       \/ /\ account[u] = "deleted"
          /\ UNCHANGED <<account, failures, settled, calm>>
       \/ /\ failures < MaxFailures
          /\ failures' = failures + 1
          /\ Disturb(update[a].tenant)
          /\ UNCHANGED account
    /\ UNCHANGED <<tenant, users, reader, creation, removal, asked,
                   clock, promised, overtaken>>

\* An update that changed the status, reached every account and met nothing
\* on its way settles its tenant.
FinishUpdate(a) ==
    /\ update[a] # Null /\ update[a].pc = "syncing" /\ update[a].todo = {}
    /\ Close(a)
    /\ settled' = IF a \in calm THEN settled \cup {update[a].tenant} ELSE settled
    /\ UNCHANGED <<tenant, users, account, reader, creation, removal, asked,
                   clock, failures, promised, overtaken>>

\* A call of the database or the renaming of the Keycloak group rejects, or
\* the process dies.
AbandonUpdate(a) ==
    /\ update[a] # Null
    /\ failures < MaxFailures
    /\ failures' = failures + 1
    /\ update' = [update EXCEPT ![a] = Null]
    /\ Disturb(update[a].tenant)
    /\ UNCHANGED <<tenant, users, account, reader, creation, removal, asked,
                   clock, promised, overtaken>>

-----------------------------------------------------------------------------
(* AccessPolicyGuard, tenant-status and the list of tenants.               *)

\* A request meets a suspension that is over.  Guard and controller save the
\* entity they loaded; the list loads the tenant once more before.
MeetExpired(r, t) ==
    /\ reader[r] = Null
    /\ tenant[t] # Null /\ Expired(tenant[t])
    /\ \E pc \in {"expired", "holding"} :
         reader' = [reader EXCEPT ![r] = [pc |-> pc, tenant |-> t]]
    /\ UNCHANGED <<tenant, users, account, update, creation, removal, asked,
                   clock, failures, histories>>

LoadAgain(r) ==
    /\ reader[r] # Null /\ reader[r].pc = "expired"
    /\ reader' = [reader EXCEPT
                    ![r] = IF tenant[@.tenant] = Null THEN Null
                           ELSE [@ EXCEPT !.pc = "holding"]]
    /\ UNCHANGED <<tenant, users, account, update, creation, removal, asked,
                   clock, failures, histories>>

\* No account is enabled again.
LiftExpired(r) ==
    /\ reader[r] # Null /\ reader[r].pc = "holding"
    /\ tenant' = [tenant EXCEPT ![reader[r].tenant] = ActiveRow]
    /\ reader' = [reader EXCEPT ![r] = Null]
    /\ Disturb(reader[r].tenant)
    /\ UNCHANGED <<users, account, update, creation, removal, asked, clock,
                   failures, promised, overtaken>>

-----------------------------------------------------------------------------
(* createUser and deleteTenant, as far as they meet the above.             *)

\* The guard admits the request of a tenant that is active.
AdmitCreation(u, t) ==
    /\ users[u] = Null /\ account[u] = "none" /\ creation[u] = Null
    /\ tenant[t] # Null /\ tenant[t].status = "active"
    /\ creation' = [creation EXCEPT ![u] = [pc |-> "admitted", tenant |-> t]]
    /\ IF UpdatesOf(t) = {} THEN Undisturbed ELSE Disturb(t)
    /\ UNCHANGED <<tenant, users, account, update, reader, removal, asked,
                   clock, failures, promised, overtaken>>

\* createTenantUser: a new account is enabled.
CreateAccount(u) ==
    /\ creation[u] # Null /\ creation[u].pc = "admitted"
    /\ account' = [account EXCEPT ![u] = "enabled"]
    /\ creation' = [creation EXCEPT ![u].pc = "created"]
    /\ UNCHANGED <<tenant, users, update, reader, removal, asked, clock,
                   failures, histories>>

\* The local row; without its tenant it is refused, and the account deleted.
\* So it is when the row is there and the database's answer is lost.
InsertUser(u) ==
    /\ creation[u] # Null /\ creation[u].pc = "created"
    /\ creation' = [creation EXCEPT ![u] = Null]
    /\ \/ /\ tenant[creation[u].tenant] # Null
          /\ users' = [users EXCEPT ![u] = creation[u].tenant]
          /\ \/ UNCHANGED <<account, failures>>
             \/ /\ failures < MaxFailures
                /\ failures' = failures + 1
                /\ account' = [account EXCEPT ![u] = "deleted"]
       \/ /\ tenant[creation[u].tenant] = Null
          /\ account' = [account EXCEPT ![u] = "deleted"]
          /\ UNCHANGED <<users, failures>>
    /\ UNCHANGED <<tenant, update, reader, removal, asked, clock, histories>>

StartDelete(t) ==
    /\ removal[t] = Null
    /\ tenant[t] # Null
    /\ removal' = [removal EXCEPT ![t] = [todo |-> {u \in Users : users[u] = t}]]
    /\ UNCHANGED <<tenant, users, account, update, reader, creation, asked,
                   clock, failures, histories>>

DeleteAccount(t, u) ==
    /\ removal[t] # Null /\ u \in removal[t].todo
    /\ removal' = [removal EXCEPT ![t].todo = @ \ {u}]
    /\ account' = [account EXCEPT ![u] = "deleted"]
    /\ UNCHANGED <<tenant, users, update, reader, creation, asked, clock,
                   failures, histories>>

\* The row and, by ON DELETE CASCADE, its users.
CommitDelete(t) ==
    /\ removal[t] # Null /\ removal[t].todo = {}
    /\ removal' = [removal EXCEPT ![t] = Null]
    /\ tenant' = [tenant EXCEPT ![t] = Null]
    /\ users' = [u \in Users |-> IF users[u] = t THEN Null ELSE users[u]]
    /\ promised' = [promised EXCEPT ![t] = Null]
    /\ UNCHANGED <<account, update, reader, creation, asked, clock,
                   failures, overtaken, calm, settled>>

\* A call of Keycloak rejects, and the transaction rolls back.
AbortDelete(t) ==
    /\ removal[t] # Null
    /\ failures < MaxFailures
    /\ failures' = failures + 1
    /\ removal' = [removal EXCEPT ![t] = Null]
    /\ UNCHANGED <<tenant, users, account, update, reader, creation, asked, clock,
                   histories>>

-----------------------------------------------------------------------------

UpdateStep == \E a \in Updates :
    \/ \E t \in Tenants, body \in Bodies : StartUpdate(a, t, body)
    \/ RelieveLoad(a)
    \/ RelieveSave(a)
    \/ LoadTenant(a)
    \/ SaveTenant(a)
    \/ ListUsers(a)
    \/ \E u \in Users : SetUserEnabled(a, u)
    \/ FinishUpdate(a)
    \/ AbandonUpdate(a)

ReaderStep == \E r \in Readers :
    \/ \E t \in Tenants : MeetExpired(r, t)
    \/ LoadAgain(r)
    \/ LiftExpired(r)

CreateStep == \E u \in Users :
    \/ \E t \in Tenants : AdmitCreation(u, t)
    \/ CreateAccount(u)
    \/ InsertUser(u)

DeleteStep == \E t \in Tenants :
    \/ StartDelete(t)
    \/ \E u \in Users : DeleteAccount(t, u)
    \/ CommitDelete(t)
    \/ AbortDelete(t)

Next == Tick \/ UpdateStep \/ ReaderStep \/ CreateStep \/ DeleteStep

Spec == Init /\ [][Next]_vars

-----------------------------------------------------------------------------
(* Properties.                                                             *)

TypeOK ==
    /\ tenant \in [Tenants -> TenantRow \cup {Null}]
    /\ users \in [Users -> Tenants \cup {Null}]
    /\ account \in [Users -> Accounts]
    /\ update \in [Updates -> Update \cup {Null}]
    /\ reader \in [Readers -> Reader \cup {Null}]
    /\ creation \in [Users -> Creation \cup {Null}]
    /\ removal \in [Tenants -> Removal \cup {Null}]
    /\ asked \in 0 .. MaxUpdates
    /\ clock \in Nat
    /\ failures \in 0 .. MaxFailures
    /\ promised \in [Tenants -> TenantRow \cup {Null}]
    /\ overtaken \in SUBSET Tenants
    /\ calm \in SUBSET Updates
    /\ settled \in SUBSET Tenants

\* The suspension an administrator last asked for is not over yet.
InForce(t) ==
    /\ promised[t] # Null
    /\ promised[t].until = Null \/ promised[t].until > clock

\* Safety: a suspension holds to its end.  The guard refuses the tenant's
\* requests while the suspension that a PATCH saved is in force, unless a
\* request that had found an earlier suspension over was under way when it
\* was saved (updateTenant against reactivateTenantIfExpired of the guard,
\* the controller and the service).
SuspensionHolds ==
    \A t \in Tenants \ overtaken :
        InForce(t) /\ tenant[t] # Null =>
            tenant[t].status = "suspended" /\ ~ Expired(tenant[t])

\* Safety: accounts follow the status.  When the last change of a tenant's
\* status met no other update, no creation of a user, no lifting and no
\* failure, the accounts of its users are enabled exactly when the tenant is
\* active, whatever went wrong before (updateTenant, syncTenantUsersEnabledState).
AccountsFollow ==
    \A t \in settled, u \in Users :
        Quiet(t) /\ tenant[t] # Null /\ users[u] = t /\ account[u] # "deleted" =>
            account[u] = IF tenant[t].status = "active" THEN "enabled" ELSE "disabled"

\* The "enables tenant users when tenant moves from suspended to active" of
\* tenants.service.spec.ts: with nothing under way, the users of an active
\* tenant can log in (reactivateTenantIfExpired).
ActiveTenantsEnabled ==
    \A t \in Tenants, u \in Users :
        /\ Quiet(t) /\ removal[t] = Null
        /\ tenant[t] # Null /\ tenant[t].status = "active"
        /\ users[u] = t
        => account[u] # "disabled"

=============================================================================
