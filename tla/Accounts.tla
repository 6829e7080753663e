------------------------------ MODULE Accounts ------------------------------
(***************************************************************************)
(* Users, kept twice: as rows of the table users and as accounts of        *)
(* Keycloak, with an application role and the group of their tenant.       *)
(* Nothing makes the two writes one.  createTenant and createUser write    *)
(* Keycloak first and undo it when a later step is refused; updateUser     *)
(* writes the row first; deleteUsers and deleteTenant delete the accounts  *)
(* first, all at once.  Emails, names, passwords and API clients are left  *)
(* out.                                                                    *)
(***************************************************************************)
EXTENDS Naturals, FiniteSets

CONSTANTS
    Tenants,      \* ids of tenants
    Users,        \* ids of users, which Keycloak gives to their accounts
    Updates,      \* calls of updateUser under way at a time
    Removals,     \* calls of deleteUsers under way at a time
    MaxEdits,     \* bound: calls of updateUser
    MaxFailures,  \* bound: refused calls and requests that end half way
    Null          \* an absent row, account, role or request

\* SYSTEM_ADMIN is refused by createUser and updateUser.
Roles == {"tenant_admin", "tenant_user"}

UserRow == [tenant : Tenants, role : Roles]

\* The application roles of an account and the group it is a member of.
Account == [roles : SUBSET Roles, group : Nat]

CreationPC == {"asked", "born", "roled", "groupless", "made", "grouped",
               "joined", "undoing"}

\* founding: of a tenant with its administrator, in one transaction.
Creation == [pc : CreationPC, tenant : Tenants, role : Roles,
             founding : BOOLEAN, group : Nat]

UpdatePC == {"loaded", "saved", "removing", "adding"}

Update == [pc : UpdatePC, user : Users, row : UserRow, role : Roles \cup {Null},
           seen : SUBSET Roles]

\* Calls of Keycloak in flight (todo) for the accounts of targets.
Removal == [targets : SUBSET Users, todo : SUBSET Users, failed : BOOLEAN,
            tenant : Tenants]

Dismissal == [targets : SUBSET Users, todo : SUBSET Users, failed : BOOLEAN,
              pc : {"accounts", "closing"}]

ASSUME BoundsAssumption == MaxEdits \in Nat /\ MaxFailures \in Nat

ASSUME NullAssumption ==
    /\ Null \notin Roles /\ Null \notin UserRow /\ Null \notin Account
    /\ Null \notin Creation /\ Null \notin Update /\ Null \notin Removal
    /\ Null \notin Dismissal /\ Null \notin Users

VARIABLES
    tenants,    \* table admin.tenants: the ids of its rows
    users,      \* table users
    account,    \* Keycloak: accounts
    group,      \* Keycloak: the group of each tenant, 0 for none
    made,       \* the number of groups each tenant has had
    unfounded,  \* ids of tenants that were never used
    unborn,     \* ids of users that were never used
    creation,   \* createUser and createTenant, by the id of their user
    update,     \* calls of updateUser
    removal,    \* calls of deleteUsers
    dismissal,  \* calls of deleteTenant
    undoing,    \* createUser of users who are stored: accounts to be undone
    edits,      \* calls of updateUser so far, bounded by MaxEdits
    failures,   \* failures so far, bounded by MaxFailures
    refused,    \* history: calls refused to the creation of each user
    severed,    \* history: users whose creation ended half way
    crossed,    \* history: users created while their tenant was deleted
    halted,     \* history: users whose deletion did not end well
    revived,    \* history: users updated while they were deleted
    unheard,    \* history: users stored by an INSERT whose answer got lost
    calm,       \* history: updates that are alone on their user so far
    aligned     \* history: users whose last change of role was undisturbed

requests == <<creation, update, removal, dismissal>>

histories == <<refused, severed, crossed, halted, revived, calm, aligned>>

vars == <<tenants, users, account, group, made, unfounded, unborn, requests, undoing,
          edits, failures, histories, unheard>>

\* Nothing yet: tenants are founded and users created by requests.
Init ==
    /\ tenants = {}
    /\ users = [u \in Users |-> Null]
    /\ account = [u \in Users |-> Null]
    /\ group = [t \in Tenants |-> 0]
    /\ made = [t \in Tenants |-> 0]
    /\ unfounded = Tenants
    /\ unborn = Users
    /\ creation = [u \in Users |-> Null]
    /\ update = [a \in Updates |-> Null]
    /\ removal = [d \in Removals |-> Null]
    /\ dismissal = [t \in Tenants |-> Null]
    /\ undoing = {}
    /\ unheard = {}
    /\ edits = 0
    /\ failures = 0
    /\ refused = [u \in Users |-> 0]
    /\ severed = {}
    /\ crossed = {}
    /\ halted = {}
    /\ revived = {}
    /\ calm = {}
    /\ aligned = Users

-----------------------------------------------------------------------------

UpdatesOf(u) == {a \in Updates : update[a] # Null /\ update[a].user = u}

\* A deletion works on the account and the row of u.
Deleting(u) ==
    \/ \E d \in Removals : removal[d] # Null /\ u \in removal[d].targets
    \/ \E t \in Tenants : dismissal[t] # Null /\ u \in dismissal[t].targets

\* Keycloak or the database refuses a call and changes nothing, or a request
\* ends half way: the process dies, or the answer of a call that had its
\* effect is lost.  A call of Keycloak whose answer is lost is one that is
\* made and a refusal of the next; for the INSERT of createUser see LoseInsert.
Fail == failures < MaxFailures /\ failures' = failures + 1

-----------------------------------------------------------------------------
(* createUser and createTenant: createTenantUser, then the row.            *)

Creating(u, pc) == creation[u] # Null /\ creation[u].pc = pc

Advance(u, pc) == creation' = [creation EXCEPT ![u].pc = pc]

Request(t, role, founding) ==
    [pc |-> "asked", tenant |-> t, role |-> role, founding |-> founding, group |-> 0]

AskUser(u, t, role) ==
    /\ u \in unborn /\ t \in tenants
    /\ unborn' = unborn \ {u}
    /\ creation' = [creation EXCEPT ![u] = Request(t, role, FALSE)]
    /\ crossed' = IF dismissal[t] = Null THEN crossed ELSE crossed \cup {u}
    /\ UNCHANGED <<tenants, users, account, group, made, unfounded, update, removal,
                   dismissal, failures, refused, severed, halted, revived, calm, aligned, edits,
                   undoing, unheard>>

\* The transaction inserts the tenant's row, which nobody else sees yet.
AskTenant(u, t) ==
    /\ u \in unborn /\ t \in unfounded
    /\ unborn' = unborn \ {u}
    /\ unfounded' = unfounded \ {t}
    /\ creation' = [creation EXCEPT ![u] = Request(t, "tenant_admin", TRUE)]
    /\ UNCHANGED <<tenants, users, account, group, made, update, removal,
                   dismissal, failures, histories, edits, undoing, unheard>>

CreateAccount(u) ==
    /\ Creating(u, "asked")
    /\ account' = [account EXCEPT ![u] = [roles |-> {}, group |-> 0]]
    /\ Advance(u, "born")
    /\ UNCHANGED <<tenants, users, group, made, unfounded, unborn, update, removal,
                   dismissal, failures, histories, edits, undoing, unheard>>

\* ensureExclusiveAppRole of an account that has no application role.
AssignRole(u) ==
    /\ Creating(u, "born")
    /\ account' = [account EXCEPT ![u].roles = @ \cup {creation[u].role}]
    /\ Advance(u, "roled")
    /\ UNCHANGED <<tenants, users, group, made, unfounded, unborn, update, removal,
                   dismissal, failures, histories, edits, undoing, unheard>>

\* ensureTenantGroup looks the group up, and again when it has made it; one
\* that has gone by then is an error.
FindGroup(u) ==
    /\ Creating(u, "roled") \/ Creating(u, "made")
    /\ LET found == group[creation[u].tenant]
       IN  creation' = [creation EXCEPT
             ![u].group = found,
             ![u].pc = IF found # 0 THEN "grouped"
                       ELSE IF creation[u].pc = "roled" THEN "groupless" ELSE "undoing"]
    /\ UNCHANGED <<tenants, users, account, group, made, unfounded, unborn, update,
                   removal, dismissal, failures, histories, edits, undoing, unheard>>

\* Keycloak refuses a second group of one name with 409, which is no error.
MakeGroup(u) ==
    LET t == creation[u].tenant
    IN  /\ Creating(u, "groupless")
        /\ \/ /\ group[t] = 0
              /\ made' = [made EXCEPT ![t] = @ + 1]
              /\ group' = [group EXCEPT ![t] = made[t] + 1]
           \/ group[t] # 0 /\ UNCHANGED <<made, group>>
        /\ Advance(u, "made")
        /\ UNCHANGED <<tenants, users, account, unfounded, unborn, update, removal,
                       dismissal, failures, histories, edits, undoing, unheard>>

\* assignUserToGroup; a group that was deleted meanwhile is an error.
JoinGroup(u) ==
    /\ Creating(u, "grouped")
    /\ IF creation[u].group = group[creation[u].tenant]
       THEN /\ account' = [account EXCEPT ![u].group = creation[u].group]
            /\ Advance(u, "joined")
       ELSE Advance(u, "undoing") /\ UNCHANGED account
    /\ UNCHANGED <<tenants, users, group, made, unfounded, unborn, update, removal,
                   dismissal, failures, histories, edits, undoing, unheard>>

\* The row, with the row of the tenant when it is founded; without its
\* tenant the row of a user violates a foreign key.
InsertUser(u) ==
    LET c == creation[u]
    IN  /\ Creating(u, "joined")
        /\ IF c.founding \/ c.tenant \in tenants
           THEN /\ users' = [users EXCEPT ![u] = [tenant |-> c.tenant, role |-> c.role]]
                /\ tenants' = tenants \cup {c.tenant}
                /\ creation' = [creation EXCEPT ![u] = Null]
           ELSE Advance(u, "undoing") /\ UNCHANGED <<tenants, users>>
        /\ UNCHANGED <<account, group, made, unfounded, unborn, update, removal,
                       dismissal, failures, histories, edits, undoing, unheard>>

\* A mutant: only a refused INSERT is undone.
UndoneFromRow == {"joined"}

\* The steps whose refusal is undone by deleting the account.
UndoneFrom == {"born", "roled", "groupless", "made", "grouped", "joined"}

\* Keycloak refuses a call of createTenantUser, or the database the row.
RefuseCreation(u) ==
    /\ creation[u] # Null
    /\ Fail
    /\ refused' = [refused EXCEPT ![u] = @ + 1]
    /\ IF creation[u].pc \in UndoneFrom THEN Advance(u, "undoing")
       ELSE creation' = [creation EXCEPT ![u] = Null]
    /\ UNCHANGED <<tenants, users, account, group, made, unfounded, unborn, update,
                   removal, dismissal, severed, crossed, halted, revived, calm, aligned, edits,
                   undoing, unheard>>

\* save() of createUser commits and its answer gets lost: createUser takes
\* it for a refusal and undoes the account of a user who is stored, with
\* whom the other requests may go on.  The INSERT of createTenant is part of
\* a transaction, which is rolled back instead (RefuseCreation).
LoseInsert(u) ==
    LET c == creation[u]
    IN  /\ Creating(u, "joined") /\ ~ c.founding /\ c.tenant \in tenants
        /\ Fail
        /\ users' = [users EXCEPT ![u] = [tenant |-> c.tenant, role |-> c.role]]
        /\ creation' = [creation EXCEPT ![u] = Null]
        /\ undoing' = undoing \cup {u}
        /\ unheard' = unheard \cup {u}
        /\ UNCHANGED <<tenants, account, group, made, unfounded, unborn, update, removal,
                       dismissal, histories, edits>>

UndoStored(u) ==
    /\ u \in undoing
    /\ account' = [account EXCEPT ![u] = Null]
    /\ undoing' = undoing \ {u}
    /\ UNCHANGED <<tenants, users, group, made, unfounded, unborn, creation, update,
                   removal, dismissal, failures, histories, edits, unheard>>

\* Keycloak refuses, or the process has died: as often as answers get lost,
\* which bounds it.
LeaveStored(u) ==
    /\ u \in undoing
    /\ undoing' = undoing \ {u}
    /\ UNCHANGED <<tenants, users, account, group, made, unfounded, unborn, creation,
                   update, removal, dismissal, failures, histories, edits, unheard>>

UndoAccount(u) ==
    /\ Creating(u, "undoing")
    /\ account' = [account EXCEPT ![u] = Null]
    /\ creation' = [creation EXCEPT ![u] = Null]
    /\ UNCHANGED <<tenants, users, group, made, unfounded, unborn, update, removal,
                   dismissal, failures, histories, edits, undoing, unheard>>

\* Also: the transaction of createTenant fails to commit, after the last
\* statement that its catch clause guards.
AbandonCreation(u) ==
    /\ creation[u] # Null
    /\ Fail
    /\ severed' = severed \cup {u}
    /\ creation' = [creation EXCEPT ![u] = Null]
    /\ UNCHANGED <<tenants, users, account, group, made, unfounded, unborn, update,
                   removal, dismissal, refused, crossed, halted, revived, calm, aligned, edits,
                   undoing, unheard>>

-----------------------------------------------------------------------------
(* updateUser: the row, then the role of the account.                      *)

Close(a) ==
    /\ update' = [update EXCEPT ![a] = Null]
    /\ calm' = calm \ {a}

StepOf(a, pc) == update[a] # Null /\ update[a].pc = pc

\* A mutant: the role is taken from the body as it is.
RowAsSent(row, role) == [row EXCEPT !.role = role]

\* A body without a role leaves the one the row has.
Edited(row, role) == IF role = Null THEN row ELSE [row EXCEPT !.role = role]

LoadUser(a, u, role) ==
    /\ update[a] = Null
    /\ users[u] # Null
    /\ edits < MaxEdits
    /\ edits' = edits + 1
    /\ update' = [update EXCEPT
         ![a] = [pc |-> "loaded", user |-> u, role |-> role, seen |-> {},
                 row |-> Edited(users[u], role)]]
    /\ IF UpdatesOf(u) = {} THEN calm' = calm \cup {a} /\ UNCHANGED aligned
       ELSE calm' = calm \ UpdatesOf(u) /\ aligned' = aligned \ {u}
    /\ revived' = IF Deleting(u) THEN revived \cup {u} ELSE revived
    /\ UNCHANGED <<tenants, users, account, group, made, unfounded, unborn, creation,
                   removal, dismissal, failures, refused, severed, crossed, halted,
                   undoing, unheard>>

\* save() inserts the row again when it has gone, unless its tenant has too.
SaveUser(a) ==
    LET row == update[a].row
        u == update[a].user
    IN  /\ StepOf(a, "loaded")
        /\ IF row.tenant \in tenants
           THEN /\ users' = [users EXCEPT ![u] = row]
                /\ IF update[a].role = Null THEN Close(a)
                   ELSE update' = [update EXCEPT ![a].pc = "saved"] /\ UNCHANGED calm
           ELSE Close(a) /\ UNCHANGED users
        /\ UNCHANGED <<tenants, account, group, made, unfounded, unborn, creation,
                       removal, dismissal, failures, refused, severed,
                       crossed, halted, revived, aligned, edits, undoing, unheard>>

\* ensureExclusiveAppRole decides on the roles it has read.
ReadRoles(a) ==
    LET u == update[a].user
        seen == account[u].roles
        next == IF seen \ {update[a].role} # {} THEN "removing"
                ELSE IF seen = {} THEN "adding" ELSE "done"
    IN  /\ StepOf(a, "saved") /\ account[u] # Null
        /\ IF next = "done"
           THEN /\ Close(a)
                /\ aligned' = IF a \in calm THEN aligned \cup {u} ELSE aligned
           ELSE /\ update' = [update EXCEPT ![a].pc = next, ![a].seen = seen]
                /\ UNCHANGED <<calm, aligned>>
        /\ UNCHANGED <<tenants, users, account, group, made, unfounded, unborn, creation,
                       removal, dismissal, failures, refused, severed,
                       crossed, halted, revived, edits, undoing, unheard>>

\* A mutant: the roles to remove are those without the role asked for.
RolesAfterSwap(a, roles) == roles \ (update[a].seen \cap {update[a].role})

KeptRoles(a, roles) == roles \ (update[a].seen \ {update[a].role})

RemoveRoles(a) ==
    LET u == update[a].user
    IN  /\ StepOf(a, "removing") /\ account[u] # Null
        /\ account' = [account EXCEPT ![u].roles = KeptRoles(a, @)]
        /\ IF update[a].role \in update[a].seen
           THEN /\ Close(a)
                /\ aligned' = IF a \in calm THEN aligned \cup {u} ELSE aligned
           ELSE /\ update' = [update EXCEPT ![a].pc = "adding"]
                /\ UNCHANGED <<calm, aligned>>
        /\ UNCHANGED <<tenants, users, group, made, unfounded, unborn, creation,
                       removal, dismissal, failures, refused, severed,
                       crossed, halted, revived, edits, undoing, unheard>>

AddRole(a) ==
    LET u == update[a].user
    IN  /\ StepOf(a, "adding") /\ account[u] # Null
        /\ account' = [account EXCEPT ![u].roles = @ \cup {update[a].role}]
        /\ Close(a)
        /\ aligned' = IF a \in calm THEN aligned \cup {u} ELSE aligned
        /\ UNCHANGED <<tenants, users, group, made, unfounded, unborn, creation,
                       removal, dismissal, failures, refused, severed,
                       crossed, halted, revived, edits, undoing, unheard>>

\* Keycloak answers 404 for an account that has gone.
MissAccount(a) ==
    /\ update[a] # Null /\ update[a].pc # "loaded" /\ account[update[a].user] = Null
    /\ Close(a)
    /\ UNCHANGED <<tenants, users, account, group, made, unfounded, unborn, creation,
                   removal, dismissal, failures, refused, severed,
                       crossed, halted, revived, aligned, edits, undoing, unheard>>

FailUpdate(a) ==
    /\ update[a] # Null
    /\ Fail
    /\ Close(a)
    /\ aligned' = aligned \ {update[a].user}
    /\ UNCHANGED <<tenants, users, account, group, made, unfounded, unborn, creation,
                   removal, dismissal, refused, severed, crossed, halted, revived, edits,
                   undoing, unheard>>

-----------------------------------------------------------------------------
(* deleteUsers: the accounts, all at once, then the rows.                  *)

\* getUsersByIds, without the one who asks.
UsersToDelete(t, ids, requester) ==
    {u \in ids \ {requester} : users[u] # Null /\ users[u].tenant = t}

\* A mutant: the account of the one who asks is deleted as well.
AccountsToDeleteOfAll(t, ids, requester) == UsersToDelete(t, ids, Null)

AccountsToDelete(t, ids, requester) == UsersToDelete(t, ids, requester)

\* The route requires a tenant administrator, so that the requester is no
\* SYSTEM_ADMIN: a request that names an administrator is refused as a whole,
\* and the cascade to the other accounts of the tenant is out of reach.
StartRemoval(d, t, ids, requester) ==
    LET targets == UsersToDelete(t, ids, requester)
    IN  /\ removal[d] = Null
        /\ targets # {}
        /\ \A u \in targets : users[u].role = "tenant_user"
        /\ removal' = [removal EXCEPT
                         ![d] = [targets |-> targets, failed |-> FALSE, tenant |-> t,
                                 todo |-> AccountsToDelete(t, ids, requester)]]
        /\ revived' = revived \cup {u \in targets : UpdatesOf(u) # {}}
        /\ UNCHANGED <<tenants, users, account, group, made, unfounded, unborn, creation,
                       update, dismissal, failures, refused, severed, crossed,
                       halted, calm, aligned, edits, undoing, unheard>>

\* deleteUser takes a missing account for deleted.
RemoveAccount(d, u) ==
    /\ removal[d] # Null /\ u \in removal[d].todo
    /\ account' = [account EXCEPT ![u] = Null]
    /\ removal' = [removal EXCEPT ![d].todo = @ \ {u}]
    /\ UNCHANGED <<tenants, users, group, made, unfounded, unborn, creation, update,
                   dismissal, failures, histories, edits, undoing, unheard>>

\* One refusal fails the request; the other calls are in flight.
RefuseRemoval(d, u) ==
    /\ removal[d] # Null /\ u \in removal[d].todo
    /\ Fail
    /\ removal' = [removal EXCEPT ![d].todo = @ \ {u}, ![d].failed = TRUE]
    /\ UNCHANGED <<tenants, users, account, group, made, unfounded, unborn, creation,
                   update, dismissal, histories, edits, undoing, unheard>>

\* The rows stay when any call was refused.
FinishRemoval(d) ==
    /\ removal[d] # Null /\ removal[d].todo = {}
    /\ removal' = [removal EXCEPT ![d] = Null]
    /\ IF removal[d].failed
       THEN halted' = halted \cup removal[d].targets /\ UNCHANGED users
       ELSE /\ users' = [u \in Users |->
                 IF /\ u \in removal[d].targets /\ users[u] # Null
                    /\ users[u].tenant = removal[d].tenant
                 THEN Null ELSE users[u]]
            /\ UNCHANGED halted
    /\ UNCHANGED <<tenants, account, group, made, unfounded, unborn, creation, update,
                   dismissal, failures, refused, severed, crossed, revived, calm, aligned, edits,
                   undoing, unheard>>

AbandonRemoval(d) ==
    /\ removal[d] # Null
    /\ Fail
    /\ halted' = halted \cup removal[d].targets
    /\ removal' = [removal EXCEPT ![d] = Null]
    /\ UNCHANGED <<tenants, users, account, group, made, unfounded, unborn, creation,
                   update, dismissal, refused, severed, crossed, revived, calm, aligned, edits,
                   undoing, unheard>>

-----------------------------------------------------------------------------
(* deleteTenant: the accounts of the users it lists, the group, the row.   *)

StartDismissal(t) ==
    LET targets == {u \in Users : users[u] # Null /\ users[u].tenant = t}
    IN  /\ dismissal[t] = Null
        /\ t \in tenants
        /\ dismissal' = [dismissal EXCEPT
                           ![t] = [targets |-> targets, todo |-> targets,
                                   failed |-> FALSE, pc |-> "accounts"]]
        /\ crossed' = crossed \cup {u \in Users : creation[u] # Null /\ creation[u].tenant = t}
        /\ revived' = revived \cup {u \in targets : UpdatesOf(u) # {}}
        /\ UNCHANGED <<tenants, users, account, group, made, unfounded, unborn, creation,
                       update, removal, failures, refused, severed, halted,
                       calm, aligned, edits, undoing, unheard>>

DismissAccount(t, u) ==
    /\ dismissal[t] # Null /\ u \in dismissal[t].todo
    /\ account' = [account EXCEPT ![u] = Null]
    /\ dismissal' = [dismissal EXCEPT ![t].todo = @ \ {u}]
    /\ UNCHANGED <<tenants, users, group, made, unfounded, unborn, creation, update,
                   removal, failures, histories, edits, undoing, unheard>>

RefuseDismissal(t, u) ==
    /\ dismissal[t] # Null /\ u \in dismissal[t].todo
    /\ Fail
    /\ dismissal' = [dismissal EXCEPT ![t].todo = @ \ {u}, ![t].failed = TRUE]
    /\ UNCHANGED <<tenants, users, account, group, made, unfounded, unborn, creation,
                   update, removal, histories, edits, undoing, unheard>>

\* A mutant: the group does not wait for the accounts.
GroupGoesFirst(t) == ~ dismissal[t].failed

AccountsAreDeleted(t) == dismissal[t].todo = {} /\ ~ dismissal[t].failed

\* deleteTenantGroup ignores the answer of the DELETE.
DeleteGroup(t) ==
    /\ dismissal[t] # Null /\ dismissal[t].pc = "accounts"
    /\ AccountsAreDeleted(t)
    /\ dismissal' = [dismissal EXCEPT ![t].pc = "closing"]
    /\ \/ group' = [group EXCEPT ![t] = 0] /\ UNCHANGED failures
       \/ Fail /\ UNCHANGED group
    /\ UNCHANGED <<tenants, users, account, made, unfounded, unborn, creation, update,
                   removal, histories, edits, undoing, unheard>>

\* The row and, by ON DELETE CASCADE, the rows of all its users.
CommitDismissal(t) ==
    /\ dismissal[t] # Null /\ dismissal[t].pc = "closing"
    /\ tenants' = tenants \ {t}
    /\ users' = [u \in Users |->
         IF users[u] # Null /\ users[u].tenant = t THEN Null ELSE users[u]]
    /\ dismissal' = [dismissal EXCEPT ![t] = Null]
    /\ UNCHANGED <<account, group, made, unfounded, unborn, creation, update, removal,
                   failures, histories, edits, undoing, unheard>>

EndDismissal(t) ==
    /\ halted' = halted \cup dismissal[t].targets
    /\ dismissal' = [dismissal EXCEPT ![t] = Null]
    /\ UNCHANGED <<tenants, users, account, group, made, unfounded, unborn, creation,
                   update, removal, refused, severed, crossed, revived, calm,
                   aligned, edits, undoing, unheard>>

\* An account was not deleted: the transaction rolls back.
RollBackDismissal(t) ==
    /\ dismissal[t] # Null /\ dismissal[t].failed /\ dismissal[t].todo = {}
    /\ EndDismissal(t)
    /\ UNCHANGED failures

\* Also: the database refuses the deletion or the commit.
AbandonDismissal(t) ==
    /\ dismissal[t] # Null
    /\ Fail
    /\ EndDismissal(t)

-----------------------------------------------------------------------------

CreateStep == \E u \in Users :
    \/ \E t \in Tenants, role \in Roles : AskUser(u, t, role)
    \/ \E t \in Tenants : AskTenant(u, t)
    \/ CreateAccount(u)
    \/ AssignRole(u)
    \/ FindGroup(u)
    \/ MakeGroup(u)
    \/ JoinGroup(u)
    \/ InsertUser(u)
    \/ RefuseCreation(u)
    \/ LoseInsert(u)
    \/ UndoStored(u)
    \/ LeaveStored(u)
    \/ UndoAccount(u)
    \/ AbandonCreation(u)

UpdateStep == \E a \in Updates :
    \/ \E u \in Users, role \in Roles \cup {Null} : LoadUser(a, u, role)
    \/ SaveUser(a)
    \/ ReadRoles(a)
    \/ RemoveRoles(a)
    \/ AddRole(a)
    \/ MissAccount(a)
    \/ FailUpdate(a)

RemoveStep == \E d \in Removals :
    \/ \E t \in Tenants, ids \in SUBSET Users, requester \in Users \cup {Null} :
         StartRemoval(d, t, ids, requester)
    \/ \E u \in Users : RemoveAccount(d, u) \/ RefuseRemoval(d, u)
    \/ FinishRemoval(d)
    \/ AbandonRemoval(d)

DismissStep == \E t \in Tenants :
    \/ StartDismissal(t)
    \/ \E u \in Users : DismissAccount(t, u) \/ RefuseDismissal(t, u)
    \/ DeleteGroup(t)
    \/ CommitDismissal(t)
    \/ RollBackDismissal(t)
    \/ AbandonDismissal(t)

Next == CreateStep \/ UpdateStep \/ RemoveStep \/ DismissStep

Spec == Init /\ [][Next]_vars

-----------------------------------------------------------------------------
(* Properties.                                                             *)

TypeOK ==
    /\ tenants \in SUBSET Tenants
    /\ users \in [Users -> UserRow \cup {Null}]
    /\ account \in [Users -> Account \cup {Null}]
    /\ group \in [Tenants -> Nat]
    /\ made \in [Tenants -> Nat]
    /\ unfounded \in SUBSET Tenants
    /\ unborn \in SUBSET Users
    /\ creation \in [Users -> Creation \cup {Null}]
    /\ update \in [Updates -> Update \cup {Null}]
    /\ removal \in [Removals -> Removal \cup {Null}]
    /\ dismissal \in [Tenants -> Dismissal \cup {Null}]
    /\ undoing \in SUBSET Users
    /\ unheard \in SUBSET Users
    /\ edits \in 0 .. MaxEdits
    /\ failures \in 0 .. MaxFailures
    /\ refused \in [Users -> Nat]
    /\ severed \in SUBSET Users
    /\ crossed \in SUBSET Users
    /\ halted \in SUBSET Users
    /\ revived \in SUBSET Users
    /\ calm \in SUBSET Updates
    /\ aligned \in SUBSET Users

\* Safety: one refusal never leaves an account behind.  An account that has
\* no row and that no creation works on comes from a creation that was
\* refused twice, the second time in its compensation, that ended half way,
\* or that overlapped the deletion of its tenant (the compensations of
\* createTenantUser, createUser and createTenant).
OrphansAreExplained ==
    \A u \in Users :
        account[u] # Null /\ users[u] = Null /\ creation[u] = Null =>
            refused[u] > 1 \/ u \in severed \/ u \in crossed

\* Safety: a row whose account has gone belongs to a deletion that is under
\* way or did not end well, or the user was updated while being deleted, or
\* the answer to the user's INSERT got lost after its commit (deleteUsers and
\* deleteTenant delete accounts before rows; save() of updateUser inserts a
\* row again; the catch clause of createUser undoes the account whatever has
\* become of the row).
RowsHaveAccounts ==
    \A u \in Users :
        users[u] # Null /\ account[u] = Null =>
            Deleting(u) \/ u \in halted \/ u \in revived \/ u \in unheard

\* Safety: the role that requests are admitted by is the one the row shows.
\* When the last change of a user's role ran alone and reached Keycloak, its
\* account has exactly the role of its row, whatever the account had before
\* (updateUser, ensureExclusiveAppRole).
RolesAgree ==
    \A u \in aligned :
        users[u] # Null /\ account[u] # Null /\ UpdatesOf(u) = {} =>
            account[u].roles = {users[u].role}

\* Safety: users who share a tenant share its group.  The account of a stored
\* user is in the one group that its tenant has, also when an attempt to
\* delete the tenant removed the group and a later user's creation made it
\* again, unless the user was created during the attempt (ensureTenantGroup,
\* assignUserToGroup, deleteTenantGroup).
OneGroup ==
    \A u \in Users \ crossed :
        users[u] # Null /\ account[u] # Null =>
            /\ group[users[u].tenant] # 0
            /\ account[u].group = group[users[u].tenant]

\* The "enforces a single application role mapping" of
\* keycloak-admin.service.spec.ts: an account that no update works on has at
\* most one application role, or the JWT strategy calls it ambiguous.  Two
\* updates that read the roles before either removes one break it, so no run
\* states it.
SingleRole ==
    \A u \in Users :
        account[u] # Null /\ UpdatesOf(u) = {} => Cardinality(account[u].roles) < 2

=============================================================================
