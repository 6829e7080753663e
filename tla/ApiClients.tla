----------------------------- MODULE ApiClients -----------------------------
(***************************************************************************)
(* API clients of tenants: a client of Keycloak with its service account,  *)
(* and a row of the table api_clients.  Creation sets the client up in     *)
(* several calls and then inserts the row; deletion, also with the tenant, *)
(* removes the row and then the client.  The deletion of a tenant holds a  *)
(* connection of the database pool while its clients' rows are removed     *)
(* over other connections of the same pool.                                *)
(***************************************************************************)
EXTENDS Naturals, FiniteSets

CONSTANTS
    Tenants,      \* ids of tenants
    Lapsed,       \* tenants with a suspension that may be over
    Names,        \* names of API clients
    ClientIds,    \* clientIds of Keycloak
    ClientIdOf,   \* the clientId that a name is turned into
    Clients,      \* uuids, which Keycloak gives to its clients
    Deleters,     \* requests to delete one client, under way at a time
    Dismissals,   \* calls of deleteTenant under way at a time
    Founders,     \* calls of createTenant, each one once
    PoolSize,     \* connections in the pool, 10 unless configured
    MaxFailures,  \* bound: refused calls and requests that end half way
    Null          \* an absent row, client, attribute or request

Row == [tenant : Tenants, name : Names]

\* The tenant_id attribute and the application roles of the service account.
Client == [clientId : ClientIds, tenant : Tenants \cup {Null},
           roles : SUBSET {"tenant_admin"}]

CreationPC == {"checked", "posted", "scoped", "complete", "undoing"}

Creation == [pc : CreationPC, tenant : Tenants, name : Names]

\* How far a caller is with the deletion of a client.
DeletionPC == {"none", "asked", "found", "removed"}

Callers == Deleters \cup Dismissals

Dismissal == [pc : {"asked", "begun", "clients"}, tenant : Tenants]

FounderPC == {"idle", "begun", "done"}

ASSUME NamesAssumption == ClientIdOf \in [Names -> ClientIds]

ASSUME BoundsAssumption == PoolSize \in Nat \ {0} /\ MaxFailures \in Nat

ASSUME CallersAssumption == Deleters \cap Dismissals = {}

ASSUME LapsedAssumption == Lapsed \subseteq Tenants

ASSUME NullAssumption ==
    /\ Null \notin Row /\ Null \notin Client /\ Null \notin Creation
    /\ Null \notin Dismissal /\ Null \notin Tenants

VARIABLES
    tenants,    \* table admin.tenants: the ids of its rows
    rows,       \* table api_clients, by id, which is the client's uuid
    clients,    \* Keycloak: its clients and their service accounts
    unborn,     \* uuids that Keycloak has not given yet
    creation,   \* createApiClient, by the uuid of its client
    deletion,   \* deleteApiClient, by caller and client
    dismissal,  \* deleteTenant
    founder,    \* createTenant
    held,       \* expired suspensions that a request is about to lift
    undoing,    \* createApiClient of clients that are stored, to be undone
    failures,   \* failures so far, bounded by MaxFailures
    unheard,    \* history: clients stored by an INSERT whose answer got lost
    forsaken,   \* history: clients that a creation could not delete again
    spared,     \* history: clients that a deletion could not delete
    revived     \* history: tenants whose row was inserted again

histories == <<forsaken, spared, revived>>

vars == <<tenants, rows, clients, unborn, creation, deletion, dismissal, founder,
          held, undoing, failures, unheard, histories>>

NoDeletion == [c \in Clients |-> "none"]

\* Tenants exist, without API clients.
Init ==
    /\ tenants = Tenants
    /\ rows = [c \in Clients |-> Null]
    /\ clients = [c \in Clients |-> Null]
    /\ unborn = Clients
    /\ creation = [c \in Clients |-> Null]
    /\ deletion = [x \in Callers |-> NoDeletion]
    /\ dismissal = [d \in Dismissals |-> Null]
    /\ founder = [f \in Founders |-> "idle"]
    /\ held = {}
    /\ undoing = {}
    /\ failures = 0
    /\ unheard = {}
    /\ forsaken = {}
    /\ spared = {}
    /\ revived = {}

-----------------------------------------------------------------------------
(* The pool of database connections.  A statement of its own takes one and *)
(* gives it back in the same step; a transaction keeps the one it has.     *)

InTransaction(d) == dismissal[d] # Null /\ dismissal[d].pc # "asked"

Holders == {d \in Dismissals : InTransaction(d)}
             \cup {f \in Founders : founder[f] = "begun"}

\* Nobody is served while there is none: the pool waits without a limit.
ConnectionFree == Cardinality(Holders) < PoolSize

\* The database or Keycloak refuses a call, or a request ends half way.  A call
\* of Keycloak whose answer is lost is one that is made and a refusal of the
\* next; for the INSERT see LoseInsert.
Fail == failures < MaxFailures /\ failures' = failures + 1

-----------------------------------------------------------------------------
(* createApiClient.                                                        *)

Creating(c, pc) == creation[c] # Null /\ creation[c].pc = pc

Advance(c, pc) == creation' = [creation EXCEPT ![c].pc = pc]

Stop(c) == creation' = [creation EXCEPT ![c] = Null]

\* findByName looks among the tenant's own clients.
CheckName(c, t, n) ==
    /\ c \in unborn /\ t \in tenants
    /\ ConnectionFree
    /\ \A b \in Clients : rows[b] # [tenant |-> t, name |-> n]
    /\ unborn' = unborn \ {c}
    /\ creation' = [creation EXCEPT ![c] = [pc |-> "checked", tenant |-> t, name |-> n]]
    /\ UNCHANGED <<tenants, rows, clients, deletion, dismissal, founder, held,
                   failures, histories, undoing, unheard>>

\* A mutant: the clientId is the name.
BlankClientVerbatim(n) == [clientId |-> n, tenant |-> Null, roles |-> {}]

BlankClient(n) == [clientId |-> ClientIdOf[n], tenant |-> Null, roles |-> {}]

\* A mutant: a made-up suffix keeps clientIds apart.
ConflictNever(c) == FALSE

\* Keycloak's clientIds are unique in the realm.
Conflict(c) ==
    \E b \in Clients :
        clients[b] # Null /\ clients[b].clientId = ClientIdOf[creation[c].name]

PostClient(c) ==
    /\ Creating(c, "checked")
    /\ IF Conflict(c) THEN Stop(c) /\ UNCHANGED clients
       ELSE /\ clients' = [clients EXCEPT ![c] = BlankClient(creation[c].name)]
            /\ Advance(c, "posted")
    /\ UNCHANGED <<tenants, rows, unborn, deletion, dismissal, founder, held,
                   failures, histories, undoing, unheard>>

\* Finds the client's uuid, secret and service account, and gives the account
\* its attributes.
SetAttributes(c) ==
    /\ Creating(c, "posted")
    /\ clients' = [clients EXCEPT ![c].tenant = creation[c].tenant]
    /\ Advance(c, "scoped")
    /\ UNCHANGED <<tenants, rows, unborn, deletion, dismissal, founder, held,
                   failures, histories, undoing, unheard>>

\* ensureExclusiveAppRole of a service account that has no application role.
AssignRole(c) ==
    /\ Creating(c, "scoped")
    /\ clients' = [clients EXCEPT ![c].roles = @ \cup {"tenant_admin"}]
    /\ Advance(c, "complete")
    /\ UNCHANGED <<tenants, rows, unborn, deletion, dismissal, founder, held,
                   failures, histories, undoing, unheard>>

\* Names and clientIds are unique in the table.
Takers(n) ==
    {b \in Clients :
        rows[b] # Null /\ (rows[b].name = n \/ ClientIdOf[rows[b].name] = ClientIdOf[n])}

Taken(n) == Takers(n) # {}

InsertRow(c) ==
    LET t == creation[c].tenant
        n == creation[c].name
    IN  /\ Creating(c, "complete")
        /\ ConnectionFree
        /\ IF t \in tenants /\ ~ Taken(n)
           THEN /\ rows' = [rows EXCEPT ![c] = [tenant |-> t, name |-> n]]
                /\ Stop(c)
           ELSE Advance(c, "undoing") /\ UNCHANGED rows
        /\ UNCHANGED <<tenants, clients, unborn, deletion, dismissal, founder, held,
                       failures, histories, undoing, unheard>>

UndoClient(c) ==
    /\ Creating(c, "undoing")
    /\ clients' = [clients EXCEPT ![c] = Null]
    /\ Stop(c)
    /\ UNCHANGED <<tenants, rows, unborn, deletion, dismissal, founder, held,
                   failures, histories, undoing, unheard>>

\* The INSERT commits and its answer gets lost: createApiClient takes it for
\* a refusal and undoes the client of a row that is stored, with which the
\* other requests may go on.
LoseInsert(c) ==
    LET t == creation[c].tenant
        n == creation[c].name
    IN  /\ Creating(c, "complete")
        /\ ConnectionFree
        /\ t \in tenants /\ ~ Taken(n)
        /\ Fail
        /\ rows' = [rows EXCEPT ![c] = [tenant |-> t, name |-> n]]
        /\ Stop(c)
        /\ undoing' = undoing \cup {c}
        /\ unheard' = unheard \cup {c}
        /\ UNCHANGED <<tenants, clients, unborn, deletion, dismissal, founder, held,
                       histories>>

UndoStored(c) ==
    /\ c \in undoing
    /\ clients' = [clients EXCEPT ![c] = Null]
    /\ undoing' = undoing \ {c}
    /\ UNCHANGED <<tenants, rows, unborn, creation, deletion, dismissal, founder, held,
                   failures, unheard, histories>>

\* Keycloak refuses, or the process has died: as often as answers get lost,
\* which bounds it.
LeaveStored(c) ==
    /\ c \in undoing
    /\ undoing' = undoing \ {c}
    /\ UNCHANGED <<tenants, rows, clients, unborn, creation, deletion, dismissal, founder,
                   held, failures, unheard, histories>>

\* A mutant: nothing is undone.
UndoneFromNowhere == {}

\* Only a refused INSERT is undone, not the calls that set the client up.
UndoneFrom == {"complete"}

RefuseCreation(c) ==
    /\ creation[c] # Null
    /\ Fail
    /\ IF creation[c].pc \in UndoneFrom THEN Advance(c, "undoing") ELSE Stop(c)
    /\ forsaken' = IF Creating(c, "undoing") THEN forsaken \cup {c} ELSE forsaken
    /\ UNCHANGED <<tenants, rows, clients, unborn, deletion, dismissal, founder, held,
                   spared, revived, undoing, unheard>>

AbandonCreation(c) ==
    /\ creation[c] # Null
    /\ Fail
    /\ Stop(c)
    /\ forsaken' = forsaken \cup {c}
    /\ UNCHANGED <<tenants, rows, clients, unborn, deletion, dismissal, founder, held,
                   spared, revived, undoing, unheard>>

-----------------------------------------------------------------------------
(* deleteApiClient, called by a request or by the deletion of the tenant.  *)

Deleting(x, c, pc) == deletion[x][c] = pc

Proceed(x, c, pc) == deletion' = [deletion EXCEPT ![x][c] = pc]

\* A request names a client; one that has no row is answered 404.
AskDeletion(x, c) ==
    /\ deletion[x] = NoDeletion
    /\ rows[c] # Null
    /\ Proceed(x, c, "asked")
    /\ UNCHANGED <<tenants, rows, clients, unborn, creation, dismissal, founder, held,
                   failures, histories, undoing, unheard>>

FindRow(x, c) ==
    /\ Deleting(x, c, "asked")
    /\ ConnectionFree
    /\ Proceed(x, c, IF rows[c] # Null THEN "found" ELSE "none")
    /\ UNCHANGED <<tenants, rows, clients, unborn, creation, dismissal, founder, held,
                   failures, histories, undoing, unheard>>

\* A mutant: the client goes before the row.
RemoveClientFirst(x, c) ==
    /\ Deleting(x, c, "found")
    /\ ConnectionFree
    /\ clients' = [clients EXCEPT ![c] = Null]
    /\ Proceed(x, c, "removed")
    /\ UNCHANGED <<tenants, rows, unborn, creation, dismissal, founder, held,
                   failures, histories, undoing, unheard>>

\* remove() of a row that has gone meanwhile deletes nothing.
RemoveRow(x, c) ==
    /\ Deleting(x, c, "found")
    /\ ConnectionFree
    /\ rows' = [rows EXCEPT ![c] = Null]
    /\ Proceed(x, c, "removed")
    /\ UNCHANGED <<tenants, clients, unborn, creation, dismissal, founder, held,
                   failures, histories, undoing, unheard>>

\* Keycloak's 404 is as good as a deletion.
DeleteClient(x, c) ==
    /\ Deleting(x, c, "removed")
    /\ clients' = [clients EXCEPT ![c] = Null]
    /\ Proceed(x, c, "none")
    /\ UNCHANGED <<tenants, rows, unborn, creation, dismissal, founder, held,
                   failures, histories, undoing, unheard>>

\* A refusal by Keycloak is logged and ignored; the deletion of the tenant
\* ignores one by the database, too.  A request may also die here.
RefuseDeletion(x, c) ==
    /\ deletion[x][c] # "none"
    /\ Fail
    /\ Proceed(x, c, "none")
    /\ spared' = IF Deleting(x, c, "removed") THEN spared \cup {c} ELSE spared
    /\ UNCHANGED <<tenants, rows, clients, unborn, creation, dismissal, founder, held,
                   forsaken, revived, undoing, unheard>>

-----------------------------------------------------------------------------
(* deleteTenant.                                                           *)

DismissalAt(d, pc) == dismissal[d] # Null /\ dismissal[d].pc = pc

\* Lists the tenant's users, before the transaction.
StartDismissal(d, t) ==
    /\ dismissal[d] = Null
    /\ ConnectionFree
    /\ dismissal' = [dismissal EXCEPT ![d] = [pc |-> "asked", tenant |-> t]]
    /\ UNCHANGED <<tenants, rows, clients, unborn, creation, deletion, founder, held,
                   failures, histories, undoing, unheard>>

\* Then Keycloak deletes accounts and the group, which Accounts models.
BeginTransaction(d) ==
    /\ DismissalAt(d, "asked")
    /\ ConnectionFree
    /\ dismissal' = [dismissal EXCEPT ![d].pc = "begun"]
    /\ UNCHANGED <<tenants, rows, clients, unborn, creation, deletion, founder, held,
                   failures, histories, undoing, unheard>>

\* deleteApiClientsForTenant asks for a connection beside the transaction's.
ListClients(d) ==
    /\ DismissalAt(d, "begun")
    /\ ConnectionFree
    /\ dismissal' = [dismissal EXCEPT ![d].pc = "clients"]
    /\ deletion' = [deletion EXCEPT
         ![d] = [c \in Clients |->
                   IF rows[c] # Null /\ rows[c].tenant = dismissal[d].tenant
                   THEN "asked" ELSE "none"]]
    /\ UNCHANGED <<tenants, rows, clients, unborn, creation, founder, held,
                   failures, histories, undoing, unheard>>

\* The row of the tenant, with those of the clients it has by now, on the
\* transaction's own connection.  For a tenant that has gone it is rolled
\* back, with nothing to undo.
DeleteTenantRow(d) ==
    LET t == dismissal[d].tenant
    IN  /\ DismissalAt(d, "clients")
        /\ deletion[d] = NoDeletion
        /\ tenants' = tenants \ {t}
        /\ rows' = [c \in Clients |->
                      IF rows[c] # Null /\ rows[c].tenant = t THEN Null ELSE rows[c]]
        /\ dismissal' = [dismissal EXCEPT ![d] = Null]
        /\ UNCHANGED <<clients, unborn, creation, deletion, founder, held,
                       failures, histories, undoing, unheard>>

\* The transaction is rolled back, or the process dies: what was sent to
\* Keycloak and what other connections removed stays done.
EndDismissal(d) ==
    /\ dismissal[d] # Null
    /\ Fail
    /\ dismissal' = [dismissal EXCEPT ![d] = Null]
    /\ deletion' = [deletion EXCEPT ![d] = NoDeletion]
    /\ spared' = spared \cup {c \in Clients : Deleting(d, c, "removed")}
    /\ UNCHANGED <<tenants, rows, clients, unborn, creation, founder, held, forsaken,
                   revived, undoing, unheard>>

-----------------------------------------------------------------------------
(* Other requests.                                                         *)

\* createTenant keeps its connection while Keycloak creates the founder.
BeginFounding(f) ==
    /\ founder[f] = "idle"
    /\ ConnectionFree
    /\ founder' = [founder EXCEPT ![f] = "begun"]
    /\ UNCHANGED <<tenants, rows, clients, unborn, creation, deletion, dismissal, held,
                   failures, histories, undoing, unheard>>

\* A mutant: its last statement does not use the transaction's manager.
EndFoundingElsewhere(f) ==
    /\ founder[f] = "begun"
    /\ ConnectionFree
    /\ founder' = [founder EXCEPT ![f] = "done"]
    /\ UNCHANGED <<tenants, rows, clients, unborn, creation, deletion, dismissal, held,
                   failures, histories, undoing, unheard>>

EndFounding(f) ==
    /\ founder[f] = "begun"
    /\ founder' = [founder EXCEPT ![f] = "done"]
    /\ UNCHANGED <<tenants, rows, clients, unborn, creation, deletion, dismissal, held,
                   failures, histories, undoing, unheard>>

\* A request that finds an expired suspension loads the tenant's row and
\* saves it after an await; save() inserts a row that has gone.
MeetExpired(t) ==
    /\ t \in (tenants \cap Lapsed) \ held
    /\ ConnectionFree
    /\ held' = held \cup {t}
    /\ UNCHANGED <<tenants, rows, clients, unborn, creation, deletion, dismissal,
                   founder, failures, histories, undoing, unheard>>

LiftExpired(t) ==
    /\ t \in held
    /\ ConnectionFree
    /\ held' = held \ {t}
    /\ tenants' = tenants \cup {t}
    /\ revived' = IF t \in tenants THEN revived ELSE revived \cup {t}
    /\ UNCHANGED <<rows, clients, unborn, creation, deletion, dismissal, founder,
                   failures, forsaken, spared, undoing, unheard>>

-----------------------------------------------------------------------------

CreationStep == \E c \in Clients :
    \/ \E t \in Tenants, n \in Names : CheckName(c, t, n)
    \/ PostClient(c)
    \/ SetAttributes(c)
    \/ AssignRole(c)
    \/ InsertRow(c)
    \/ UndoClient(c)
    \/ RefuseCreation(c)
    \/ AbandonCreation(c)

UnheardStep == \E c \in Clients : LoseInsert(c) \/ UndoStored(c) \/ LeaveStored(c)

Handle(x, c) == FindRow(x, c) \/ RemoveRow(x, c) \/ DeleteClient(x, c)

DeletionStep == \E c \in Clients :
    \/ \E x \in Deleters : AskDeletion(x, c)
    \/ \E x \in Callers : Handle(x, c) \/ RefuseDeletion(x, c)

Dismiss(d) == BeginTransaction(d) \/ ListClients(d) \/ DeleteTenantRow(d)

DismissalStep == \E d \in Dismissals :
    \/ \E t \in Tenants : StartDismissal(d, t)
    \/ Dismiss(d)
    \/ EndDismissal(d)

OtherStep ==
    \/ \E f \in Founders : BeginFounding(f) \/ EndFounding(f)
    \/ \E t \in Tenants : MeetExpired(t) \/ LiftExpired(t)

Next == CreationStep \/ UnheardStep \/ DeletionStep \/ DismissalStep \/ OtherStep

Spec == Init /\ [][Next]_vars

\* Database and Keycloak answer, and the event loop goes on with a request
\* that was answered.
Fairness ==
    /\ \A d \in Dismissals : WF_vars(Dismiss(d))
    /\ \A d \in Dismissals, c \in Clients : WF_vars(Handle(d, c))
    /\ \A f \in Founders : WF_vars(EndFounding(f))

FairSpec == Spec /\ Fairness

-----------------------------------------------------------------------------

TypeOK ==
    /\ tenants \in SUBSET Tenants
    /\ rows \in [Clients -> Row \cup {Null}]
    /\ clients \in [Clients -> Client \cup {Null}]
    /\ unborn \in SUBSET Clients
    /\ creation \in [Clients -> Creation \cup {Null}]
    /\ deletion \in [Callers -> [Clients -> DeletionPC]]
    /\ dismissal \in [Dismissals -> Dismissal \cup {Null}]
    /\ founder \in [Founders -> FounderPC]
    /\ held \in SUBSET Tenants
    /\ undoing \in SUBSET Clients
    /\ failures \in 0 .. MaxFailures
    /\ unheard \in SUBSET Clients
    /\ forsaken \in SUBSET Clients
    /\ spared \in SUBSET Clients
    /\ revived \in SUBSET Tenants

\* Safety: every API client that a tenant's list shows works, and for that
\* tenant: it exists in Keycloak under the clientId of its name, with the
\* tenant's id and the role of an administrator, whatever other creations,
\* deletions and refusals did meanwhile.  One that does not has no client at
\* all, and comes from an INSERT that committed and whose answer got lost
\* (createApiClient, whose catch clause undoes the client whatever has become
\* of the row, deleteApiClient).
RowsWork ==
    \A c \in Clients :
        rows[c] # Null =>
            \/ clients[c] = [clientId |-> ClientIdOf[rows[c].name],
                             tenant |-> rows[c].tenant, roles |-> {"tenant_admin"}]
            \/ clients[c] = Null /\ c \in unheard

\* Safety: Keycloak's unique clientIds do the work of the unique indexes of
\* api_clients.  A creation that is about to insert its row finds its name or
\* clientId taken, by this or another tenant, only by a row whose client was
\* undone because the answer to its INSERT got lost; every other conflict is
\* answered before anything must be undone (createApiClient).
ConflictsAreEarly ==
    \A c \in Clients :
        Creating(c, "complete") =>
            \A b \in Takers(creation[c].name) : b \in unheard /\ clients[b] = Null

\* jwt.strategy, roles.guard and access-policy.guard admit the client's
\* tokens: one application role, a tenant, and a row of that tenant.  (A
\* token of another audience may be refused anyway.)
MayEnter(c) ==
    /\ clients[c] # Null
    /\ clients[c].roles = {"tenant_admin"}
    /\ clients[c].tenant \in tenants

BusyWith(c) == creation[c] # Null \/ \E x \in Callers : deletion[x][c] # "none"

\* Safety: a client that no list shows gets in only when two things went
\* wrong, a request died half way, or Keycloak refused its deletion; or its
\* tenant was deleted and came back.  A client that was only half set up, or
\* went with its tenant, is refused (createApiClient, deleteApiClient,
\* deleteApiClientsForTenant against jwt.strategy and access-policy.guard).
UnlistedStayOut ==
    \A c \in Clients :
        MayEnter(c) /\ rows[c] = Null /\ ~ BusyWith(c) =>
            c \in forsaken \cup spared \/ clients[c].tenant \in revived

\* Liveness: with fewer deletions of tenants than connections, every one of
\* them ends, and gives its connection back: transactions that wait for no
\* second connection cannot block it for ever (deleteTenant, createTenant).
DismissalsEnd == \A d \in Dismissals : InTransaction(d) ~> ~ InTransaction(d)

=============================================================================
