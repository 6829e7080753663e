-------------------------- MODULE ApiClientsProofs --------------------------
(***************************************************************************)
(* Proofs about ApiClients for every value of its constants: its type      *)
(* invariant and the three safety invariants that TLC checks.              *)
(***************************************************************************)
EXTENDS ApiClients, TLAPS

\* The client of a row, set up for the row's tenant.
Working(row) ==
    [clientId |-> ClientIdOf[row.name], tenant |-> row.tenant, roles |-> {"tenant_admin"}]

\* The client while its creation is under way.
SetUp(a) ==
    IF a.pc = "checked" THEN Null
    ELSE IF a.pc = "posted" THEN BlankClient(a.name)
    ELSE IF a.pc = "scoped" THEN [Working(a) EXCEPT !.roles = {}]
    ELSE Working(a)

\* What a creation knows: nobody else touches its client.
CreationOk(c) ==
    creation[c] # Null =>
        /\ c \notin unborn
        /\ rows[c] = Null
        /\ clients[c] = SetUp(creation[c])
        /\ \A x \in Callers : deletion[x][c] = "none"

\* A row without its client was stored by an INSERT that nobody heard of.
RowOk(c) ==
    rows[c] # Null =>
        /\ c \notin unborn
        /\ clients[c] = Working(rows[c]) \/ (clients[c] = Null /\ c \in unheard)

\* A client is undone beside its row only after its creation.
UndoingOk(c) ==
    c \in undoing => c \in unheard /\ c \notin unborn /\ creation[c] = Null

UnbornOk(c) == c \in unborn => clients[c] = Null

\* A deletion works on a client that was created, and past "found" the row
\* has gone for good.
DeletionOk(c) ==
    \A x \in Callers :
        /\ deletion[x][c] # "none" => c \notin unborn /\ creation[c] = Null
        /\ deletion[x][c] = "removed" => rows[c] = Null

Local(c) ==
    CreationOk(c) /\ RowOk(c) /\ UnbornOk(c) /\ DeletionOk(c) /\ UndoingOk(c)

\* Deletions of a tenant's clients belong to the phase that lists them.
Phases ==
    \A d \in Dismissals :
        dismissal[d] = Null \/ dismissal[d].pc # "clients" => deletion[d] = NoDeletion

Structure == TypeOK /\ Phases /\ \A c \in Clients : Local(c)

-----------------------------------------------------------------------------
(* The initial states.                                                     *)

LEMMA StructureInit == Init => Structure
<1> SUFFICES ASSUME Init PROVE Structure
  OBVIOUS
<1>1. TypeOK
  BY BoundsAssumption DEF Init, TypeOK, NoDeletion, DeletionPC, FounderPC
<1>2. \A x \in Callers : deletion[x] = NoDeletion
  BY DEF Init
<1>3. Phases
  BY <1>2 DEF Phases, Callers
<1>4. \A c \in Clients : Local(c)
  BY <1>2 DEF Init, Local, CreationOk, RowOk, UnbornOk, DeletionOk, UndoingOk, NoDeletion
<1> QED
  BY <1>1, <1>3, <1>4 DEF Structure

-----------------------------------------------------------------------------
(* Types.                                                                  *)

\* A client as its creation has set it up so far is a client.
LEMMA SetUpType ==
    ASSUME NEW a \in Creation, a.pc # "checked"
    PROVE  SetUp(a) \in Client
<1>1. a.name \in Names /\ a.tenant \in Tenants
  BY DEF Creation
<1>2. ClientIdOf[a.name] \in ClientIds
  BY <1>1, NamesAssumption
<1> QED
  BY <1>1, <1>2 DEF SetUp, BlankClient, Working, Client

\* Going on with a creation that is under way.
LEMMA AdvanceType ==
    ASSUME TypeOK, NEW c \in Clients, creation[c] # Null
    PROVE  /\ creation[c] \in Creation
           /\ \A pc \in CreationPC : [creation[c] EXCEPT !.pc = pc] \in Creation
<1>1. creation[c] \in Creation
  BY DEF TypeOK
<1> QED
  BY <1>1 DEF Creation

\* A creation that has moved on keeps its tenant and its name.
LEMMA Moved ==
    ASSUME NEW a \in Creation, NEW pc \in CreationPC
    PROVE  LET b == [a EXCEPT !.pc = pc]
           IN  /\ b \in Creation
               /\ b.pc = pc /\ b.tenant = a.tenant /\ b.name = a.name
BY DEF Creation

\* The calls that set a client up bring it from one stage to the next.
LEMMA SetUpSteps ==
    ASSUME Structure, NEW c \in Clients
    PROVE  /\ PostClient(c) /\ ~ Conflict(c) =>
                clients' = [clients EXCEPT ![c] = SetUp([creation[c] EXCEPT !.pc = "posted"])]
           /\ SetAttributes(c) =>
                clients' = [clients EXCEPT ![c] = SetUp([creation[c] EXCEPT !.pc = "scoped"])]
           /\ AssignRole(c) =>
                clients' = [clients EXCEPT ![c] = SetUp([creation[c] EXCEPT !.pc = "complete"])]
<1> DEFINE next(pc) == [creation[c] EXCEPT !.pc = pc]
<1>1. creation[c] # Null => creation[c] \in Creation /\ clients[c] = SetUp(creation[c])
  BY DEF Structure, TypeOK, Local, CreationOk
<1>2. ASSUME creation[c] # Null, NEW pc \in CreationPC
      PROVE  /\ next(pc).pc = pc
             /\ next(pc).tenant = creation[c].tenant
             /\ next(pc).name = creation[c].name
  BY <1>1, <1>2, Moved
<1> HIDE DEF next
<1>3. ASSUME PostClient(c), ~ Conflict(c)
      PROVE  clients' = [clients EXCEPT ![c] = SetUp(next("posted"))]
  <2>1. creation[c] # Null
    BY <1>3 DEF PostClient, Creating
  <2>2. SetUp(next("posted")) = BlankClient(creation[c].name)
    BY <2>1, <1>2 DEF SetUp, BlankClient, CreationPC
  <2> QED
    BY <1>3, <2>2 DEF PostClient
<1>4. ASSUME SetAttributes(c)
      PROVE  clients' = [clients EXCEPT ![c] = SetUp(next("scoped"))]
  <2>1. creation[c] # Null /\ creation[c].pc = "posted"
    BY <1>4 DEF SetAttributes, Creating
  <2>2. clients[c] = BlankClient(creation[c].name)
    BY <2>1, <1>1 DEF SetUp
  <2>3. SetUp(next("scoped")) = [Working(creation[c]) EXCEPT !.roles = {}]
    BY <2>1, <1>2 DEF SetUp, Working, CreationPC
  <2>4. [clients[c] EXCEPT !.tenant = creation[c].tenant] = SetUp(next("scoped"))
    BY <2>2, <2>3 DEF BlankClient, Working
  <2>5. clients' = [clients EXCEPT ![c] = [clients[c] EXCEPT !.tenant = creation[c].tenant]]
    BY <1>4 DEF SetAttributes
  <2> QED
    BY <2>4, <2>5
<1>5. ASSUME AssignRole(c)
      PROVE  clients' = [clients EXCEPT ![c] = SetUp(next("complete"))]
  <2>1. creation[c] # Null /\ creation[c].pc = "scoped"
    BY <1>5 DEF AssignRole, Creating
  <2>2. clients[c] = [Working(creation[c]) EXCEPT !.roles = {}]
    BY <2>1, <1>1 DEF SetUp
  <2>3. SetUp(next("complete")) = Working(creation[c])
    BY <2>1, <1>2 DEF SetUp, Working, CreationPC
  <2>4. clients[c].roles \cup {"tenant_admin"} = {"tenant_admin"}
    BY <2>2 DEF Working
  <2>5. [clients[c] EXCEPT !.roles = {"tenant_admin"}] = SetUp(next("complete"))
    <3>1. clients[c] = [clientId |-> ClientIdOf[creation[c].name],
                        tenant   |-> creation[c].tenant, roles |-> {}]
      BY <2>2 DEF Working
    <3>2. [clients[c] EXCEPT !.roles = {"tenant_admin"}]
            = [clientId |-> ClientIdOf[creation[c].name],
               tenant   |-> creation[c].tenant, roles |-> {"tenant_admin"}]
      BY <3>1
    <3> QED
      BY <3>2, <2>3 DEF Working
  <2>6. clients' = [clients EXCEPT ![c] = [clients[c] EXCEPT !.roles = {"tenant_admin"}]]
    BY <1>5, <2>4 DEF AssignRole
  <2> QED
    BY <2>5, <2>6
<1> QED
  BY <1>3, <1>4, <1>5 DEF next

LEMMA CreationType == Structure /\ CreationStep => TypeOK'
<1> SUFFICES ASSUME Structure, NEW c \in Clients,
                    \/ \E t \in Tenants, n \in Names : CheckName(c, t, n)
                    \/ PostClient(c) \/ SetAttributes(c) \/ AssignRole(c)
                    \/ InsertRow(c) \/ UndoClient(c)
                    \/ RefuseCreation(c) \/ AbandonCreation(c)
             PROVE  TypeOK'
  BY DEF CreationStep
<1>t. TypeOK
  BY DEF Structure
<1> DEFINE next(pc) == [creation[c] EXCEPT !.pc = pc]
<1>a. creation[c] # Null =>
        /\ creation[c] \in Creation
        /\ \A pc \in CreationPC : next(pc) \in Creation /\ next(pc).pc = pc
  BY <1>t, AdvanceType DEF Creation
<1>s. \A pc \in CreationPC : creation[c] # Null /\ pc # "checked" => SetUp(next(pc)) \in Client
  BY <1>a, SetUpType
<1> HIDE DEF next
<1>1. ASSUME NEW t \in Tenants, NEW n \in Names, CheckName(c, t, n) PROVE TypeOK'
  <2>1. [pc |-> "checked", tenant |-> t, name |-> n] \in Creation
    BY DEF Creation, CreationPC
  <2> QED
    BY <1>1, <1>t, <2>1 DEF CheckName, TypeOK, histories
<1>2. CASE PostClient(c)
  <2>1. creation' \in [Clients -> Creation \cup {Null}]
    BY <1>2, <1>a, <1>t DEF PostClient, Creating, Stop, Advance, CreationPC, TypeOK, next
  <2>2. clients' \in [Clients -> Client \cup {Null}]
    <3>1. CASE Conflict(c)
      BY <1>2, <1>t, <3>1 DEF PostClient, TypeOK
    <3>2. CASE ~ Conflict(c)
      <4>1. clients' = [clients EXCEPT ![c] = SetUp(next("posted"))]
        BY <1>2, <3>2, SetUpSteps DEF next
      <4>2. SetUp(next("posted")) \in Client
        BY <1>2, <1>s DEF PostClient, Creating, CreationPC
      <4> QED
        BY <4>1, <4>2, <1>t DEF TypeOK
    <3> QED
      BY <3>1, <3>2
  <2> QED
    BY <1>2, <1>t, <2>1, <2>2 DEF PostClient, TypeOK, histories
<1>3. CASE SetAttributes(c)
  <2>1. clients' = [clients EXCEPT ![c] = SetUp(next("scoped"))]
    BY <1>3, SetUpSteps DEF next
  <2>2. SetUp(next("scoped")) \in Client
    BY <1>3, <1>s DEF SetAttributes, Creating, CreationPC
  <2>3. creation' \in [Clients -> Creation \cup {Null}]
    BY <1>3, <1>a, <1>t DEF SetAttributes, Creating, Advance, CreationPC, TypeOK, next
  <2>4. clients' \in [Clients -> Client \cup {Null}]
    BY <2>1, <2>2, <1>t DEF TypeOK
  <2> QED
    BY <1>3, <1>t, <2>3, <2>4 DEF SetAttributes, TypeOK, histories
<1>4. CASE AssignRole(c)
  <2>1. clients' = [clients EXCEPT ![c] = SetUp(next("complete"))]
    BY <1>4, SetUpSteps DEF next
  <2>2. SetUp(next("complete")) \in Client
    BY <1>4, <1>s DEF AssignRole, Creating, CreationPC
  <2>3. creation' \in [Clients -> Creation \cup {Null}]
    BY <1>4, <1>a, <1>t DEF AssignRole, Creating, Advance, CreationPC, TypeOK, next
  <2>4. clients' \in [Clients -> Client \cup {Null}]
    BY <2>1, <2>2, <1>t DEF TypeOK
  <2> QED
    BY <1>4, <1>t, <2>3, <2>4 DEF AssignRole, TypeOK, histories
<1>5. CASE InsertRow(c)
  <2>1. creation' \in [Clients -> Creation \cup {Null}]
    BY <1>5, <1>a, <1>t DEF InsertRow, Creating, Stop, Advance, CreationPC, TypeOK, next
  <2>2. [tenant |-> creation[c].tenant, name |-> creation[c].name] \in Row
    BY <1>5, <1>a DEF InsertRow, Creating, Creation, Row
  <2>3. rows' \in [Clients -> Row \cup {Null}]
    BY <1>5, <1>t, <2>2 DEF InsertRow, TypeOK
  <2> QED
    BY <1>5, <1>t, <2>1, <2>3 DEF InsertRow, TypeOK, histories
<1>6. CASE UndoClient(c)
  BY <1>6, <1>t DEF UndoClient, Stop, TypeOK, histories
<1>7. CASE RefuseCreation(c)
  <2>1. creation' \in [Clients -> Creation \cup {Null}]
    BY <1>7, <1>a, <1>t DEF RefuseCreation, Stop, Advance, CreationPC, TypeOK, next
  <2>2. failures' \in 0 .. MaxFailures
    BY <1>7, <1>t, BoundsAssumption DEF RefuseCreation, Fail, TypeOK
  <2>3. forsaken' \in SUBSET Clients
    BY <1>7, <1>t DEF RefuseCreation, TypeOK
  <2> QED
    BY <1>7, <1>t, <2>1, <2>2, <2>3 DEF RefuseCreation, TypeOK
<1>8. CASE AbandonCreation(c)
  <2>1. failures' \in 0 .. MaxFailures
    BY <1>8, <1>t, BoundsAssumption DEF AbandonCreation, Fail, TypeOK
  <2> QED
    BY <1>8, <1>t, <2>1 DEF AbandonCreation, Stop, TypeOK
<1> QED
  BY <1>1, <1>2, <1>3, <1>4, <1>5, <1>6, <1>7, <1>8

LEMMA DeletionType == Structure /\ DeletionStep => TypeOK'
<1> SUFFICES ASSUME Structure, NEW c \in Clients, NEW x \in Callers,
                    \/ AskDeletion(x, c) \/ FindRow(x, c) \/ RemoveRow(x, c)
                    \/ DeleteClient(x, c) \/ RefuseDeletion(x, c)
             PROVE  TypeOK'
  BY DEF DeletionStep, Handle, Callers
<1>t. TypeOK
  BY DEF Structure
<1>p. \A pc \in DeletionPC : Proceed(x, c, pc) => deletion' \in [Callers -> [Clients -> DeletionPC]]
  BY <1>t DEF Proceed, TypeOK
<1>1. CASE AskDeletion(x, c)
  BY <1>1, <1>t, <1>p DEF AskDeletion, DeletionPC, TypeOK, histories
<1>2. CASE FindRow(x, c)
  BY <1>2, <1>t, <1>p DEF FindRow, DeletionPC, TypeOK, histories
<1>3. CASE RemoveRow(x, c)
  BY <1>3, <1>t, <1>p DEF RemoveRow, DeletionPC, TypeOK, histories
<1>4. CASE DeleteClient(x, c)
  BY <1>4, <1>t, <1>p DEF DeleteClient, DeletionPC, TypeOK, histories
<1>5. CASE RefuseDeletion(x, c)
  <2>1. failures' \in 0 .. MaxFailures
    BY <1>5, <1>t, BoundsAssumption DEF RefuseDeletion, Fail, TypeOK
  <2>2. spared' \in SUBSET Clients
    BY <1>5, <1>t DEF RefuseDeletion, TypeOK
  <2> QED
    BY <1>5, <1>t, <1>p, <2>1, <2>2 DEF RefuseDeletion, DeletionPC, TypeOK
<1> QED
  BY <1>1, <1>2, <1>3, <1>4, <1>5

LEMMA DismissalType == Structure /\ DismissalStep => TypeOK'
<1> SUFFICES ASSUME Structure, NEW d \in Dismissals,
                    \/ \E t \in Tenants : StartDismissal(d, t)
                    \/ BeginTransaction(d) \/ ListClients(d) \/ DeleteTenantRow(d)
                    \/ EndDismissal(d)
             PROVE  TypeOK'
  BY DEF DismissalStep, Dismiss
<1>t. TypeOK
  BY DEF Structure
<1>a. dismissal[d] # Null =>
        /\ dismissal[d].tenant \in Tenants
        /\ \A pc \in {"begun", "clients"} : [dismissal[d] EXCEPT !.pc = pc] \in Dismissal
  BY <1>t DEF TypeOK, Dismissal
<1>1. ASSUME NEW t \in Tenants, StartDismissal(d, t) PROVE TypeOK'
  <2>1. [pc |-> "asked", tenant |-> t] \in Dismissal
    BY DEF Dismissal
  <2> QED
    BY <1>1, <1>t, <2>1 DEF StartDismissal, TypeOK, histories
<1>2. CASE BeginTransaction(d)
  BY <1>2, <1>t, <1>a DEF BeginTransaction, DismissalAt, TypeOK, histories
<1>3. CASE ListClients(d)
  <2>1. deletion' \in [Callers -> [Clients -> DeletionPC]]
    BY <1>3, <1>t DEF ListClients, Callers, DeletionPC, TypeOK
  <2>2. dismissal' \in [Dismissals -> Dismissal \cup {Null}]
    BY <1>3, <1>t, <1>a DEF ListClients, DismissalAt, TypeOK
  <2> QED
    BY <1>3, <1>t, <2>1, <2>2 DEF ListClients, TypeOK, histories
<1>4. CASE DeleteTenantRow(d)
  BY <1>4, <1>t DEF DeleteTenantRow, TypeOK, histories
<1>5. CASE EndDismissal(d)
  <2>1. failures' \in 0 .. MaxFailures
    BY <1>5, <1>t, BoundsAssumption DEF EndDismissal, Fail, TypeOK
  <2>2. deletion' \in [Callers -> [Clients -> DeletionPC]]
    BY <1>5, <1>t DEF EndDismissal, NoDeletion, DeletionPC, TypeOK
  <2> QED
    BY <1>5, <1>t, <2>1, <2>2 DEF EndDismissal, TypeOK
<1> QED
  BY <1>1, <1>2, <1>3, <1>4, <1>5

\* A row that is stored without an answer, and what becomes of its client.
LEMMA UnheardType == Structure /\ UnheardStep => TypeOK'
<1> SUFFICES ASSUME Structure, NEW c \in Clients,
                    LoseInsert(c) \/ UndoStored(c) \/ LeaveStored(c)
             PROVE  TypeOK'
  BY DEF UnheardStep
<1>t. TypeOK
  BY DEF Structure
<1>1. CASE LoseInsert(c)
  <2>1. creation[c] \in Creation
    BY <1>1, <1>t DEF LoseInsert, Creating, TypeOK
  <2>2. [tenant |-> creation[c].tenant, name |-> creation[c].name] \in Row
    BY <2>1 DEF Creation, Row
  <2>3. rows' \in [Clients -> Row \cup {Null}]
    BY <1>1, <1>t, <2>2 DEF LoseInsert, TypeOK
  <2>4. failures' \in 0 .. MaxFailures
    BY <1>1, <1>t, BoundsAssumption DEF LoseInsert, Fail, TypeOK
  <2> QED
    BY <1>1, <1>t, <2>3, <2>4 DEF LoseInsert, Stop, TypeOK, histories
<1>2. CASE UndoStored(c)
  BY <1>2, <1>t DEF UndoStored, TypeOK, histories
<1>3. CASE LeaveStored(c)
  <2>1. failures' \in 0 .. MaxFailures
    BY <1>3, <1>t, BoundsAssumption DEF LeaveStored, Fail, TypeOK
  <2> QED
    BY <1>3, <1>t, <2>1 DEF LeaveStored, TypeOK, histories
<1> QED
  BY <1>1, <1>2, <1>3

LEMMA OtherType == Structure /\ OtherStep => TypeOK'
BY LapsedAssumption
DEF Structure, TypeOK, OtherStep, BeginFounding, EndFounding, MeetExpired, LiftExpired,
    FounderPC, histories

LEMMA TypeStep == Structure /\ [Next]_vars => TypeOK'
<1>1. Structure /\ UNCHANGED vars => TypeOK'
  BY DEF Structure, vars, histories, TypeOK
<1> QED
  BY <1>1, CreationType, UnheardType, DeletionType, DismissalType, OtherType DEF Next

-----------------------------------------------------------------------------
(* Deletions of a tenant's clients belong to their phase.                  *)

LEMMA PhasesStep == Structure /\ [Next]_vars => Phases'
<1> SUFFICES ASSUME Structure, [Next]_vars, NEW d \in Dismissals
             PROVE  (dismissal[d] = Null \/ dismissal[d].pc # "clients"
                       => deletion[d] = NoDeletion)'
  BY DEF Phases
<1>t. TypeOK /\ (dismissal[d] = Null \/ dismissal[d].pc # "clients" => deletion[d] = NoDeletion)
  BY DEF Structure, Phases
<1>d. d \in Callers /\ NoDeletion \in [Clients -> DeletionPC]
  BY DEF Callers, NoDeletion, DeletionPC
<1>n. NoDeletion' = NoDeletion
  BY DEF NoDeletion
<1>1. CASE UNCHANGED <<dismissal, deletion>>
  BY <1>1, <1>t, <1>n
<1>2. ASSUME CreationStep \/ UnheardStep \/ OtherStep \/ UNCHANGED vars
      PROVE  UNCHANGED <<dismissal, deletion>>
  BY <1>2 DEF UnheardStep, LoseInsert, UndoStored, LeaveStored, CreationStep, CheckName,
     PostClient, SetAttributes, AssignRole, InsertRow,
     UndoClient, RefuseCreation, AbandonCreation, OtherStep, BeginFounding, EndFounding,
     MeetExpired, LiftExpired, vars
<1>3. CASE DeletionStep
  <2> PICK c \in Clients, x \in Callers :
         \/ x \in Deleters /\ AskDeletion(x, c)
         \/ FindRow(x, c) \/ RemoveRow(x, c) \/ DeleteClient(x, c) \/ RefuseDeletion(x, c)
    BY <1>3 DEF DeletionStep, Handle, Callers
  <2>1. UNCHANGED dismissal /\ \E pc \in DeletionPC : Proceed(x, c, pc)
    BY DEF AskDeletion, FindRow, RemoveRow, DeleteClient, RefuseDeletion, DeletionPC
  <2>2. CASE x # d
    BY <2>1, <2>2, <1>t, <1>n, <1>d DEF Proceed, TypeOK
  <2>3. CASE x = d
    <3>1. deletion[d][c] # "none"
      BY <2>3, CallersAssumption
      DEF FindRow, RemoveRow, DeleteClient, RefuseDeletion, Deleting
    <3>2. dismissal[d] # Null /\ dismissal[d].pc = "clients"
      BY <3>1, <1>t DEF NoDeletion
    <3> QED
      BY <2>1, <3>2
  <2> QED
    BY <2>2, <2>3
<1>4. CASE DismissalStep
  <2> PICK e \in Dismissals :
         \/ \E t \in Tenants : StartDismissal(e, t)
         \/ BeginTransaction(e) \/ ListClients(e) \/ DeleteTenantRow(e) \/ EndDismissal(e)
    BY <1>4 DEF DismissalStep, Dismiss
  <2>e. e \in Callers
    BY DEF Callers
  <2>1. CASE e # d
    BY <2>1, <2>e, <1>t, <1>n, <1>d
    DEF StartDismissal, BeginTransaction, ListClients, DeleteTenantRow, EndDismissal, TypeOK
  <2>2. CASE e = d
    <3>1. CASE \E t \in Tenants : StartDismissal(d, t)
      BY <3>1, <1>t, <1>n DEF StartDismissal
    <3>2. CASE BeginTransaction(d)
      BY <3>2, <1>t, <1>n DEF BeginTransaction, DismissalAt
    <3>3. CASE ListClients(d)
      <4>1. dismissal[d] \in Dismissal
        BY <3>3, <1>t DEF ListClients, DismissalAt, TypeOK
      <4> QED
        BY <3>3, <4>1, <1>t, NullAssumption DEF ListClients, TypeOK, Dismissal
    <3>4. CASE DeleteTenantRow(d)
      BY <3>4, <1>t, <1>n DEF DeleteTenantRow
    <3>5. CASE EndDismissal(d)
      BY <3>5, <1>t, <1>n, <1>d DEF EndDismissal, TypeOK
    <3> QED
      BY <2>2, <3>1, <3>2, <3>3, <3>4, <3>5
  <2> QED
    BY <2>1, <2>2
<1> QED
  BY <1>1, <1>2, <1>3, <1>4 DEF Next

-----------------------------------------------------------------------------
(* What is known of each client stays true.                                *)

\* A step that has nothing to do with client c.
Apart(c) ==
    /\ rows'[c] = rows[c] /\ clients'[c] = clients[c] /\ creation'[c] = creation[c]
    /\ c \in unborn' <=> c \in unborn
    /\ c \in undoing' <=> c \in undoing
    /\ c \in unheard' <=> c \in unheard
    /\ \A x \in Callers : deletion'[x][c] = deletion[x][c]

LEMMA ApartKeeps ==
    ASSUME NEW c \in Clients, Local(c), Apart(c)
    PROVE  Local(c)'
BY DEF Apart, Local, CreationOk, RowOk, UnbornOk, DeletionOk, UndoingOk, SetUp, Working, BlankClient

LEMMA CreationApart ==
    ASSUME Structure, NEW b \in Clients, NEW c \in Clients, b # c,
           \/ \E t \in Tenants, n \in Names : CheckName(b, t, n)
           \/ PostClient(b) \/ SetAttributes(b) \/ AssignRole(b)
           \/ InsertRow(b) \/ UndoClient(b)
           \/ RefuseCreation(b) \/ AbandonCreation(b)
    PROVE  Apart(c)
<1>t. TypeOK
  BY DEF Structure
<1>1. \A v : creation' = [creation EXCEPT ![b] = v] => creation'[c] = creation[c]
  BY <1>t DEF TypeOK
<1>2. \A pc : Advance(b, pc) \/ Stop(b) => creation'[c] = creation[c]
  BY <1>t DEF Advance, Stop, TypeOK
<1> QED
  BY <1>t, <1>1, <1>2 DEF Apart, TypeOK, CheckName, PostClient, SetAttributes, AssignRole,
     InsertRow, UndoClient, RefuseCreation, AbandonCreation

\* A creation's own step.
LEMMA CreationLocal ==
    ASSUME Structure, NEW c \in Clients,
           \/ \E t \in Tenants, n \in Names : CheckName(c, t, n)
           \/ PostClient(c) \/ SetAttributes(c) \/ AssignRole(c)
           \/ InsertRow(c) \/ UndoClient(c)
           \/ RefuseCreation(c) \/ AbandonCreation(c)
    PROVE  Local(c)'
<1>t. TypeOK /\ Local(c)
  BY DEF Structure
<1> DEFINE next(pc) == [creation[c] EXCEPT !.pc = pc]
<1>a. creation[c] # Null =>
        /\ creation[c] \in Creation
        /\ \A pc \in CreationPC : /\ next(pc) \in Creation
                                  /\ next(pc).pc = pc
                                  /\ next(pc).tenant = creation[c].tenant
                                  /\ next(pc).name = creation[c].name
  BY <1>t, Moved DEF TypeOK
<1>b. \A pc \in CreationPC : Advance(c, pc) => creation'[c] = next(pc)
  BY <1>t DEF Advance, TypeOK
<1>c. Stop(c) => creation'[c] = Null
  BY <1>t DEF Stop, TypeOK
<1>d. creation[c] # Null =>
        /\ c \notin unborn /\ c \notin undoing
        /\ rows[c] = Null /\ clients[c] = SetUp(creation[c])
        /\ \A x \in Callers : deletion[x][c] = "none"
  BY <1>t DEF Local, CreationOk, UndoingOk
<1>v. UNCHANGED <<undoing, unheard>>
  BY DEF CheckName, PostClient, SetAttributes, AssignRole, InsertRow, UndoClient,
         RefuseCreation, AbandonCreation
<1>e. ASSUME creation[c] # Null, deletion' = deletion, unborn' = unborn, rows' = rows,
             \/ creation'[c] = Null
             \/ creation'[c] # Null /\ clients'[c] = SetUp(creation'[c])
      PROVE  Local(c)'
  <2>1. UndoingOk(c)'
    BY <1>d, <1>e, <1>v DEF UndoingOk
  <2>2. CreationOk(c)'
    BY <1>d, <1>e DEF CreationOk, SetUp, Working, BlankClient
  <2>3. RowOk(c)' /\ UnbornOk(c)' /\ DeletionOk(c)'
    BY <1>d, <1>e DEF RowOk, UnbornOk, DeletionOk
  <2> QED
    BY <2>1, <2>2, <2>3 DEF Local
<1>f. \A pc \in CreationPC : creation[c] # Null => next(pc) # Null
  BY <1>a, NullAssumption
<1> HIDE DEF next
<1>1. ASSUME NEW t \in Tenants, NEW n \in Names, CheckName(c, t, n) PROVE Local(c)'
  <2> DEFINE a == [pc |-> "checked", tenant |-> t, name |-> n]
  <2>1. a \in Creation /\ a.pc = "checked"
    BY DEF Creation, CreationPC
  <2>2. a # Null
    BY <2>1, NullAssumption
  <2>3. creation'[c] = a
    BY <1>1, <1>t DEF CheckName, TypeOK
  <2>4. /\ c \in unborn /\ c \notin unborn'
        /\ UNCHANGED <<rows, clients, deletion>>
    BY <1>1 DEF CheckName
  <2>5. rows[c] = Null /\ clients[c] = Null /\ c \notin undoing
    BY <2>4, <1>t DEF Local, RowOk, UnbornOk, UndoingOk
  <2>6. \A x \in Callers : deletion[x][c] = "none"
    BY <2>4, <1>t DEF Local, DeletionOk
  <2>7. SetUp(a) = Null
    BY <2>1 DEF SetUp
  <2> HIDE DEF a
  <2> QED
    BY <2>2, <2>3, <2>4, <2>5, <2>6, <2>7, <1>v
    DEF Local, CreationOk, RowOk, UnbornOk, DeletionOk, UndoingOk, SetUp, Working, BlankClient
<1>2. CASE PostClient(c)
  <2>1. creation[c] # Null /\ UNCHANGED <<deletion, unborn, rows>>
    BY <1>2 DEF PostClient, Creating
  <2>2. CASE Conflict(c)
    BY <1>2, <2>1, <2>2, <1>c, <1>e DEF PostClient
  <2>3. CASE ~ Conflict(c)
    <3>1. clients'[c] = SetUp(next("posted"))
      BY <1>2, <2>3, <1>t, SetUpSteps DEF TypeOK, next
    <3>2. creation'[c] = next("posted")
      BY <1>2, <2>3, <1>b DEF PostClient, CreationPC
    <3>3. next("posted") # Null
      BY <2>1, <1>f DEF CreationPC
    <3> QED
      BY <2>1, <3>1, <3>2, <3>3, <1>e
  <2> QED
    BY <2>2, <2>3
<1>3. CASE SetAttributes(c)
  <2>1. creation[c] # Null /\ UNCHANGED <<deletion, unborn, rows>>
    BY <1>3 DEF SetAttributes, Creating
  <2>2. clients'[c] = SetUp(next("scoped"))
    BY <1>3, <1>t, SetUpSteps DEF TypeOK, next
  <2>3. creation'[c] = next("scoped")
    BY <1>3, <1>b DEF SetAttributes, CreationPC
  <2>4. next("scoped") # Null
    BY <2>1, <1>f DEF CreationPC
  <2> QED
    BY <2>1, <2>2, <2>3, <2>4, <1>e
<1>4. CASE AssignRole(c)
  <2>1. creation[c] # Null /\ UNCHANGED <<deletion, unborn, rows>>
    BY <1>4 DEF AssignRole, Creating
  <2>2. clients'[c] = SetUp(next("complete"))
    BY <1>4, <1>t, SetUpSteps DEF TypeOK, next
  <2>3. creation'[c] = next("complete")
    BY <1>4, <1>b DEF AssignRole, CreationPC
  <2>4. next("complete") # Null
    BY <2>1, <1>f DEF CreationPC
  <2> QED
    BY <2>1, <2>2, <2>3, <2>4, <1>e
<1>5. ASSUME creation[c] # Null, creation[c].pc = "complete" PROVE
        /\ SetUp(creation[c]) = Working(creation[c])
        /\ SetUp(next("undoing")) = Working(creation[c])
  BY <1>5, <1>a DEF SetUp, Working, CreationPC
<1>6. CASE InsertRow(c)
  <2>1. /\ creation[c] # Null /\ creation[c].pc = "complete"
        /\ UNCHANGED <<deletion, unborn, clients>>
    BY <1>6 DEF InsertRow, Creating
  <2>2. clients[c] = Working(creation[c])
    BY <2>1, <1>d, <1>5
  <2>3. CASE rows' = rows /\ Advance(c, "undoing")
    <3>1. creation'[c] = next("undoing") /\ next("undoing") # Null
      BY <2>1, <2>3, <1>b, <1>f DEF CreationPC
    <3>2. clients'[c] = SetUp(creation'[c])
      BY <2>1, <2>2, <3>1, <1>5
    <3> QED
      BY <2>1, <2>3, <3>1, <3>2, <1>e
  <2>4. CASE /\ rows' = [rows EXCEPT ![c] = [tenant |-> creation[c].tenant, name |-> creation[c].name]]
             /\ Stop(c)
    <3>1. rows'[c] = [tenant |-> creation[c].tenant, name |-> creation[c].name]
      BY <2>4, <1>t DEF TypeOK
    <3>2. clients'[c] = Working(rows'[c])
      BY <2>1, <2>2, <3>1 DEF Working
    <3>3. UndoingOk(c)'
      BY <2>1, <1>d, <1>v DEF UndoingOk
    <3>4. CreationOk(c)' /\ UnbornOk(c)' /\ DeletionOk(c)'
      BY <2>1, <2>4, <1>c, <1>d DEF CreationOk, UnbornOk, DeletionOk
    <3>5. RowOk(c)'
      BY <2>1, <3>2, <1>d DEF RowOk, Working
    <3> QED
      BY <3>3, <3>4, <3>5 DEF Local
  <2> QED
    BY <1>6, <2>3, <2>4 DEF InsertRow
<1>7. CASE UndoClient(c)
  BY <1>7, <1>c, <1>e DEF UndoClient, Creating
<1>8. CASE RefuseCreation(c)
  <2>1. creation[c] # Null /\ UNCHANGED <<deletion, unborn, rows, clients>>
    BY <1>8 DEF RefuseCreation
  <2>2. CASE Stop(c)
    BY <2>1, <2>2, <1>c, <1>e
  <2>3. CASE creation[c].pc = "complete" /\ Advance(c, "undoing")
    <3>1. creation'[c] = next("undoing") /\ next("undoing") # Null
      BY <2>1, <2>3, <1>b, <1>f DEF CreationPC
    <3>2. clients'[c] = SetUp(creation'[c])
      BY <2>1, <2>3, <3>1, <1>5, <1>d
    <3> QED
      BY <2>1, <3>1, <3>2, <1>e
  <2> QED
    BY <1>8, <2>2, <2>3 DEF RefuseCreation, UndoneFrom
<1>9. CASE AbandonCreation(c)
  BY <1>9, <1>c, <1>e DEF AbandonCreation
<1> QED
  BY <1>1, <1>2, <1>3, <1>4, <1>6, <1>7, <1>8, <1>9

\* A step of the deletion of client b.
LEMMA DeletionLocal ==
    ASSUME Structure, NEW b \in Clients, NEW x \in Callers, NEW c \in Clients,
           \/ AskDeletion(x, b) \/ FindRow(x, b) \/ RemoveRow(x, b)
           \/ DeleteClient(x, b) \/ RefuseDeletion(x, b)
    PROVE  Local(c)'
<1>t. TypeOK /\ Local(c)
  BY DEF Structure
<1>p. \A pc : Proceed(x, b, pc) =>
        \A y \in Callers : deletion'[y][c] = IF y = x /\ c = b THEN pc ELSE deletion[y][c]
  BY <1>t DEF Proceed, TypeOK
<1>u. UNCHANGED <<unborn, creation, undoing, unheard>>
  BY DEF AskDeletion, FindRow, RemoveRow, DeleteClient, RefuseDeletion
<1>1. CASE b # c
  <2>1. rows'[c] = rows[c] /\ clients'[c] = clients[c]
    BY <1>1, <1>t
    DEF AskDeletion, FindRow, RemoveRow, DeleteClient, RefuseDeletion, TypeOK
  <2>2. \A y \in Callers : deletion'[y][c] = deletion[y][c]
    BY <1>1, <1>p DEF AskDeletion, FindRow, RemoveRow, DeleteClient, RefuseDeletion
  <2> QED
    BY <1>t, <1>u, <2>1, <2>2, ApartKeeps DEF Apart
<1>2. CASE b = c
  <2>1. CASE AskDeletion(x, c)
    <3>1. rows[c] # Null /\ Proceed(x, b, "asked") /\ UNCHANGED <<rows, clients>>
      BY <1>2, <2>1 DEF AskDeletion
    <3>2. c \notin unborn /\ creation[c] = Null
      BY <3>1, <1>t DEF Local, RowOk, CreationOk
    <3> QED
      BY <1>2, <1>t, <1>u, <1>p, <3>1, <3>2
      DEF Local, CreationOk, RowOk, UnbornOk, DeletionOk, UndoingOk, Working
  <2>2. ASSUME deletion[x][c] # "none" PROVE c \notin unborn /\ creation[c] = Null
    BY <2>2, <1>t DEF Local, DeletionOk
  <2>3. CASE FindRow(x, c)
    <3>1. \/ Proceed(x, b, "found") \/ Proceed(x, b, "none")
      BY <1>2, <2>3 DEF FindRow
    <3>2. deletion[x][c] = "asked" /\ UNCHANGED <<rows, clients>>
      BY <2>3 DEF FindRow, Deleting
    <3> QED
      BY <1>2, <1>t, <1>u, <1>p, <2>2, <3>1, <3>2
      DEF Local, CreationOk, RowOk, UnbornOk, DeletionOk, UndoingOk, Working
  <2>4. CASE RemoveRow(x, c)
    <3>1. /\ deletion[x][c] = "found" /\ Proceed(x, b, "removed") /\ UNCHANGED clients
          /\ rows'[c] = Null
      BY <1>2, <2>4, <1>t DEF RemoveRow, Deleting, TypeOK
    <3> QED
      BY <1>2, <1>t, <1>u, <1>p, <2>2, <3>1
      DEF Local, CreationOk, RowOk, UnbornOk, DeletionOk, UndoingOk, Working
  <2>5. CASE DeleteClient(x, c)
    <3>1. /\ deletion[x][c] = "removed" /\ Proceed(x, b, "none") /\ UNCHANGED rows
          /\ clients'[c] = Null
      BY <1>2, <2>5, <1>t DEF DeleteClient, Deleting, TypeOK
    <3>2. rows[c] = Null
      BY <3>1, <1>t DEF Local, DeletionOk
    <3> QED
      BY <1>2, <1>t, <1>u, <1>p, <2>2, <3>1, <3>2
      DEF Local, CreationOk, RowOk, UnbornOk, DeletionOk, UndoingOk, Working
  <2>6. CASE RefuseDeletion(x, c)
    <3>1. deletion[x][c] # "none" /\ Proceed(x, b, "none") /\ UNCHANGED <<rows, clients>>
      BY <1>2, <2>6 DEF RefuseDeletion
    <3> QED
      BY <1>2, <1>t, <1>u, <1>p, <2>2, <3>1
      DEF Local, CreationOk, RowOk, UnbornOk, DeletionOk, UndoingOk, Working
  <2> QED
    BY <1>2, <2>1, <2>3, <2>4, <2>5, <2>6
<1> QED
  BY <1>1, <1>2

\* A step of the deletion of a tenant.
LEMMA DismissalLocal ==
    ASSUME Structure, NEW d \in Dismissals, NEW c \in Clients,
           \/ \E t \in Tenants : StartDismissal(d, t)
           \/ BeginTransaction(d) \/ ListClients(d) \/ DeleteTenantRow(d)
           \/ EndDismissal(d)
    PROVE  Local(c)'
<1>t. TypeOK /\ Local(c) /\ d \in Callers
  BY DEF Structure, Callers
<1>u. UNCHANGED <<unborn, creation, clients, undoing, unheard>>
  BY DEF StartDismissal, BeginTransaction, ListClients, DeleteTenantRow, EndDismissal
<1>1. CASE BeginTransaction(d) \/ \E t \in Tenants : StartDismissal(d, t)
  BY <1>1, <1>t, <1>u, ApartKeeps DEF Apart, BeginTransaction, StartDismissal
<1>2. CASE ListClients(d)
  <2>1. rows' = rows
    BY <1>2 DEF ListClients
  <2>2. \A x \in Callers : deletion'[x][c] # deletion[x][c] =>
           \/ deletion'[x][c] = "asked" /\ rows[c] # Null
           \/ deletion'[x][c] = "none"
    BY <1>2, <1>t DEF ListClients, TypeOK
  <2>3. rows[c] # Null => c \notin unborn /\ creation[c] = Null
    BY <1>t DEF Local, RowOk, CreationOk
  <2> QED
    BY <1>t, <1>u, <2>1, <2>2, <2>3
    DEF Local, CreationOk, RowOk, UnbornOk, DeletionOk, UndoingOk, Working
<1>3. CASE DeleteTenantRow(d)
  <2>1. deletion' = deletion /\ rows'[c] \in {Null, rows[c]}
    BY <1>3 DEF DeleteTenantRow
  <2> QED
    BY <1>t, <1>u, <2>1
    DEF Local, CreationOk, RowOk, UnbornOk, DeletionOk, UndoingOk, Working
<1>4. CASE EndDismissal(d)
  <2>1. rows' = rows
    BY <1>4 DEF EndDismissal
  <2>2. \A x \in Callers : deletion'[x][c] \in {"none", deletion[x][c]}
    BY <1>4, <1>t DEF EndDismissal, NoDeletion, TypeOK
  <2> QED
    BY <1>t, <1>u, <2>1, <2>2
    DEF Local, CreationOk, RowOk, UnbornOk, DeletionOk, UndoingOk, Working
<1> QED
  BY <1>1, <1>2, <1>3, <1>4

\* A row that is stored without an answer, and what becomes of its client.
LEMMA UnheardLocal ==
    ASSUME Structure, NEW b \in Clients, NEW c \in Clients,
           LoseInsert(b) \/ UndoStored(b) \/ LeaveStored(b)
    PROVE  Local(c)'
<1>t. TypeOK /\ Local(c)
  BY DEF Structure
<1>u. UNCHANGED <<unborn, deletion>>
  BY DEF LoseInsert, UndoStored, LeaveStored
<1>1. CASE b # c
  <2>1. /\ rows'[c] = rows[c] /\ clients'[c] = clients[c] /\ creation'[c] = creation[c]
        /\ (c \in undoing' <=> c \in undoing) /\ (c \in unheard' <=> c \in unheard)
    BY <1>1, <1>t DEF LoseInsert, UndoStored, LeaveStored, Stop, TypeOK
  <2> QED
    BY <1>t, <1>u, <2>1, ApartKeeps DEF Apart
<1>2. CASE b = c /\ LoseInsert(b)
  <2>1. /\ creation[c] # Null /\ creation[c].pc = "complete"
        /\ clients' = clients /\ c \in unheard'
    BY <1>2 DEF LoseInsert, Creating
  <2>2. creation'[c] = Null
    BY <1>2, <1>t DEF LoseInsert, Stop, TypeOK
  <2>3. rows'[c] = [tenant |-> creation[c].tenant, name |-> creation[c].name]
    BY <1>2, <1>t DEF LoseInsert, TypeOK
  <2>4. /\ c \notin unborn /\ \A x \in Callers : deletion[x][c] = "none"
        /\ clients[c] = Working(creation[c])
    BY <2>1, <1>t DEF Local, CreationOk, SetUp
  <2>5. clients'[c] = Working(rows'[c])
    BY <2>1, <2>3, <2>4 DEF Working
  <2> QED
    BY <1>u, <2>1, <2>2, <2>4, <2>5
    DEF Local, CreationOk, RowOk, UnbornOk, DeletionOk, UndoingOk, Working
<1>3. CASE b = c /\ (UndoStored(b) \/ LeaveStored(b))
  <2>1. /\ c \in undoing /\ c \notin undoing'
        /\ UNCHANGED <<rows, creation, unheard>>
        /\ clients'[c] \in {clients[c], Null}
    BY <1>3, <1>t DEF UndoStored, LeaveStored, TypeOK
  <2>2. c \in unheard /\ c \notin unborn /\ creation[c] = Null
    BY <2>1, <1>t DEF Local, UndoingOk
  <2> QED
    BY <1>t, <1>u, <2>1, <2>2
    DEF Local, CreationOk, RowOk, UnbornOk, DeletionOk, UndoingOk, Working
<1> QED
  BY <1>1, <1>2, <1>3

LEMMA LocalStep ==
    ASSUME Structure, [Next]_vars, NEW c \in Clients
    PROVE  Local(c)'
<1>1. Local(c)
  BY DEF Structure
<1>2. CASE OtherStep \/ UNCHANGED vars
  <2>1. UNCHANGED <<rows, clients, creation, unborn, deletion, undoing, unheard>>
    BY <1>2 DEF OtherStep, BeginFounding, EndFounding, MeetExpired, LiftExpired, vars
  <2> QED
    BY <1>1, <2>1, ApartKeeps DEF Apart
<1>3. CASE CreationStep
  <2> PICK b \in Clients :
         \/ \E t \in Tenants, n \in Names : CheckName(b, t, n)
         \/ PostClient(b) \/ SetAttributes(b) \/ AssignRole(b)
         \/ InsertRow(b) \/ UndoClient(b)
         \/ RefuseCreation(b) \/ AbandonCreation(b)
    BY <1>3 DEF CreationStep
  <2>1. CASE b = c
    BY <2>1, CreationLocal
  <2>2. CASE b # c
    BY <1>1, <2>2, CreationApart, ApartKeeps
  <2> QED
    BY <2>1, <2>2
<1>4. CASE DeletionStep
  BY <1>4, DeletionLocal DEF DeletionStep, Handle, Callers
<1>5. CASE DismissalStep
  BY <1>5, DismissalLocal DEF DismissalStep, Dismiss
<1>6. CASE UnheardStep
  BY <1>6, UnheardLocal DEF UnheardStep
<1> QED
  BY <1>2, <1>3, <1>4, <1>5, <1>6 DEF Next

LEMMA StructureStep == Structure /\ [Next]_vars => Structure'
BY TypeStep, PhasesStep, LocalStep DEF Structure

\* Every reachable state is typed, for any tenants, names, requests and any
\* size of the pool.
THEOREM ApiClientsTypes == Spec => []TypeOK
<1>1. Structure => TypeOK
  BY DEF Structure
<1> QED
  BY <1>1, StructureInit, StructureStep, PTL DEF Spec

\* A listed API client works, for its tenant, or was undone because the answer
\* to its INSERT got lost, for any number of overlapping creations, deletions
\* and failures.
THEOREM ListedClientsWork == Spec => []RowsWork
<1>1. Structure => RowsWork
  BY DEF Structure, Local, RowOk, RowsWork, Working
<1> QED
  BY <1>1, StructureInit, StructureStep, PTL DEF Spec

-----------------------------------------------------------------------------
(* Conflicts.                                                              *)

\* No two clients of Keycloak share their clientId.
Distinct ==
    \A b, c \in Clients :
        b # c /\ clients[b] # Null /\ clients[c] # Null =>
            clients[b].clientId # clients[c].clientId

\* A step keeps the clientId of a client, removes it, or posts a new one.
LEMMA ClientAfter ==
    ASSUME Structure, [Next]_vars, NEW c \in Clients
    PROVE  \/ clients'[c] = Null
           \/ clients[c] # Null /\ clients'[c].clientId = clients[c].clientId
           \/ /\ PostClient(c) /\ ~ Conflict(c)
              /\ clients' = [clients EXCEPT ![c] = BlankClient(creation[c].name)]
<1>t. TypeOK
  BY DEF Structure
<1>1. CASE clients'[c] = clients[c]
  BY <1>1
<1>2. CASE OtherStep \/ DismissalStep \/ UNCHANGED vars
  BY <1>2, <1>1
  DEF OtherStep, BeginFounding, EndFounding, MeetExpired, LiftExpired, vars, DismissalStep,
      Dismiss, StartDismissal, BeginTransaction, ListClients, DeleteTenantRow, EndDismissal
<1>3. CASE DeletionStep
  <2>1. \E b \in Clients : clients' = clients \/ clients' = [clients EXCEPT ![b] = Null]
    BY <1>3 DEF DeletionStep, Handle, AskDeletion, FindRow, RemoveRow, DeleteClient, RefuseDeletion
  <2> QED
    BY <2>1, <1>1, <1>t DEF TypeOK
<1>4. CASE CreationStep
  <2> PICK b \in Clients :
         \/ \E t \in Tenants, n \in Names : CheckName(b, t, n)
         \/ PostClient(b) \/ SetAttributes(b) \/ AssignRole(b)
         \/ InsertRow(b) \/ UndoClient(b)
         \/ RefuseCreation(b) \/ AbandonCreation(b)
    BY <1>4 DEF CreationStep
  <2>1. CASE b # c
    BY <2>1, <1>1, CreationApart DEF Apart
  <2>2. CASE b = c
    <3>1. creation[c] # Null => creation[c] \in Creation /\ clients[c] = SetUp(creation[c])
      BY <1>t DEF Structure, Local, CreationOk, TypeOK
    <3>2. CASE PostClient(c)
      BY <3>2, <1>1 DEF PostClient
    <3>3. CASE SetAttributes(c)
      <4>1. clients[c] # Null /\ clients[c] \in Client
        <5>1. creation[c] # Null /\ creation[c].pc = "posted"
          BY <3>3 DEF SetAttributes, Creating
        <5>2. SetUp(creation[c]) \in Client
          BY <3>1, <5>1, SetUpType
        <5> QED
          BY <3>1, <5>1, <5>2, NullAssumption
      <4>2. clients'[c] = [clients[c] EXCEPT !.tenant = creation[c].tenant]
        BY <3>3, <1>t DEF SetAttributes, TypeOK
      <4> QED
        BY <4>1, <4>2 DEF Client
    <3>4. CASE AssignRole(c)
      <4>1. clients[c] # Null /\ clients[c] \in Client
        <5>1. creation[c] # Null /\ creation[c].pc = "scoped"
          BY <3>4 DEF AssignRole, Creating
        <5>2. SetUp(creation[c]) \in Client
          BY <3>1, <5>1, SetUpType
        <5> QED
          BY <3>1, <5>1, <5>2, NullAssumption
      <4>2. PICK r : clients'[c] = [clients[c] EXCEPT !.roles = r]
        BY <3>4, <1>t DEF AssignRole, TypeOK
      <4> QED
        BY <4>1, <4>2 DEF Client
    <3>5. CASE UndoClient(c)
      BY <3>5, <1>t DEF UndoClient, TypeOK
    <3>6. CASE \/ \E t \in Tenants, n \in Names : CheckName(c, t, n)
               \/ InsertRow(c) \/ RefuseCreation(c) \/ AbandonCreation(c)
      BY <3>6, <1>1 DEF CheckName, InsertRow, RefuseCreation, AbandonCreation
    <3> QED
      BY <2>2, <3>2, <3>3, <3>4, <3>5, <3>6
  <2> QED
    BY <2>1, <2>2
<1>5. CASE UnheardStep
  <2>1. \E b \in Clients : clients' = clients \/ clients' = [clients EXCEPT ![b] = Null]
    BY <1>5 DEF UnheardStep, LoseInsert, UndoStored, LeaveStored
  <2> QED
    BY <2>1, <1>1, <1>t DEF TypeOK
<1> QED
  BY <1>2, <1>3, <1>4, <1>5 DEF Next

LEMMA DistinctStep == Structure /\ Distinct /\ [Next]_vars => Distinct'
<1> SUFFICES ASSUME Structure, Distinct, [Next]_vars,
                    NEW b \in Clients, NEW c \in Clients, b # c,
                    clients'[b] # Null, clients'[c] # Null
             PROVE  clients'[b].clientId # clients'[c].clientId
  BY DEF Distinct
<1>t. TypeOK
  BY DEF Structure
<1>1. \A a \in Clients :
         \/ clients'[a] = Null
         \/ clients[a] # Null /\ clients'[a].clientId = clients[a].clientId
         \/ /\ PostClient(a) /\ ~ Conflict(a)
            /\ clients' = [clients EXCEPT ![a] = BlankClient(creation[a].name)]
  BY ClientAfter
<1>2. ASSUME NEW a \in Clients, NEW e \in Clients, a # e, PostClient(a), ~ Conflict(a),
             clients' = [clients EXCEPT ![a] = BlankClient(creation[a].name)],
             clients'[e] # Null
      PROVE  clients'[a].clientId # clients'[e].clientId
  <2>1. clients'[e] = clients[e] /\ clients'[a] = BlankClient(creation[a].name)
    BY <1>2, <1>t DEF TypeOK
  <2>2. clients[e].clientId # ClientIdOf[creation[a].name]
    BY <1>2, <2>1 DEF Conflict
  <2> QED
    BY <2>1, <2>2 DEF BlankClient
<1>3. CASE clients[b] # Null /\ clients'[b].clientId = clients[b].clientId
           /\ clients[c] # Null /\ clients'[c].clientId = clients[c].clientId
  BY <1>3 DEF Distinct
<1> QED
  BY <1>1, <1>2, <1>3

\* The creation of a client that is complete finds its name and its clientId
\* free, or taken by a row whose client was undone because the answer to its
\* INSERT got lost, for any names and any number of creations and deletions.
THEOREM ConflictsComeEarly == Spec => []ConflictsAreEarly
<1>1. Init => Distinct
  BY DEF Init, Distinct
<1>2. Structure /\ Distinct => ConflictsAreEarly
  <2> SUFFICES ASSUME Structure, Distinct, NEW c \in Clients, Creating(c, "complete"),
                      NEW b \in Clients, rows[b] # Null,
                      \/ rows[b].name = creation[c].name
                      \/ ClientIdOf[rows[b].name] = ClientIdOf[creation[c].name],
                      ~ (b \in unheard /\ clients[b] = Null)
               PROVE  FALSE
    BY DEF ConflictsAreEarly, Takers
  <2>1. rows[c] = Null /\ clients[c] = Working(creation[c])
    BY DEF Structure, Local, CreationOk, Creating, SetUp
  <2>2. clients[b] = Working(rows[b])
    BY DEF Structure, Local, RowOk
  <2>3. creation[c] \in Creation /\ rows[b] \in Row
    BY DEF Structure, TypeOK, Creating
  <2>4. Working(creation[c]) \in Client /\ Working(rows[b]) \in Client
    BY <2>3, NamesAssumption DEF Working, Client, Creation, Row
  <2>5. Working(creation[c]).clientId = Working(rows[b]).clientId
    BY DEF Working
  <2> QED
    BY <2>1, <2>2, <2>4, <2>5, NullAssumption DEF Distinct
<1> QED
  BY <1>1, <1>2, StructureInit, StructureStep, DistinctStep, PTL DEF Spec

-----------------------------------------------------------------------------
(* Clients that no list shows.                                             *)

\* The client gets in although no row shows it, and no request is about to
\* change that.
Loose(c) ==
    /\ creation[c] = Null /\ rows[c] = Null
    /\ MayEnter(c)
    /\ \A x \in Callers : deletion[x][c] # "removed"

Excused(c) == c \in forsaken \cup spared \/ clients[c].tenant \in revived

Out(c) == Loose(c) => Excused(c)

\* What went wrong once is remembered.
Remembered == forsaken \subseteq forsaken' /\ spared \subseteq spared' /\ revived \subseteq revived'

LEMMA HistoriesGrow == [Next]_vars => Remembered
BY DEF Next, UnheardStep, LoseInsert, UndoStored, LeaveStored, CreationStep, CheckName,
   PostClient, SetAttributes, AssignRole, InsertRow,
   UndoClient, RefuseCreation, AbandonCreation, DeletionStep, Handle, AskDeletion, FindRow,
   RemoveRow, DeleteClient, RefuseDeletion, DismissalStep, Dismiss, StartDismissal,
   BeginTransaction, ListClients, DeleteTenantRow, EndDismissal, OtherStep, BeginFounding,
   EndFounding, MeetExpired, LiftExpired, vars, histories, Remembered

\* A client that a step leaves alone is not let loose by it.
LEMMA OutKept ==
    ASSUME NEW c \in Clients, Out(c), Remembered, tenants' \subseteq tenants,
           creation'[c] = creation[c], rows'[c] = rows[c], clients'[c] = clients[c],
           \A x \in Callers : deletion[x][c] = "removed" => deletion'[x][c] = "removed"
    PROVE  Out(c)'
BY DEF Out, Loose, Excused, MayEnter, Remembered

\* A creation that stops before it is complete leaves a client that is
\* refused, and nothing else stops without a trace.
LEMMA CreationOut ==
    ASSUME Structure, Remembered, NEW c \in Clients, Out(c),
           \/ \E t \in Tenants, n \in Names : CheckName(c, t, n)
           \/ PostClient(c) \/ SetAttributes(c) \/ AssignRole(c)
           \/ InsertRow(c) \/ UndoClient(c)
           \/ RefuseCreation(c) \/ AbandonCreation(c)
    PROVE  Out(c)'
<1>t. TypeOK
  BY DEF Structure
<1>1. creation[c] # Null => creation[c] \in Creation /\ clients[c] = SetUp(creation[c])
  BY <1>t DEF Structure, Local, CreationOk, TypeOK
<1>2. ASSUME NEW pc \in CreationPC, Advance(c, pc), creation[c] # Null
      PROVE  Out(c)'
  <2>1. creation'[c] = [creation[c] EXCEPT !.pc = pc]
    BY <1>2, <1>t DEF Advance, TypeOK
  <2>2. creation'[c] # Null
    BY <2>1, <1>1, <1>2, Moved, NullAssumption
  <2> QED
    BY <2>2 DEF Out, Loose
<1>3. ASSUME clients'[c] = Null PROVE Out(c)'
  BY <1>3 DEF Out, Loose, MayEnter
<1>4. CASE \E t \in Tenants, n \in Names : CheckName(c, t, n)
  <2> PICK t \in Tenants, n \in Names : CheckName(c, t, n)
    BY <1>4
  <2>1. creation'[c] = [pc |-> "checked", tenant |-> t, name |-> n]
    BY <1>t DEF CheckName, TypeOK
  <2>2. creation'[c] # Null
    BY <2>1, NullAssumption DEF Creation, CreationPC
  <2> QED
    BY <2>2 DEF Out, Loose
<1>5. CASE PostClient(c)
  <2>1. CASE Conflict(c)
    <3>1. creation[c] # Null /\ creation[c].pc = "checked" /\ clients' = clients
      BY <1>5, <2>1 DEF PostClient, Creating
    <3> QED
      BY <3>1, <1>1, <1>3 DEF SetUp
  <2>2. CASE ~ Conflict(c)
    BY <1>5, <2>2, <1>2 DEF PostClient, Creating, CreationPC
  <2> QED
    BY <2>1, <2>2
<1>6. CASE SetAttributes(c)
  BY <1>6, <1>2 DEF SetAttributes, Creating, CreationPC
<1>7. CASE AssignRole(c)
  BY <1>7, <1>2 DEF AssignRole, Creating, CreationPC
<1>8. CASE InsertRow(c)
  <2>1. CASE Advance(c, "undoing")
    BY <1>8, <2>1, <1>2 DEF InsertRow, Creating, CreationPC
  <2>2. CASE rows' = [rows EXCEPT ![c] = [tenant |-> creation[c].tenant, name |-> creation[c].name]]
    <3>1. rows'[c] = [tenant |-> creation[c].tenant, name |-> creation[c].name]
      BY <2>2, <1>t DEF TypeOK
    <3>2. creation[c] \in Creation
      BY <1>8, <1>1 DEF InsertRow, Creating
    <3>3. rows'[c] # Null
      BY <3>1, <3>2, NullAssumption DEF Creation, Row
    <3> QED
      BY <3>3 DEF Out, Loose
  <2> QED
    BY <1>8, <2>1, <2>2 DEF InsertRow
<1>9. CASE UndoClient(c)
  BY <1>9, <1>3, <1>t DEF UndoClient, TypeOK
<1>10. CASE RefuseCreation(c)
  <2>1. creation[c] # Null /\ clients' = clients
    BY <1>10 DEF RefuseCreation
  <2>2. CASE creation[c].pc = "complete"
    BY <1>10, <2>1, <2>2, <1>2 DEF RefuseCreation, UndoneFrom, CreationPC
  <2>3. CASE creation[c].pc = "undoing"
    BY <1>10, <2>1, <2>3 DEF RefuseCreation, Creating, Out, Excused
  <2>4. CASE creation[c].pc = "checked"
    BY <2>1, <2>4, <1>1, <1>3 DEF SetUp
  <2>5. CASE creation[c].pc \in {"posted", "scoped"}
    <3>1. clients[c].roles = {}
      BY <2>1, <2>5, <1>1 DEF SetUp, BlankClient, Working
    <3> QED
      BY <2>1, <3>1 DEF Out, Loose, MayEnter
  <2> QED
    BY <2>1, <2>2, <2>3, <2>4, <2>5, <1>1 DEF Creation, CreationPC
<1>11. CASE AbandonCreation(c)
  BY <1>11 DEF AbandonCreation, Out, Excused
<1> QED
  BY <1>4, <1>5, <1>6, <1>7, <1>8, <1>9, <1>10, <1>11

\* The deletion of a client removes it, or Keycloak spares it.
LEMMA DeletionOut ==
    ASSUME Structure, Remembered, NEW b \in Clients, NEW x \in Callers,
           NEW c \in Clients, Out(c),
           \/ AskDeletion(x, b) \/ FindRow(x, b) \/ RemoveRow(x, b)
           \/ DeleteClient(x, b) \/ RefuseDeletion(x, b)
    PROVE  Out(c)'
<1>t. TypeOK
  BY DEF Structure
<1>p. \A pc : Proceed(x, b, pc) =>
        \A y \in Callers : deletion'[y][c] = IF y = x /\ c = b THEN pc ELSE deletion[y][c]
  BY <1>t DEF Proceed, TypeOK
<1>u. UNCHANGED <<tenants, creation>>
  BY DEF AskDeletion, FindRow, RemoveRow, DeleteClient, RefuseDeletion
<1>1. CASE b # c
  <2>1. rows'[c] = rows[c] /\ clients'[c] = clients[c]
    BY <1>1, <1>t
    DEF AskDeletion, FindRow, RemoveRow, DeleteClient, RefuseDeletion, TypeOK
  <2>2. \A y \in Callers : deletion'[y][c] = deletion[y][c]
    BY <1>1, <1>p DEF AskDeletion, FindRow, RemoveRow, DeleteClient, RefuseDeletion
  <2> QED
    BY <1>u, <2>1, <2>2, OutKept
<1>2. CASE b = c
  <2>1. CASE AskDeletion(x, c)
    BY <2>1 DEF AskDeletion, Out, Loose
  <2>2. CASE FindRow(x, c)
    <3>1. \E pc : Proceed(x, b, pc) /\ deletion[x][c] = "asked" /\ UNCHANGED <<rows, clients>>
      BY <1>2, <2>2 DEF FindRow, Deleting
    <3> QED
      BY <3>1, <1>u, <1>p, OutKept
  <2>3. CASE RemoveRow(x, c)
    <3>1. deletion'[x][c] = "removed"
      BY <1>2, <2>3, <1>p DEF RemoveRow
    <3> QED
      BY <3>1 DEF Out, Loose
  <2>4. CASE DeleteClient(x, c)
    BY <2>4, <1>t DEF DeleteClient, TypeOK, Out, Loose, MayEnter
  <2>5. CASE RefuseDeletion(x, c)
    <3>1. CASE deletion[x][c] = "removed"
      BY <2>5, <3>1 DEF RefuseDeletion, Deleting, Out, Excused
    <3>2. CASE deletion[x][c] # "removed"
      <4>1. Proceed(x, b, "none") /\ UNCHANGED <<rows, clients>>
        BY <1>2, <2>5 DEF RefuseDeletion
      <4> QED
        BY <3>2, <4>1, <1>u, <1>p, OutKept
    <3> QED
      BY <3>1, <3>2
  <2> QED
    BY <1>2, <2>1, <2>2, <2>3, <2>4, <2>5
<1> QED
  BY <1>1, <1>2

\* A row that goes with its tenant leaves a client of an absent tenant.
LEMMA DismissalOut ==
    ASSUME Structure, Remembered, NEW d \in Dismissals, NEW c \in Clients, Out(c),
           \/ \E t \in Tenants : StartDismissal(d, t)
           \/ BeginTransaction(d) \/ ListClients(d) \/ DeleteTenantRow(d)
           \/ EndDismissal(d)
    PROVE  Out(c)'
<1>t. TypeOK /\ d \in Callers
  BY DEF Structure, Callers
<1>u. UNCHANGED <<creation, clients>> /\ tenants' \subseteq tenants
  BY DEF StartDismissal, BeginTransaction, ListClients, DeleteTenantRow, EndDismissal
<1>1. CASE BeginTransaction(d) \/ \E t \in Tenants : StartDismissal(d, t)
  BY <1>1, <1>u, OutKept DEF BeginTransaction, StartDismissal
<1>2. CASE ListClients(d)
  <2>1. deletion[d][c] = "none"
    BY <1>2 DEF Structure, Phases, NoDeletion, ListClients, DismissalAt
  <2>2. rows' = rows /\ \A x \in Callers : x # d => deletion'[x] = deletion[x]
    BY <1>2, <1>t DEF ListClients, TypeOK
  <2> QED
    BY <1>u, <2>1, <2>2, OutKept
<1>3. CASE DeleteTenantRow(d)
  <2> DEFINE t == dismissal[d].tenant
  <2>1. CASE rows[c] # Null /\ rows[c].tenant = t
    <3>1. clients[c] = Null \/ clients[c].tenant = t
      <4>1. clients[c] = Null \/ clients[c] = Working(rows[c])
        BY <2>1 DEF Structure, Local, RowOk
      <4>2. Working(rows[c]).tenant = rows[c].tenant
        BY DEF Working
      <4> QED
        BY <2>1, <4>1, <4>2
    <3>2. t \notin tenants'
      BY <1>3 DEF DeleteTenantRow
    <3> QED
      BY <1>u, <3>1, <3>2 DEF Out, Loose, MayEnter
  <2>2. CASE ~ (rows[c] # Null /\ rows[c].tenant = t)
    <3>1. rows'[c] = rows[c] /\ deletion' = deletion
      BY <1>3, <2>2 DEF DeleteTenantRow
    <3> QED
      BY <1>u, <3>1, OutKept
  <2> QED
    BY <2>1, <2>2
<1>4. CASE EndDismissal(d)
  <2>1. rows' = rows /\ \A x \in Callers : x # d => deletion'[x] = deletion[x]
    BY <1>4, <1>t DEF EndDismissal, TypeOK
  <2>2. CASE deletion[d][c] = "removed"
    BY <1>4, <2>2 DEF EndDismissal, Deleting, Out, Excused
  <2>3. CASE deletion[d][c] # "removed"
    BY <1>u, <2>1, <2>3, OutKept
  <2> QED
    BY <2>2, <2>3
<1> QED
  BY <1>1, <1>2, <1>3, <1>4

\* Only a suspension that is lifted too late brings a tenant back.
LEMMA OtherOut ==
    ASSUME Remembered, OtherStep, NEW c \in Clients, Out(c)
    PROVE  Out(c)'
<1>u. UNCHANGED <<creation, rows, clients, deletion>>
  BY DEF OtherStep, BeginFounding, EndFounding, MeetExpired, LiftExpired
<1>1. CASE tenants' \subseteq tenants
  BY <1>1, <1>u, OutKept
<1>2. ASSUME NEW t \in Tenants, LiftExpired(t)
      PROVE  Out(c)'
  <2>1. CASE clients[c].tenant = t /\ t \notin tenants
    BY <1>2, <1>u, <2>1 DEF LiftExpired, Out, Excused
  <2>2. CASE ~ (clients[c].tenant = t /\ t \notin tenants)
    <3>1. Loose(c)' => Loose(c)
      BY <1>2, <1>u, <2>2 DEF LiftExpired, Loose, MayEnter
    <3> QED
      BY <1>u, <3>1 DEF Out, Excused, Remembered
  <2> QED
    BY <2>1, <2>2
<1> QED
  BY <1>1, <1>2 DEF OtherStep, BeginFounding, EndFounding, MeetExpired

\* A row that is stored shows its client, and an undone client is refused.
LEMMA UnheardOut ==
    ASSUME Structure, Remembered, NEW b \in Clients, NEW c \in Clients, Out(c),
           LoseInsert(b) \/ UndoStored(b) \/ LeaveStored(b)
    PROVE  Out(c)'
<1>t. TypeOK
  BY DEF Structure
<1>1. UNCHANGED <<tenants, deletion>>
  BY DEF LoseInsert, UndoStored, LeaveStored
<1>2. CASE b = c /\ LoseInsert(b)
  <2>1. creation[c] \in Creation
    BY <1>2, <1>t DEF LoseInsert, Creating, TypeOK
  <2>2. rows'[c] = [tenant |-> creation[c].tenant, name |-> creation[c].name]
    BY <1>2, <1>t DEF LoseInsert, TypeOK
  <2>3. rows'[c] # Null
    BY <2>1, <2>2, NullAssumption DEF Creation, Row
  <2> QED
    BY <2>3 DEF Out, Loose
<1>3. CASE b = c /\ UndoStored(b)
  BY <1>3, <1>t DEF UndoStored, TypeOK, Out, Loose, MayEnter
<1>4. CASE b # c \/ LeaveStored(b)
  <2>1. UNCHANGED <<rows[c], clients[c], creation[c]>>
    BY <1>4, <1>t DEF LoseInsert, UndoStored, LeaveStored, Stop, TypeOK
  <2> QED
    BY <1>1, <2>1, OutKept
<1> QED
  BY <1>2, <1>3, <1>4

LEMMA OutStep ==
    ASSUME Structure, [Next]_vars, NEW c \in Clients, Out(c)
    PROVE  Out(c)'
<1>1. Remembered
  BY HistoriesGrow
<1>2. CASE UNCHANGED vars
  BY <1>1, <1>2, OutKept DEF vars
<1>3. CASE CreationStep
  <2> PICK b \in Clients :
         \/ \E t \in Tenants, n \in Names : CheckName(b, t, n)
         \/ PostClient(b) \/ SetAttributes(b) \/ AssignRole(b)
         \/ InsertRow(b) \/ UndoClient(b)
         \/ RefuseCreation(b) \/ AbandonCreation(b)
    BY <1>3 DEF CreationStep
  <2>1. CASE b = c
    BY <1>1, <2>1, CreationOut
  <2>2. CASE b # c
    <3>1. Apart(c)
      BY <2>2, CreationApart
    <3>2. tenants' = tenants
      BY DEF CheckName, PostClient, SetAttributes, AssignRole, InsertRow, UndoClient,
             RefuseCreation, AbandonCreation
    <3> QED
      BY <1>1, <3>1, <3>2, OutKept DEF Apart
  <2> QED
    BY <2>1, <2>2
<1>4. CASE DeletionStep
  BY <1>1, <1>4, DeletionOut DEF DeletionStep, Handle, Callers
<1>5. CASE DismissalStep
  BY <1>1, <1>5, DismissalOut DEF DismissalStep, Dismiss
<1>6. CASE OtherStep
  BY <1>1, <1>6, OtherOut
<1>7. CASE UnheardStep
  BY <1>1, <1>7, UnheardOut DEF UnheardStep
<1> QED
  BY <1>2, <1>3, <1>4, <1>5, <1>6, <1>7 DEF Next

\* A client that no list shows is refused, unless two things went wrong or
\* its tenant came back, for any number of creations, deletions and failures.
THEOREM UnlistedClientsStayOut == Spec => []UnlistedStayOut
<1> DEFINE AllOut == \A c \in Clients : Out(c)
<1>1. Init => AllOut
  BY DEF Init, Out, Loose, MayEnter
<1>2. Structure /\ AllOut /\ [Next]_vars => AllOut'
  BY OutStep
<1>3. AllOut => UnlistedStayOut
  BY DEF UnlistedStayOut, Out, Loose, Excused, BusyWith
<1> HIDE DEF AllOut
<1> QED
  BY <1>1, <1>2, <1>3, StructureInit, StructureStep, PTL DEF Spec

=============================================================================
