-------------------------- MODULE SuspensionProofs --------------------------
(***************************************************************************)
(* Proofs about Suspension for every value of its constants.               *)
(***************************************************************************)
EXTENDS Suspension, TLAPS

\* The row an activation saves.
LEMMA ActiveRowType == ActiveRow \in TenantRow
BY DEF ActiveRow, TenantRow, Statuses

\* What a body makes of a row.
LEMMA ChangedType ==
    ASSUME TypeOK, NEW row \in TenantRow, NEW body \in Bodies
    PROVE  Changed(row, body) \in TenantRow
<1>1. TargetStatus(body) \in Statuses
  BY DEF TargetStatus, Statuses
<1>2. /\ clock \in Nat /\ row.until \in Nat \cup {Null}
      /\ body.days # Null => body.days \in Nat
  <2>1. clock \in Nat
    BY DEF TypeOK
  <2>2. row.until \in Nat \cup {Null}
    BY DEF TenantRow
  <2>3. body.days \in Days \cup {0, Null}
    BY DEF Bodies
  <2>4. \A d \in Days : d \in Nat
    BY BoundsAssumption
  <2> QED
    BY <2>1, <2>2, <2>3, <2>4
<1>3. body.days # Null => clock + body.days \in Nat
  BY <1>2
<1>4. Changed(row, body).until \in Nat \cup {Null}
  BY <1>2, <1>3 DEF Changed
<1> QED
  BY <1>1, <1>4 DEF Changed, TenantRow

\* Setting the fields of an update keeps its type.
LEMMA UpdateFields ==
    ASSUME NEW up \in Update
    PROVE  /\ \A pc \in UpdatePC : [up EXCEPT !.pc = pc] \in Update
           /\ \A pc \in UpdatePC, s \in Statuses : [up EXCEPT !.pc = pc, !.was = s] \in Update
           /\ \A pc \in UpdatePC, row \in TenantRow : [up EXCEPT !.pc = pc, !.row = row] \in Update
           /\ \A pc \in UpdatePC, todo \in SUBSET Users : [up EXCEPT !.pc = pc, !.todo = todo] \in Update
           /\ \A todo \in SUBSET Users : [up EXCEPT !.todo = todo] \in Update
BY DEF Update

\* Initially every tenant is active and nothing is under way.
LEMMA TypeInit == Init => TypeOK
BY ActiveRowType, BoundsAssumption DEF Init, TypeOK, Accounts

\* The update that a call begins with.
LEMMA Begins ==
    ASSUME TypeOK, NEW a \in Updates, NEW t \in Tenants, NEW body \in Bodies, StartUpdate(a, t, body)
    PROVE  /\ update[a] = Null /\ update' = [update EXCEPT ![a] = update'[a]]
           /\ update'[a] \in Update /\ update'[a] # Null
           /\ update'[a].tenant = t /\ update'[a].was = tenant[t].status /\ update'[a].todo = {}
           /\ update'[a].pc \in {"expired", "normalized"}
           /\ \A b \in Updates \ {a} : update'[b] = update[b]
<1> DEFINE pc == IF Expired(tenant[t]) THEN "expired" ELSE "normalized"
           new == [pc |-> pc, tenant |-> t, body |-> body, was |-> tenant[t].status,
                   row |-> ActiveRow, todo |-> {}]
<1>1. tenant[t].status \in Statuses
  BY NullAssumption DEF StartUpdate, TypeOK, TenantRow
<1>2. pc \in UpdatePC /\ pc \in {"expired", "normalized"}
  BY DEF UpdatePC
<1>3. update[a] = Null /\ update' = [update EXCEPT ![a] = new]
  BY DEF StartUpdate
<1> HIDE DEF pc
<1>4. new \in Update
  BY <1>1, <1>2, ActiveRowType DEF Update
<1>5. new.tenant = t /\ new.was = tenant[t].status /\ new.todo = {} /\ new.pc = pc
  OBVIOUS
<1> HIDE DEF new
<1> QED
  BY <1>2, <1>3, <1>4, <1>5, NullAssumption DEF TypeOK

\* The steps of updateTenant leave every variable in its type.
LEMMA UpdateType == ASSUME TypeOK, NEW a \in Updates PROVE
    /\ \A t \in Tenants, body \in Bodies : StartUpdate(a, t, body) => TypeOK'
    /\ RelieveLoad(a) => TypeOK'
    /\ RelieveSave(a) => TypeOK'
    /\ LoadTenant(a) => TypeOK'
    /\ SaveTenant(a) => TypeOK'
    /\ ListUsers(a) => TypeOK'
    /\ \A u \in Users : SetUserEnabled(a, u) => TypeOK'
    /\ FinishUpdate(a) => TypeOK'
    /\ AbandonUpdate(a) => TypeOK'
<1> USE NullAssumption, BoundsAssumption DEF requests, histories, Disturb, Undisturbed, Close, Goto
<1>1. update[a] # Null => update[a] \in Update /\ update[a].tenant \in Tenants
                         /\ update[a].body \in Bodies /\ update[a].row \in TenantRow
                         /\ update[a].todo \subseteq Users
  BY DEF TypeOK, Update
<1>2. ASSUME NEW t \in Tenants, NEW body \in Bodies, StartUpdate(a, t, body) PROVE TypeOK'
  <2>1. update' \in [Updates -> Update \cup {Null}]
    BY <1>2, Begins DEF TypeOK
  <2>2. settled' \subseteq Tenants /\ calm' \subseteq Updates /\ asked' \in 0 .. MaxUpdates
    BY <1>2 DEF StartUpdate, TypeOK
  <2>3. UNCHANGED <<tenant, users, account, reader, creation, removal, clock,
                    failures, promised, overtaken>>
    BY <1>2 DEF StartUpdate
  <2> QED
    BY <2>1, <2>2, <2>3 DEF TypeOK
<1>3. ASSUME RelieveLoad(a) PROVE TypeOK'
  <2>1. PICK pc \in UpdatePC : update' = [update EXCEPT ![a].pc = pc]
    BY <1>3 DEF RelieveLoad, UpdatePC
  <2>2. update' = [update EXCEPT ![a] = [update[a] EXCEPT !.pc = pc]]
    BY <2>1 DEF TypeOK
  <2>3. [update[a] EXCEPT !.pc = pc] \in Update
    BY <1>1, <1>3, UpdateFields DEF RelieveLoad
  <2>4. UNCHANGED <<tenant, users, account, reader, creation, removal, asked,
                    clock, failures, promised, overtaken, calm, settled>>
    BY <1>3 DEF RelieveLoad
  <2> QED
    BY <2>2, <2>3, <2>4 DEF TypeOK
<1>4. ASSUME RelieveSave(a) PROVE TypeOK'
  <2>1. update' = [update EXCEPT ![a] = [update[a] EXCEPT !.pc = "normalized", !.was = "active"]]
    BY <1>4 DEF RelieveSave, TypeOK
  <2>2. [update[a] EXCEPT !.pc = "normalized", !.was = "active"] \in Update
    BY <1>1, <1>4, UpdateFields DEF RelieveSave, UpdatePC, Statuses
  <2> QED
    BY <1>1, <1>4, <2>1, <2>2, ActiveRowType DEF RelieveSave, TypeOK
<1>5. ASSUME LoadTenant(a) PROVE TypeOK'
  <2> DEFINE row == Changed(tenant[update[a].tenant], update[a].body)
  <2>1. CASE Close(a) /\ UNCHANGED settled
    BY <1>5, <2>1 DEF LoadTenant, TypeOK
  <2>2. CASE /\ tenant[update[a].tenant] # Null
             /\ update' = [update EXCEPT ![a].pc = "loaded", ![a].row = row]
             /\ UNCHANGED <<calm, settled>>
    <3>1. row \in TenantRow
      BY <1>1, <1>5, <2>2, ChangedType DEF LoadTenant, TypeOK
    <3>2. update' = [update EXCEPT ![a] = [update[a] EXCEPT !.pc = "loaded", !.row = row]]
      BY <2>2 DEF TypeOK
    <3>3. [update[a] EXCEPT !.pc = "loaded", !.row = row] \in Update
      BY <1>1, <1>5, <3>1, UpdateFields DEF LoadTenant, UpdatePC
    <3> HIDE DEF row
    <3> QED
      BY <1>5, <2>2, <3>2, <3>3 DEF LoadTenant, TypeOK
  <2> QED
    BY <1>5, <2>1, <2>2 DEF LoadTenant
<1>6. ASSUME SaveTenant(a) PROVE TypeOK'
  <2>1. update' \in [Updates -> Update \cup {Null}] /\ calm' \subseteq Updates
    <3>1. CASE Close(a)
      BY <3>1 DEF TypeOK
    <3>2. CASE Goto(a, "saved") /\ UNCHANGED calm
      <4>1. update' = [update EXCEPT ![a] = [update[a] EXCEPT !.pc = "saved"]]
        BY <3>2 DEF TypeOK
      <4>2. [update[a] EXCEPT !.pc = "saved"] \in Update
        BY <1>1, <1>6, UpdateFields DEF SaveTenant, UpdatePC
      <4> QED
        BY <3>2, <4>1, <4>2 DEF TypeOK
    <3> QED
      BY <1>6, <3>1, <3>2 DEF SaveTenant
  <2>2. tenant' \in [Tenants -> TenantRow \cup {Null}]
    BY <1>1, <1>6 DEF SaveTenant, TypeOK
  <2>3. promised' \in [Tenants -> TenantRow \cup {Null}]
    BY <1>1, <1>6 DEF SaveTenant, TypeOK
  <2>4. overtaken' \subseteq Tenants
    BY <1>1, <1>6 DEF SaveTenant, TypeOK
  <2> QED
    BY <1>6, <2>1, <2>2, <2>3, <2>4 DEF SaveTenant, TypeOK
<1>7. ASSUME ListUsers(a) PROVE TypeOK'
  <2> DEFINE todo == {u \in Users : users[u] = update[a].tenant}
  <2>1. update' = [update EXCEPT ![a] = [update[a] EXCEPT !.pc = "syncing", !.todo = todo]]
    BY <1>7 DEF ListUsers, TypeOK
  <2>2. [update[a] EXCEPT !.pc = "syncing", !.todo = todo] \in Update
    BY <1>1, <1>7, UpdateFields DEF ListUsers, UpdatePC
  <2> HIDE DEF todo
  <2>3. UNCHANGED <<tenant, users, account, reader, creation, removal, asked,
                    clock, failures, promised, overtaken, calm, settled>>
    BY <1>7 DEF ListUsers
  <2> QED
    BY <2>1, <2>2, <2>3 DEF TypeOK
<1>8. ASSUME NEW u \in Users, SetUserEnabled(a, u) PROVE TypeOK'
  <2>1. update' = [update EXCEPT ![a] = [update[a] EXCEPT !.todo = update[a].todo \ {u}]]
    BY <1>8 DEF SetUserEnabled, TypeOK
  <2>2. [update[a] EXCEPT !.todo = update[a].todo \ {u}] \in Update
    BY <1>1, <1>8, UpdateFields DEF SetUserEnabled
  <2>3. account' \in [Users -> Accounts]
    BY <1>8 DEF SetUserEnabled, EnabledFor, Accounts, TypeOK
  <2>4. settled' \subseteq Tenants /\ calm' \subseteq Updates /\ failures' \in 0 .. MaxFailures
    BY <1>8 DEF SetUserEnabled, TypeOK
  <2> QED
    BY <1>8, <2>1, <2>2, <2>3, <2>4 DEF SetUserEnabled, TypeOK
<1>9. ASSUME FinishUpdate(a) PROVE TypeOK'
  BY <1>1, <1>9 DEF FinishUpdate, TypeOK
<1>10. ASSUME AbandonUpdate(a) PROVE TypeOK'
  BY <1>10 DEF AbandonUpdate, TypeOK
<1> QED
  BY <1>2, <1>3, <1>4, <1>5, <1>6, <1>7, <1>8, <1>9, <1>10

\* The steps of everyone else leave every variable in its type.
LEMMA OthersType == TypeOK /\ (Tick \/ ReaderStep \/ CreateStep \/ DeleteStep) => TypeOK'
<1> SUFFICES ASSUME TypeOK PROVE Tick \/ ReaderStep \/ CreateStep \/ DeleteStep => TypeOK'
  OBVIOUS
<1> USE NullAssumption, BoundsAssumption DEF requests, histories, Disturb, Undisturbed
<1>1. ASSUME Tick PROVE TypeOK'
  BY <1>1 DEF Tick, TypeOK
<1>2. ASSUME NEW r \in Readers, NEW t \in Tenants, MeetExpired(r, t) PROVE TypeOK'
  <2>1. PICK pc \in {"expired", "holding"} :
          reader' = [reader EXCEPT ![r] = [pc |-> pc, tenant |-> t]]
    BY <1>2 DEF MeetExpired
  <2> QED
    BY <1>2, <2>1 DEF MeetExpired, TypeOK, Reader
<1>3. ASSUME NEW r \in Readers, LoadAgain(r) PROVE TypeOK'
  <2>1. reader[r] \in Reader
    BY <1>3 DEF LoadAgain, TypeOK
  <2>2. reader' = [reader EXCEPT ![r] = Null]
        \/ reader' = [reader EXCEPT ![r] = [reader[r] EXCEPT !.pc = "holding"]]
    BY <1>3 DEF LoadAgain
  <2>3. [reader[r] EXCEPT !.pc = "holding"] \in Reader
    BY <2>1 DEF Reader
  <2> QED
    BY <1>3, <2>2, <2>3 DEF LoadAgain, TypeOK
<1>4. ASSUME NEW r \in Readers, LiftExpired(r) PROVE TypeOK'
  <2>1. reader[r].tenant \in Tenants
    BY <1>4 DEF LiftExpired, TypeOK, Reader
  <2> QED
    BY <1>4, <2>1, ActiveRowType DEF LiftExpired, TypeOK
<1>5. ASSUME NEW u \in Users, NEW t \in Tenants, AdmitCreation(u, t) PROVE TypeOK'
  <2>1. [pc |-> "admitted", tenant |-> t] \in Creation
    BY DEF Creation
  <2> QED
    BY <1>5, <2>1 DEF AdmitCreation, TypeOK
<1>6. ASSUME NEW u \in Users, CreateAccount(u) PROVE TypeOK'
  <2>1. creation[u] \in Creation
    BY <1>6 DEF CreateAccount, TypeOK
  <2>2. [creation[u] EXCEPT !.pc = "created"] \in Creation
    BY <2>1 DEF Creation
  <2>3. creation' = [creation EXCEPT ![u] = [creation[u] EXCEPT !.pc = "created"]]
    BY <1>6 DEF CreateAccount, TypeOK
  <2> QED
    BY <1>6, <2>2, <2>3 DEF CreateAccount, TypeOK, Accounts
<1>7. ASSUME NEW u \in Users, InsertUser(u) PROVE TypeOK'
  <2>1. creation[u].tenant \in Tenants
    BY <1>7 DEF InsertUser, TypeOK, Creation
  <2> QED
    BY <1>7, <2>1 DEF InsertUser, TypeOK, Accounts
<1>8. ASSUME NEW t \in Tenants, StartDelete(t) PROVE TypeOK'
  BY <1>8 DEF StartDelete, TypeOK, Removal
<1>9. ASSUME NEW t \in Tenants, NEW u \in Users, DeleteAccount(t, u) PROVE TypeOK'
  <2>1. removal[t] \in Removal
    BY <1>9 DEF DeleteAccount, TypeOK
  <2>2. [removal[t] EXCEPT !.todo = removal[t].todo \ {u}] \in Removal
    BY <2>1 DEF Removal
  <2>3. removal' = [removal EXCEPT ![t] = [removal[t] EXCEPT !.todo = removal[t].todo \ {u}]]
    BY <1>9 DEF DeleteAccount, TypeOK
  <2> QED
    BY <1>9, <2>2, <2>3 DEF DeleteAccount, TypeOK, Accounts
<1>10. ASSUME NEW t \in Tenants, CommitDelete(t) PROVE TypeOK'
  BY <1>10 DEF CommitDelete, TypeOK
<1>11. ASSUME NEW t \in Tenants, AbortDelete(t) PROVE TypeOK'
  BY <1>11 DEF AbortDelete, TypeOK
<1> QED
  BY <1>1, <1>2, <1>3, <1>4, <1>5, <1>6, <1>7, <1>8, <1>9, <1>10, <1>11
  DEF ReaderStep, CreateStep, DeleteStep

\* Each step leaves every variable in its type.
LEMMA TypeStep == TypeOK /\ [Next]_vars => TypeOK'
<1>1. TypeOK /\ UNCHANGED vars => TypeOK'
  BY DEF vars, TypeOK
<1>2. TypeOK /\ UpdateStep => TypeOK'
  BY UpdateType DEF UpdateStep
<1> QED
  BY <1>1, <1>2, OthersType DEF Next

\* Every table, request and history has its type (tenants.service,
\* access-policy.guard).
THEOREM SuspensionTypes == Spec => []TypeOK
BY TypeInit, TypeStep, PTL DEF Spec

-----------------------------------------------------------------------------
(* A suspension holds to its end.                                          *)

\* What a PATCH promised is a suspension.
Promises == \A t \in Tenants : promised[t] # Null => promised[t].status = "suspended"

\* While a suspension is in force, the row is as the PATCH saved it and no
\* request is about to lift it.
Untouched ==
    \A t \in Tenants \ overtaken :
        InForce(t) => tenant[t] = promised[t] /\ ~ Lifting(t)

\* A lifting goes on or ends; it begins only where a suspension is over.
LEMMA LiftingStarts ==
    ASSUME TypeOK, [Next]_vars, NEW t \in Tenants, ~ Lifting(t), Lifting(t)'
    PROVE  tenant[t] # Null /\ Expired(tenant[t])
<1> USE NullAssumption DEF requests, histories, Disturb, Undisturbed, Goto, Close, Lifting
<1>1. ASSUME NEW a \in Updates, NEW s \in Tenants, NEW body \in Bodies, StartUpdate(a, s, body)
      PROVE  tenant[t] # Null /\ Expired(tenant[t])
  BY <1>1 DEF StartUpdate, TypeOK
<1>2. ASSUME NEW r \in Readers, NEW s \in Tenants, MeetExpired(r, s)
      PROVE  tenant[t] # Null /\ Expired(tenant[t])
  BY <1>2 DEF MeetExpired, TypeOK
<1>3. ASSUME NEW r \in Readers, LoadAgain(r) PROVE FALSE
  BY <1>3 DEF LoadAgain, TypeOK, Reader
<1>4. ASSUME NEW r \in Readers, LiftExpired(r) PROVE FALSE
  BY <1>4 DEF LiftExpired, TypeOK
<1>5. ASSUME NEW a \in Updates,
             RelieveLoad(a) \/ RelieveSave(a) \/ LoadTenant(a) \/ SaveTenant(a) \/ ListUsers(a)
      PROVE  FALSE
  <2>1. reader' = reader /\ \A b \in Updates \ {a} : update'[b] = update[b]
    BY <1>5 DEF RelieveLoad, RelieveSave, LoadTenant, SaveTenant, ListUsers, TypeOK
  <2>2. update'[a] # Null => update[a] # Null /\ update'[a].tenant = update[a].tenant
    BY <1>5 DEF RelieveLoad, RelieveSave, LoadTenant, SaveTenant, ListUsers, TypeOK, Update
  <2>3. update'[a] # Null /\ update'[a].pc \in {"expired", "relifting"}
        => update[a].pc \in {"expired", "relifting"}
    BY <1>5 DEF RelieveLoad, RelieveSave, LoadTenant, SaveTenant, ListUsers, TypeOK, Update
  <2> QED
    BY <2>1, <2>2, <2>3
<1>6. ASSUME NEW a \in Updates,
             (\E u \in Users : SetUserEnabled(a, u)) \/ FinishUpdate(a) \/ AbandonUpdate(a)
      PROVE  FALSE
  BY <1>6 DEF SetUserEnabled, FinishUpdate, AbandonUpdate, TypeOK, Update
<1>7. ASSUME Tick \/ CreateStep \/ DeleteStep \/ UNCHANGED vars PROVE FALSE
  BY <1>7 DEF Tick, CreateStep, DeleteStep, AdmitCreation, CreateAccount, InsertUser,
              StartDelete, DeleteAccount, CommitDelete, AbortDelete, vars
<1> QED
  BY <1>1, <1>2, <1>3, <1>4, <1>5, <1>6, <1>7 DEF Next, UpdateStep, ReaderStep

\* What each action does to the row of a tenant and to what was promised.
LEMMA RowAfter ==
    ASSUME TypeOK, [Next]_vars, NEW t \in Tenants
    PROVE  \/ UNCHANGED <<tenant[t], promised[t]>> /\ (t \in overtaken => t \in overtaken')
           \/ Lifting(t) /\ tenant'[t] = ActiveRow /\ UNCHANGED <<promised[t], overtaken>>
           \/ promised'[t] = Null /\ UNCHANGED overtaken
           \/ /\ promised'[t] = IF tenant'[t].status = "suspended" THEN tenant'[t] ELSE Null
              /\ t \in overtaken' \/ ~ Lifting(t)'
<1> USE NullAssumption DEF requests, histories, Disturb, Undisturbed, Goto, Close
<1>1. ASSUME NEW a \in Updates, RelieveSave(a)
      PROVE  \/ tenant'[t] = tenant[t]
             \/ Lifting(t) /\ tenant'[t] = ActiveRow
  BY <1>1 DEF RelieveSave, TypeOK, Lifting
<1>2. ASSUME NEW r \in Readers, LiftExpired(r)
      PROVE  \/ tenant'[t] = tenant[t]
             \/ Lifting(t) /\ tenant'[t] = ActiveRow
  BY <1>2 DEF LiftExpired, TypeOK, Lifting
<1>3. ASSUME NEW a \in Updates, SaveTenant(a)
      PROVE  \/ UNCHANGED <<tenant[t], promised[t]>> /\ (t \in overtaken => t \in overtaken')
             \/ /\ promised'[t] = IF tenant'[t].status = "suspended" THEN tenant'[t] ELSE Null
                /\ t \in overtaken' \/ ~ Lifting(t)'
  <2>1. CASE t = update[a].tenant
    <3>1. reader' = reader /\ \A b \in Updates \ {a} : update'[b] = update[b]
      BY <1>3 DEF SaveTenant, TypeOK
    <3>2. update'[a] = Null \/ update'[a].pc = "saved"
      BY <1>3 DEF SaveTenant, TypeOK, Update
    <3>3. ~ Lifting(t) => ~ Lifting(t)'
      BY <3>1, <3>2 DEF Lifting
    <3>4. t \notin overtaken' => ~ Lifting(t)
      BY <1>3, <2>1 DEF SaveTenant, TypeOK
    <3>5. promised'[t] = IF tenant'[t].status = "suspended" THEN tenant'[t] ELSE Null
      BY <1>3, <2>1 DEF SaveTenant, TypeOK
    <3> QED
      BY <3>3, <3>4, <3>5
  <2>2. CASE t # update[a].tenant
    BY <1>3, <2>2 DEF SaveTenant, TypeOK
  <2> QED
    BY <2>1, <2>2
<1>4. ASSUME NEW s \in Tenants, CommitDelete(s)
      PROVE  \/ UNCHANGED <<tenant[t], promised[t], overtaken>>
             \/ promised'[t] = Null /\ UNCHANGED overtaken
  BY <1>4 DEF CommitDelete, TypeOK
<1>5. ASSUME NEW a \in Updates,
             \/ \E s \in Tenants, body \in Bodies : StartUpdate(a, s, body)
             \/ RelieveLoad(a) \/ LoadTenant(a) \/ ListUsers(a)
             \/ \E u \in Users : SetUserEnabled(a, u)
             \/ FinishUpdate(a) \/ AbandonUpdate(a)
      PROVE  UNCHANGED <<tenant, promised, overtaken>>
  BY <1>5 DEF StartUpdate, RelieveLoad, LoadTenant, ListUsers, SetUserEnabled, FinishUpdate,
              AbandonUpdate
<1>6. ASSUME NEW r \in Readers, LoadAgain(r) \/ \E s \in Tenants : MeetExpired(r, s)
      PROVE  UNCHANGED <<tenant, promised, overtaken>>
  BY <1>6 DEF LoadAgain, MeetExpired
<1>7. ASSUME Tick \/ CreateStep \/ UNCHANGED vars
      PROVE  UNCHANGED <<tenant, promised, overtaken>>
  BY <1>7 DEF Tick, CreateStep, AdmitCreation, CreateAccount, InsertUser, vars
<1>8. ASSUME NEW s \in Tenants,
             StartDelete(s) \/ AbortDelete(s) \/ \E u \in Users : DeleteAccount(s, u)
      PROVE  UNCHANGED <<tenant, promised, overtaken>>
  BY <1>8 DEF StartDelete, AbortDelete, DeleteAccount
<1>9. ASSUME NEW a \in Updates, RelieveSave(a) PROVE UNCHANGED <<promised, overtaken>>
  BY <1>9 DEF RelieveSave
<1>10. ASSUME NEW r \in Readers, LiftExpired(r) PROVE UNCHANGED <<promised, overtaken>>
  BY <1>10 DEF LiftExpired
<1> QED
  BY <1>1, <1>2, <1>3, <1>4, <1>5, <1>6, <1>7, <1>8, <1>9, <1>10
  DEF Next, UpdateStep, ReaderStep, DeleteStep

\* Time and the promise decide whether a suspension is in force.
LEMMA ForceEnds ==
    ASSUME TypeOK, [Next]_vars, NEW t \in Tenants, promised'[t] = promised[t], InForce(t)'
    PROVE  InForce(t)
<1>1. clock \in Nat /\ clock' \in Nat /\ clock <= clock'
  <2>1. clock' = clock \/ clock' = clock + 1
    BY DEF Next, Tick, UpdateStep, ReaderStep, CreateStep, DeleteStep, vars,
           StartUpdate, RelieveLoad, RelieveSave, LoadTenant, SaveTenant, ListUsers,
           SetUserEnabled, FinishUpdate, AbandonUpdate, MeetExpired, LoadAgain,
           LiftExpired, AdmitCreation, CreateAccount, InsertUser, StartDelete,
           DeleteAccount, CommitDelete, AbortDelete
  <2> QED
    BY <2>1 DEF TypeOK
<1>2. promised[t] # Null => promised[t].until \in Nat \cup {Null}
  BY DEF TypeOK, TenantRow
<1> QED
  BY <1>1, <1>2, NullAssumption DEF InForce

\* A suspension in force is not over.
LEMMA ForceIsNotOver ==
    ASSUME TypeOK, NEW t \in Tenants, InForce(t) PROVE ~ Expired(promised[t])
<1>1. clock \in Nat /\ promised[t].until \in Nat \cup {Null}
  BY DEF InForce, TypeOK, TenantRow
<1> QED
  BY <1>1 DEF InForce, Expired

\* Promises and Untouched are inductive.
LEMMA PromiseStep ==
    TypeOK /\ Promises /\ Untouched /\ [Next]_vars => Promises' /\ Untouched'
<1> SUFFICES ASSUME TypeOK, Promises, Untouched, [Next]_vars, NEW t \in Tenants
             PROVE  /\ promised'[t] # Null => promised'[t].status = "suspended"
                    /\ t \notin overtaken' /\ InForce(t)' => tenant'[t] = promised'[t] /\ ~ Lifting(t)'
  BY DEF Promises, Untouched
<1>1. CASE UNCHANGED <<tenant[t], promised[t]>> /\ (t \in overtaken => t \in overtaken')
  <2>1. ASSUME t \notin overtaken', InForce(t)' PROVE tenant'[t] = promised'[t] /\ ~ Lifting(t)'
    <3>1. InForce(t)
      BY <1>1, <2>1, ForceEnds
    <3>2. tenant[t] = promised[t] /\ ~ Lifting(t)
      BY <1>1, <2>1, <3>1 DEF Untouched
    <3>3. ~ Expired(tenant[t])
      BY <3>1, <3>2, ForceIsNotOver
    <3> QED
      BY <1>1, <3>2, <3>3, LiftingStarts
  <2> QED
    BY <1>1, <2>1 DEF Promises
<1>2. CASE Lifting(t) /\ tenant'[t] = ActiveRow /\ UNCHANGED <<promised[t], overtaken>>
  <2>1. t \notin overtaken' => ~ InForce(t)'
    BY <1>2, ForceEnds DEF Untouched
  <2> QED
    BY <1>2, <2>1 DEF Promises
<1>3. CASE promised'[t] = Null /\ UNCHANGED overtaken
  BY <1>3 DEF InForce
<1>4. CASE /\ promised'[t] = IF tenant'[t].status = "suspended" THEN tenant'[t] ELSE Null
           /\ t \in overtaken' \/ ~ Lifting(t)'
  <2>1. promised'[t] # Null => promised'[t].status = "suspended"
    BY <1>4
  <2>2. InForce(t)' => promised'[t] # Null
    BY DEF InForce
  <2> QED
    BY <1>4, <2>1, <2>2
<1> QED
  BY <1>1, <1>2, <1>3, <1>4, RowAfter

\* A suspension that an administrator asked for holds to its end
\* (updateTenant, reactivateTenantIfExpired).
THEOREM SuspensionsHold == Spec => []SuspensionHolds
<1>1. Init => Promises /\ Untouched
  BY DEF Init, Promises, Untouched, InForce
<1>2. TypeOK /\ Promises /\ Untouched => SuspensionHolds
  BY ForceIsNotOver DEF Promises, Untouched, SuspensionHolds, InForce
<1> QED
  BY <1>1, <1>2, SuspensionTypes, PromiseStep, PTL DEF Spec

-----------------------------------------------------------------------------
(* Accounts follow the status.                                             *)

\* A row of users has its tenant, its account, and no creation under way.
Rows ==
    \A u \in Users : users[u] # Null =>
        tenant[users[u]] # Null /\ account[u] # "none" /\ creation[u] = Null

\* A creation under way has no row yet, and an account once it made one.
Creations ==
    \A u \in Users : creation[u] # Null =>
        /\ users[u] = Null
        /\ account[u] = IF creation[u].pc = "admitted" THEN "none" ELSE "enabled"

\* Users that an update or a deletion listed belong to its tenant, or to none.
Listed ==
    /\ \A a \in Updates : update[a] # Null => \A u \in update[a].todo :
         users[u] \in {update[a].tenant, Null} /\ creation[u] = Null /\ account[u] # "none"
    /\ \A t \in Tenants : removal[t] # Null => \A u \in removal[t].todo :
         creation[u] = Null /\ account[u] # "none"

\* A calm update is alone with its tenant; in a settled tenant all are calm.
Alone ==
    /\ \A a \in calm : /\ update[a] # Null
                       /\ UpdatesOf(update[a].tenant) = {a}
                       /\ CreatingIn(update[a].tenant) = {}
    /\ \A a \in Updates : update[a] # Null /\ update[a].tenant \in settled => a \in calm

\* Users are created in settled tenants that are active only.
CreatedActive ==
    \A u \in Users :
        creation[u] # Null /\ creation[u].tenant \in settled /\ tenant[creation[u].tenant] # Null
            => tenant[creation[u].tenant].status = "active"

AccountFor(status) == IF status = "active" THEN "enabled" ELSE "disabled"

Follows(t, u, status) ==
    users[u] = t /\ account[u] # "deleted" => account[u] = AccountFor(status)

Syncing(a) == update[a].pc \in {"saved", "syncing"}

\* A calm update knows the status of its row.
Knows ==
    \A a \in calm : tenant[update[a].tenant] # Null =>
        tenant[update[a].tenant].status = IF Syncing(a) THEN update[a].row.status ELSE update[a].was

\* A calm update has set the accounts that it is through with.
Reached ==
    \A a \in calm : update[a].pc = "syncing" =>
        \A u \in Users \ update[a].todo :
            Follows(update[a].tenant, u, update[a].row.status)

\* Accounts follow the status but for a synchronisation under way.
Settled ==
    \A t \in settled : (\A a \in UpdatesOf(t) : ~ Syncing(a)) =>
        \A u \in Users : tenant[t] # Null => Follows(t, u, tenant[t].status)

IInv == /\ Rows /\ Creations /\ Listed /\ Alone /\ CreatedActive
        /\ Knows /\ Reached /\ Settled

\* An update moves on within its tenant.
Moves(a) ==
    /\ update[a] # Null /\ update'[a] # Null
    /\ update'[a].tenant = update[a].tenant
    /\ \A b \in Updates \ {a} : update'[b] = update[b]

\* An update ends.
Ends(a) == update[a] # Null /\ update' = [update EXCEPT ![a] = Null]

\* What the steps of updateTenant do to the set of updates.
LEMMA UpdateMoves ==
    ASSUME TypeOK, NEW a \in Updates
    PROVE  /\ RelieveLoad(a) => Moves(a)
           /\ RelieveSave(a) => Moves(a)
           /\ LoadTenant(a) \/ SaveTenant(a)
                => \/ Moves(a) /\ Undisturbed
                   \/ Ends(a) /\ Close(a) /\ UNCHANGED settled
           /\ ListUsers(a) => Moves(a)
           /\ \A u \in Users : SetUserEnabled(a, u) => Moves(a)
           /\ FinishUpdate(a) => Ends(a)
           /\ AbandonUpdate(a) => Ends(a)
<1> USE NullAssumption
<1>1. ASSUME update[a] # Null, NEW new \in Update, new.tenant = update[a].tenant,
             update' = [update EXCEPT ![a] = new]
      PROVE  Moves(a)
  BY <1>1 DEF Moves, TypeOK
<1>2. update[a] # Null => update[a] \in Update
  BY DEF TypeOK
<1>3. ASSUME RelieveLoad(a) PROVE Moves(a)
  <2>1. PICK pc \in UpdatePC : update' = [update EXCEPT ![a].pc = pc]
    BY <1>3 DEF RelieveLoad, UpdatePC, Goto
  <2>2. update' = [update EXCEPT ![a] = [update[a] EXCEPT !.pc = pc]]
    BY <2>1 DEF TypeOK
  <2>3. [update[a] EXCEPT !.pc = pc] \in Update /\ [update[a] EXCEPT !.pc = pc].tenant = update[a].tenant
    BY <1>2, <1>3, UpdateFields DEF RelieveLoad, Update
  <2> QED
    BY <1>1, <1>3, <2>2, <2>3 DEF RelieveLoad
<1>4. ASSUME RelieveSave(a) PROVE Moves(a)
  <2> DEFINE new == [update[a] EXCEPT !.pc = "normalized", !.was = "active"]
  <2>1. update' = [update EXCEPT ![a] = new]
    BY <1>4 DEF RelieveSave, TypeOK
  <2>2. update[a] \in Update /\ "normalized" \in UpdatePC /\ "active" \in Statuses
    BY <1>2, <1>4 DEF RelieveSave, UpdatePC, Statuses
  <2>3. new \in Update
    BY <2>2, UpdateFields
  <2>4. new.tenant = update[a].tenant
    BY <2>2 DEF Update
  <2> HIDE DEF new
  <2> QED
    BY <1>1, <1>4, <2>1, <2>3, <2>4 DEF RelieveSave
<1>5. ASSUME LoadTenant(a)
      PROVE  (Moves(a) /\ Undisturbed) \/ (Ends(a) /\ Close(a) /\ UNCHANGED settled)
  <2> DEFINE row == Changed(tenant[update[a].tenant], update[a].body)
             new == [update[a] EXCEPT !.pc = "loaded", !.row = row]
  <2>1. update[a] # Null /\ update[a] \in Update /\ UNCHANGED settled
    BY <1>2, <1>5 DEF LoadTenant
  <2>2. CASE Close(a)
    BY <2>1, <2>2 DEF Close, Ends
  <2>3. CASE /\ tenant[update[a].tenant] # Null /\ update' = [update EXCEPT ![a] = new]
             /\ UNCHANGED calm
    <3>1. tenant[update[a].tenant] \in TenantRow /\ update[a].body \in Bodies
      BY <2>1, <2>3 DEF TypeOK, Update
    <3>2. row \in TenantRow
      BY <3>1, ChangedType
    <3> HIDE DEF row
    <3>3. "loaded" \in UpdatePC
      BY DEF UpdatePC
    <3>4. new \in Update
      BY <2>1, <3>2, <3>3, UpdateFields
    <3>5. new.tenant = update[a].tenant
      BY <2>1 DEF Update
    <3> HIDE DEF new
    <3>6. Moves(a)
      BY <1>1, <2>1, <2>3, <3>4, <3>5
    <3> QED
      BY <2>1, <2>3, <3>6 DEF Undisturbed
  <2> QED
    BY <1>5, <2>2, <2>3 DEF LoadTenant, TypeOK
<1>6. ASSUME SaveTenant(a)
      PROVE  (Moves(a) /\ Undisturbed) \/ (Ends(a) /\ Close(a) /\ UNCHANGED settled)
  <2> DEFINE new == [update[a] EXCEPT !.pc = "saved"]
  <2>1. update[a] # Null /\ update[a] \in Update /\ UNCHANGED settled
    BY <1>2, <1>6 DEF SaveTenant
  <2>2. CASE Close(a)
    BY <2>1, <2>2 DEF Close, Ends
  <2>3. CASE update' = [update EXCEPT ![a] = new] /\ UNCHANGED calm
    <3>1. "saved" \in UpdatePC
      BY DEF UpdatePC
    <3>2. new \in Update
      BY <2>1, <3>1, UpdateFields
    <3>3. new.tenant = update[a].tenant
      BY <2>1 DEF Update
    <3> HIDE DEF new
    <3>4. Moves(a)
      BY <1>1, <2>1, <2>3, <3>2, <3>3
    <3> QED
      BY <2>1, <2>3, <3>4 DEF Undisturbed
  <2> QED
    BY <1>6, <2>2, <2>3 DEF SaveTenant, Goto, TypeOK
<1>7. ASSUME ListUsers(a) PROVE Moves(a)
  <2> DEFINE todo == {u \in Users : users[u] = update[a].tenant}
             new == [update[a] EXCEPT !.pc = "syncing", !.todo = todo]
  <2>1. update' = [update EXCEPT ![a] = new]
    BY <1>7 DEF ListUsers, TypeOK
  <2>2. todo \in SUBSET Users
    OBVIOUS
  <2> HIDE DEF todo
  <2>3. new.tenant = update[a].tenant
    <3>1. update[a] \in Update
      BY <1>2, <1>7 DEF ListUsers
    <3> QED
      BY <3>1 DEF Update
  <2>4. new \in Update
    BY <1>2, <1>7, <2>2, UpdateFields DEF ListUsers, UpdatePC
  <2> HIDE DEF new
  <2> QED
    BY <1>1, <1>7, <2>1, <2>3, <2>4 DEF ListUsers
<1>8. \A u \in Users : SetUserEnabled(a, u) => Moves(a)
  BY DEF SetUserEnabled, Moves, TypeOK, Update
<1>9. FinishUpdate(a) => Ends(a)
  BY DEF FinishUpdate, Ends, Close
<1>10. AbandonUpdate(a) => Ends(a)
  BY DEF AbandonUpdate, Ends
<1> QED
  BY <1>3, <1>4, <1>5, <1>6, <1>7, <1>8, <1>9, <1>10

\* Moving keeps the updates of every tenant; ending takes one away.
LEMMA UpdatesAfter ==
    ASSUME TypeOK, NEW a \in Updates, NEW t \in Tenants
    PROVE  /\ Moves(a) => UpdatesOf(t)' = UpdatesOf(t)
           /\ Ends(a) => UpdatesOf(t)' = UpdatesOf(t) \ {a}
           /\ update' = update => UpdatesOf(t)' = UpdatesOf(t)
BY DEF UpdatesOf, Moves, Ends, TypeOK

\* A row of users keeps its tenant and its account, or goes.
LEMMA RowsStep == TypeOK /\ Rows /\ Creations /\ Listed /\ [Next]_vars => Rows'
<1> SUFFICES ASSUME TypeOK, Rows, Creations, Listed, [Next]_vars PROVE Rows'
  OBVIOUS
<1> USE NullAssumption DEF requests, histories
<1>1. ASSUME NEW a \in Updates, RelieveSave(a) \/ SaveTenant(a) PROVE Rows'
  <2>1. UNCHANGED <<users, account, creation>>
    BY <1>1 DEF RelieveSave, SaveTenant
  <2>2. \A t \in Tenants : tenant[t] # Null => tenant'[t] # Null
    BY <1>1, ActiveRowType DEF RelieveSave, SaveTenant, TypeOK, Update
  <2> QED
    BY <2>1, <2>2 DEF Rows, TypeOK
<1>2. ASSUME NEW r \in Readers, LiftExpired(r) PROVE Rows'
  BY <1>2, ActiveRowType DEF LiftExpired, Rows, TypeOK
<1>3. ASSUME NEW a \in Updates, NEW u \in Users, SetUserEnabled(a, u) PROVE Rows'
  BY <1>3 DEF SetUserEnabled, EnabledFor, Rows, TypeOK
<1>4. ASSUME NEW u \in Users, NEW t \in Tenants, AdmitCreation(u, t) PROVE Rows'
  BY <1>4 DEF AdmitCreation, Rows, TypeOK
<1>5. ASSUME NEW u \in Users, CreateAccount(u) PROVE Rows'
  BY <1>5 DEF CreateAccount, Rows, Creations, TypeOK
<1>6. ASSUME NEW u \in Users, InsertUser(u) PROVE Rows'
  BY <1>6 DEF InsertUser, Rows, Creations, TypeOK, Creation
<1>7. ASSUME NEW t \in Tenants, NEW u \in Users, DeleteAccount(t, u) PROVE Rows'
  BY <1>7 DEF DeleteAccount, Rows, TypeOK
<1>8. ASSUME NEW t \in Tenants, CommitDelete(t) PROVE Rows'
  BY <1>8 DEF CommitDelete, Rows, TypeOK
<1>9. ASSUME UNCHANGED <<tenant, users, account, creation>> PROVE Rows'
  BY <1>9 DEF Rows
<1>10. ASSUME NEW a \in Updates,
             \/ \E t \in Tenants, body \in Bodies : StartUpdate(a, t, body)
             \/ RelieveLoad(a) \/ LoadTenant(a) \/ ListUsers(a) \/ FinishUpdate(a) \/ AbandonUpdate(a)
      PROVE  Rows'
  BY <1>9, <1>10 DEF StartUpdate, RelieveLoad, LoadTenant, ListUsers, FinishUpdate, AbandonUpdate
<1>11. ASSUME NEW r \in Readers, LoadAgain(r) \/ \E t \in Tenants : MeetExpired(r, t) PROVE Rows'
  BY <1>9, <1>11 DEF LoadAgain, MeetExpired
<1>12. ASSUME NEW t \in Tenants, StartDelete(t) \/ AbortDelete(t) PROVE Rows'
  BY <1>9, <1>12 DEF StartDelete, AbortDelete
<1>13. ASSUME Tick \/ UNCHANGED vars PROVE Rows'
  BY <1>9, <1>13 DEF Tick, vars
<1> QED
  BY <1>1, <1>2, <1>3, <1>4, <1>5, <1>6, <1>7, <1>8, <1>10, <1>11, <1>12, <1>13
  DEF Next, UpdateStep, ReaderStep, CreateStep, DeleteStep

\* Nobody else touches the account of a creation under way.
LEMMA CreationsStep == TypeOK /\ Creations /\ Listed /\ [Next]_vars => Creations'
<1> SUFFICES ASSUME TypeOK, Creations, Listed, [Next]_vars PROVE Creations'
  OBVIOUS
<1> USE NullAssumption DEF requests, histories
<1>1. ASSUME NEW a \in Updates, NEW u \in Users, SetUserEnabled(a, u) PROVE Creations'
  <2>1. creation[u] = Null
    BY <1>1 DEF SetUserEnabled, Listed
  <2>2. UNCHANGED <<users, creation>> /\ \A v \in Users \ {u} : account'[v] = account[v]
    BY <1>1 DEF SetUserEnabled, TypeOK
  <2> QED
    BY <2>1, <2>2 DEF Creations
<1>2. ASSUME NEW u \in Users, NEW t \in Tenants, AdmitCreation(u, t) PROVE Creations'
  <2>1. creation' = [creation EXCEPT ![u] = [pc |-> "admitted", tenant |-> t]]
        /\ users[u] = Null /\ account[u] = "none" /\ UNCHANGED <<users, account>>
    BY <1>2 DEF AdmitCreation
  <2>2. creation'[u].pc = "admitted" /\ \A v \in Users \ {u} : creation'[v] = creation[v]
    BY <2>1 DEF TypeOK
  <2> QED
    BY <2>1, <2>2 DEF Creations
<1>3. ASSUME NEW u \in Users, CreateAccount(u) PROVE Creations'
  BY <1>3 DEF CreateAccount, Creations, TypeOK, Creation
<1>4. ASSUME NEW u \in Users, InsertUser(u) PROVE Creations'
  BY <1>4 DEF InsertUser, Creations, TypeOK
<1>5. ASSUME NEW t \in Tenants, NEW u \in Users, DeleteAccount(t, u) PROVE Creations'
  <2>1. creation[u] = Null
    BY <1>5 DEF DeleteAccount, Listed
  <2>2. UNCHANGED <<users, creation>> /\ \A v \in Users \ {u} : account'[v] = account[v]
    BY <1>5 DEF DeleteAccount, TypeOK
  <2> QED
    BY <2>1, <2>2 DEF Creations
<1>6. ASSUME NEW t \in Tenants, CommitDelete(t) PROVE Creations'
  BY <1>6 DEF CommitDelete, Creations, TypeOK
<1>7. ASSUME UNCHANGED <<users, account, creation>> PROVE Creations'
  BY <1>7 DEF Creations
<1>8. ASSUME NEW a \in Updates,
             \/ \E t \in Tenants, body \in Bodies : StartUpdate(a, t, body)
             \/ RelieveLoad(a) \/ RelieveSave(a) \/ LoadTenant(a) \/ SaveTenant(a) \/ ListUsers(a)
             \/ FinishUpdate(a) \/ AbandonUpdate(a)
      PROVE  Creations'
  BY <1>7, <1>8 DEF StartUpdate, RelieveLoad, RelieveSave, LoadTenant, SaveTenant, ListUsers,
                    FinishUpdate, AbandonUpdate
<1>9. ASSUME NEW r \in Readers, LoadAgain(r) \/ LiftExpired(r) \/ \E t \in Tenants : MeetExpired(r, t)
      PROVE  Creations'
  BY <1>7, <1>9 DEF LoadAgain, LiftExpired, MeetExpired
<1>10. ASSUME NEW t \in Tenants, StartDelete(t) \/ AbortDelete(t) PROVE Creations'
  BY <1>7, <1>10 DEF StartDelete, AbortDelete
<1>11. ASSUME Tick \/ UNCHANGED vars PROVE Creations'
  BY <1>7, <1>11 DEF Tick, vars
<1> QED
  BY <1>1, <1>2, <1>3, <1>4, <1>5, <1>6, <1>8, <1>9, <1>10, <1>11
  DEF Next, UpdateStep, ReaderStep, CreateStep, DeleteStep

\* A list of users to synchronise holds users of the tenant with accounts.
ListedBy(a) ==
    update[a] # Null => \A u \in update[a].todo :
        users[u] \in {update[a].tenant, Null} /\ creation[u] = Null /\ account[u] # "none"

\* So does a list of accounts to delete.
ListedIn(t) ==
    removal[t] # Null => \A u \in removal[t].todo : creation[u] = Null /\ account[u] # "none"

\* What the steps of updateTenant leave to do.
LEMMA TodoAfter ==
    ASSUME TypeOK, NEW a \in Updates
    PROVE  /\ RelieveLoad(a) \/ RelieveSave(a) \/ LoadTenant(a) \/ SaveTenant(a)
                => update'[a] = Null \/ update'[a].todo = update[a].todo
           /\ \A u \in Users : SetUserEnabled(a, u) => update'[a].todo = update[a].todo \ {u}
           /\ ListUsers(a) => update'[a].todo = {u \in Users : users[u] = update[a].tenant}
<1> USE NullAssumption DEF Goto, Close, TypeOK, Update
<1>1. RelieveLoad(a) \/ RelieveSave(a) => update'[a].todo = update[a].todo
  BY DEF RelieveLoad, RelieveSave
<1>2. LoadTenant(a) => update'[a] = Null \/ update'[a].todo = update[a].todo
  BY DEF LoadTenant
<1>3. SaveTenant(a) => update'[a] = Null \/ update'[a].todo = update[a].todo
  BY DEF SaveTenant
<1>4. \A u \in Users : SetUserEnabled(a, u) => update'[a].todo = update[a].todo \ {u}
  BY DEF SetUserEnabled
<1>5. ListUsers(a) => update'[a].todo = {u \in Users : users[u] = update[a].tenant}
  BY DEF ListUsers
<1> QED
  BY <1>1, <1>2, <1>3, <1>4, <1>5

\* Listed is inductive.
LEMMA ListedStep == TypeOK /\ Rows /\ Creations /\ Listed /\ [Next]_vars => Listed'
<1> SUFFICES ASSUME TypeOK, Rows, Creations, Listed, [Next]_vars
             PROVE  (\A a \in Updates : ListedBy(a)') /\ (\A t \in Tenants : ListedIn(t)')
  BY DEF Listed, ListedBy, ListedIn
<1> USE NullAssumption DEF requests, histories
<1>1. /\ \A a \in Updates : ListedBy(a)
      /\ \A t \in Tenants : ListedIn(t)
      /\ \A a \in Updates : update[a] # Null => update[a].todo \subseteq Users
      /\ \A t \in Tenants : removal[t] # Null => removal[t].todo \subseteq Users
  BY DEF Listed, ListedBy, ListedIn, TypeOK, Update, Removal
<1> DEFINE Goal == (\A a \in Updates : ListedBy(a)') /\ (\A t \in Tenants : ListedIn(t)')
<1>2. ASSUME NEW a \in Updates, NEW t \in Tenants, NEW body \in Bodies, StartUpdate(a, t, body)
      PROVE  Goal
  <2>1. UNCHANGED <<users, account, creation, removal>>
    BY <1>2 DEF StartUpdate
  <2>2. update'[a].todo = {} /\ \A b \in Updates \ {a} : update'[b] = update[b]
    BY <1>2 DEF StartUpdate, TypeOK
  <2> QED
    BY <1>1, <2>1, <2>2 DEF ListedBy, ListedIn
<1>3. ASSUME NEW a \in Updates,
             RelieveLoad(a) \/ RelieveSave(a) \/ LoadTenant(a) \/ SaveTenant(a)
      PROVE  Goal
  <2>1. UNCHANGED <<users, account, creation, removal>>
    BY <1>3 DEF RelieveLoad, RelieveSave, LoadTenant, SaveTenant
  <2>2. Moves(a) \/ Ends(a)
    BY <1>3, UpdateMoves
  <2>3. update'[a] = Null \/ update'[a].todo = update[a].todo
    BY <1>3, TodoAfter
  <2> QED
    BY <1>1, <2>1, <2>2, <2>3 DEF ListedBy, ListedIn, Moves, Ends, TypeOK
<1>4. ASSUME NEW a \in Updates, ListUsers(a) PROVE Goal
  <2>1. UNCHANGED <<users, account, creation, removal>>
    BY <1>4 DEF ListUsers
  <2>2. Moves(a) /\ update'[a].todo = {u \in Users : users[u] = update[a].tenant}
    BY <1>4, UpdateMoves, TodoAfter
  <2>3. update[a].tenant # Null
    BY <2>2 DEF Moves, TypeOK, Update
  <2>4. ListedBy(a)'
    BY <2>1, <2>2, <2>3 DEF ListedBy, Moves, Rows
  <2> QED
    BY <1>1, <2>1, <2>2, <2>4 DEF ListedBy, ListedIn, Moves
<1>5. ASSUME NEW a \in Updates, NEW u \in Users, SetUserEnabled(a, u) PROVE Goal
  <2>1. UNCHANGED <<users, creation, removal>> /\ \A v \in Users : account[v] # "none" => account'[v] # "none"
    BY <1>5 DEF SetUserEnabled, EnabledFor, TypeOK
  <2>2. Moves(a) /\ update'[a].todo = update[a].todo \ {u}
    BY <1>5, UpdateMoves, TodoAfter
  <2> QED
    BY <1>1, <2>1, <2>2 DEF ListedBy, ListedIn, Moves
<1>6. ASSUME NEW a \in Updates, FinishUpdate(a) \/ AbandonUpdate(a) PROVE Goal
  <2>1. UNCHANGED <<users, account, creation, removal>>
    BY <1>6 DEF FinishUpdate, AbandonUpdate
  <2>2. Ends(a)
    BY <1>6, UpdateMoves
  <2> QED
    BY <1>1, <2>1, <2>2 DEF ListedBy, ListedIn, Ends, TypeOK
<1>7. ASSUME NEW u \in Users,
             CreateAccount(u) \/ InsertUser(u) \/ \E t \in Tenants : AdmitCreation(u, t)
      PROVE  Goal
  <2>1. creation[u] # Null \/ account[u] = "none"
    BY <1>7 DEF AdmitCreation, CreateAccount, InsertUser
  <2>2. UNCHANGED <<update, removal>>
    BY <1>7 DEF AdmitCreation, CreateAccount, InsertUser
  <2>3. \A v \in Users \ {u} : users'[v] = users[v] /\ account'[v] = account[v] /\ creation'[v] = creation[v]
    BY <1>7 DEF AdmitCreation, CreateAccount, InsertUser, TypeOK
  <2>4. \A a \in Updates : update[a] # Null => u \notin update[a].todo
    BY <1>1, <2>1 DEF ListedBy
  <2>5. \A t \in Tenants : removal[t] # Null => u \notin removal[t].todo
    BY <1>1, <2>1 DEF ListedIn
  <2> QED
    BY <1>1, <2>2, <2>3, <2>4, <2>5 DEF ListedBy, ListedIn
<1>8. ASSUME NEW t \in Tenants, StartDelete(t) PROVE Goal
  <2>1. UNCHANGED <<users, account, creation, update>>
    BY <1>8 DEF StartDelete
  <2>2. removal'[t].todo = {u \in Users : users[u] = t} /\ \A s \in Tenants \ {t} : removal'[s] = removal[s]
    BY <1>8 DEF StartDelete, TypeOK
  <2> QED
    BY <1>1, <2>1, <2>2 DEF ListedBy, ListedIn, Rows
<1>9. ASSUME NEW t \in Tenants, NEW u \in Users, DeleteAccount(t, u) PROVE Goal
  <2>1. UNCHANGED <<users, creation, update>> /\ \A v \in Users : account[v] # "none" => account'[v] # "none"
    BY <1>9 DEF DeleteAccount, TypeOK
  <2>2. removal'[t].todo \subseteq removal[t].todo /\ removal[t] # Null
        /\ \A s \in Tenants \ {t} : removal'[s] = removal[s]
    BY <1>9 DEF DeleteAccount, TypeOK, Removal
  <2> QED
    BY <1>1, <2>1, <2>2 DEF ListedBy, ListedIn
<1>10. ASSUME NEW t \in Tenants, CommitDelete(t) PROVE Goal
  <2>1. UNCHANGED <<account, creation, update>> /\ \A v \in Users : users'[v] \in {users[v], Null}
    BY <1>10 DEF CommitDelete
  <2>2. \A s \in Tenants : removal'[s] \in {removal[s], Null}
    BY <1>10 DEF CommitDelete, TypeOK
  <2> QED
    BY <1>1, <2>1, <2>2 DEF ListedBy, ListedIn
<1>11. ASSUME NEW t \in Tenants, AbortDelete(t) PROVE Goal
  <2>1. UNCHANGED <<users, account, creation, update>>
    BY <1>11 DEF AbortDelete
  <2>2. \A s \in Tenants : removal'[s] \in {removal[s], Null}
    BY <1>11 DEF AbortDelete, TypeOK
  <2> QED
    BY <1>1, <2>1, <2>2 DEF ListedBy, ListedIn
<1>12. ASSUME UNCHANGED <<users, account, creation, update, removal>> PROVE Goal
  BY <1>1, <1>12 DEF ListedBy, ListedIn
<1>13. ASSUME NEW r \in Readers, LoadAgain(r) \/ LiftExpired(r) \/ \E t \in Tenants : MeetExpired(r, t)
       PROVE  Goal
  BY <1>12, <1>13 DEF LoadAgain, LiftExpired, MeetExpired
<1>14. ASSUME Tick \/ UNCHANGED vars PROVE Goal
  BY <1>12, <1>14 DEF Tick, vars
<1> QED
  BY <1>2, <1>3, <1>4, <1>5, <1>6, <1>7, <1>8, <1>9, <1>10, <1>11, <1>13, <1>14
  DEF Next, UpdateStep, ReaderStep, CreateStep, DeleteStep

-----------------------------------------------------------------------------
(* Calm updates and settled tenants.                                       *)

\* A calm update is alone with its tenant.
AloneIs(a) ==
    /\ update[a] # Null
    /\ UpdatesOf(update[a].tenant) = {a}
    /\ CreatingIn(update[a].tenant) = {}

\* In a settled tenant every update is calm.
CalmIn(a) == update[a] # Null /\ update[a].tenant \in settled => a \in calm

\* Calm updates stay alone while no update begins and no user is created.
LEMMA AloneStays ==
    ASSUME TypeOK, Alone, NEW a \in Updates, Moves(a) \/ Ends(a),
           calm' \subseteq calm, Ends(a) => a \notin calm',
           \A t \in Tenants : CreatingIn(t)' = CreatingIn(t)
    PROVE  \A b \in calm' : AloneIs(b)'
<1> SUFFICES ASSUME NEW b \in calm' PROVE AloneIs(b)'
  OBVIOUS
<1>1. PICK t \in Tenants : t = update[b].tenant
  BY NullAssumption DEF Alone, TypeOK, Update
<1>2. b \in Updates /\ update[b] # Null /\ UpdatesOf(t) = {b} /\ CreatingIn(t) = {}
  BY <1>1 DEF Alone, TypeOK
<1>3. update'[b] # Null /\ update'[b].tenant = t /\ UpdatesOf(t)' = {b}
  <2>1. CASE Moves(a)
    BY <1>1, <1>2, <2>1, UpdatesAfter DEF Moves
  <2>2. CASE Ends(a)
    <3>1. b # a /\ update'[b] = update[b]
      BY <1>2, <2>2 DEF Ends, TypeOK
    <3> QED
      BY <1>1, <1>2, <2>2, <3>1, UpdatesAfter
  <2> QED
    BY <2>1, <2>2
<1> QED
  BY <1>2, <1>3 DEF AloneIs

\* They stay alone when updates do not move and users are created elsewhere.
LEMMA AloneKeeps ==
    ASSUME TypeOK, Alone, update' = update, calm' \subseteq calm,
           \A t \in Tenants : CreatingIn(t)' \subseteq CreatingIn(t) \/ UpdatesOf(t) \cap calm' = {}
    PROVE  \A b \in calm' : AloneIs(b)'
<1> SUFFICES ASSUME NEW b \in calm' PROVE AloneIs(b)'
  OBVIOUS
<1>1. PICK t \in Tenants : t = update[b].tenant
  BY NullAssumption DEF Alone, TypeOK, Update
<1>2. b \in Updates /\ update[b] # Null /\ UpdatesOf(t) = {b} /\ CreatingIn(t) = {}
  BY <1>1 DEF Alone, TypeOK
<1>3. UpdatesOf(t)' = UpdatesOf(t)
  BY DEF UpdatesOf
<1>4. CreatingIn(t)' = {}
  BY <1>2
<1> QED
  BY <1>1, <1>2, <1>3, <1>4 DEF AloneIs

\* Settled tenants keep only calm updates, whichever way an update moves.
LEMMA CalmStays ==
    ASSUME TypeOK, Alone, NEW a \in Updates, Moves(a) \/ Ends(a),
           \/ Undisturbed
           \/ Disturb(update[a].tenant)
           \/ Ends(a) /\ calm' = calm \ {a}
              /\ (settled' = settled \/ (a \in calm /\ settled' = settled \cup {update[a].tenant}))
    PROVE  \A b \in Updates : CalmIn(b)'
<1> SUFFICES ASSUME NEW b \in Updates, update'[b] # Null, update'[b].tenant \in settled' PROVE b \in calm'
  BY DEF CalmIn
<1>1. update[b] # Null /\ update'[b].tenant = update[b].tenant
  BY DEF Moves, Ends, TypeOK
<1>2. update[b].tenant \in settled => b \in calm
  BY <1>1 DEF Alone
<1>3. CASE Undisturbed
  BY <1>1, <1>2, <1>3 DEF Undisturbed
<1>4. CASE Disturb(update[a].tenant)
  BY <1>1, <1>2, <1>4 DEF Disturb, UpdatesOf
<1>5. CASE Ends(a) /\ calm' = calm \ {a}
           /\ (settled' = settled \/ (a \in calm /\ settled' = settled \cup {update[a].tenant}))
  <2>1. b # a
    BY <1>5 DEF Ends, TypeOK
  <2>2. a \in calm => update[b].tenant # update[a].tenant
    BY <1>1, <2>1 DEF Alone, UpdatesOf
  <2> QED
    BY <1>1, <1>2, <1>5, <2>1, <2>2
<1> QED
  BY <1>3, <1>4, <1>5

\* They also keep them when updates do not move.
LEMMA CalmKeeps ==
    ASSUME TypeOK, Alone, update' = update,
           Undisturbed \/ \E t \in Tenants : Disturb(t)
    PROVE  \A b \in Updates : CalmIn(b)'
BY DEF CalmIn, Alone, Undisturbed, Disturb, UpdatesOf

\* Alone is inductive.
LEMMA AloneStep == TypeOK /\ Alone /\ [Next]_vars => Alone'
<1> SUFFICES ASSUME TypeOK, Alone, [Next]_vars
             PROVE  (\A b \in calm' : AloneIs(b)') /\ (\A b \in Updates : CalmIn(b)')
  BY DEF Alone, AloneIs, CalmIn
<1> USE NullAssumption DEF requests, histories
<1> DEFINE Goal == (\A b \in calm' : AloneIs(b)') /\ (\A b \in Updates : CalmIn(b)')
<1>1. ASSUME NEW a \in Updates, NEW t \in Tenants, NEW body \in Bodies, StartUpdate(a, t, body)
      PROVE  Goal
  <2>1. /\ update[a] = Null /\ update'[a] # Null /\ update'[a].tenant = t
        /\ \A b \in Updates \ {a} : update'[b] = update[b]
    BY <1>1, Begins
  <2>2. UpdatesOf(t)' = UpdatesOf(t) \cup {a}
    BY <2>1 DEF UpdatesOf
  <2>3. \A s \in Tenants \ {t} : UpdatesOf(s)' = UpdatesOf(s)
    BY <2>1 DEF UpdatesOf
  <2>4. \A s \in Tenants : CreatingIn(s)' = CreatingIn(s)
    BY <1>1 DEF StartUpdate, CreatingIn
  <2>5. a \notin calm
    BY <2>1 DEF Alone
  <2>6. CASE Quiet(t) /\ calm' = calm \cup {a} /\ settled' = settled
    <3>1. AloneIs(a)'
      BY <2>1, <2>2, <2>4, <2>6 DEF AloneIs, Quiet
    <3>2. ASSUME NEW b \in calm PROVE AloneIs(b)'
      <4>1. PICK s \in Tenants : s = update[b].tenant
        BY DEF Alone, TypeOK, Update
      <4>2. b \in Updates \ {a} /\ update[b] # Null /\ UpdatesOf(s) = {b} /\ CreatingIn(s) = {}
        BY <2>5, <4>1 DEF Alone, TypeOK
      <4>3. s # t
        BY <2>6, <4>2 DEF Quiet
      <4> QED
        BY <2>1, <2>3, <2>4, <4>1, <4>2, <4>3 DEF AloneIs
    <3> QED
      BY <2>1, <2>6, <3>1, <3>2 DEF CalmIn, Alone
  <2>7. CASE Disturb(t)
    <3>1. ASSUME NEW b \in calm' PROVE AloneIs(b)'
      <4>1. b \in calm /\ b \notin UpdatesOf(t)
        BY <2>7 DEF Disturb
      <4>2. PICK s \in Tenants : s = update[b].tenant
        BY <4>1 DEF Alone, TypeOK, Update
      <4>3. b \in Updates \ {a} /\ update[b] # Null /\ UpdatesOf(s) = {b} /\ CreatingIn(s) = {}
        BY <2>5, <4>1, <4>2 DEF Alone, TypeOK
      <4>4. s # t
        BY <4>1, <4>3
      <4> QED
        BY <2>1, <2>3, <2>4, <4>2, <4>3, <4>4 DEF AloneIs
    <3>2. \A b \in Updates : CalmIn(b)'
      BY <2>1, <2>7 DEF Disturb, CalmIn, Alone, UpdatesOf
    <3> QED
      BY <3>1, <3>2
  <2> QED
    BY <1>1, <2>6, <2>7 DEF StartUpdate
<1>2. ASSUME NEW a \in Updates,
             RelieveLoad(a) \/ RelieveSave(a) \/ LoadTenant(a) \/ SaveTenant(a) \/ ListUsers(a)
             \/ (\E u \in Users : SetUserEnabled(a, u)) \/ FinishUpdate(a) \/ AbandonUpdate(a)
      PROVE  Goal
  <2>1. Moves(a) \/ Ends(a)
    BY <1>2, UpdateMoves
  <2>2. \A t \in Tenants : CreatingIn(t)' = CreatingIn(t)
    BY <1>2 DEF RelieveLoad, RelieveSave, LoadTenant, SaveTenant, ListUsers, SetUserEnabled,
                FinishUpdate, AbandonUpdate, CreatingIn
  <2>3. \/ Undisturbed /\ Moves(a)
        \/ Disturb(update[a].tenant)
        \/ Ends(a) /\ calm' = calm \ {a}
           /\ (settled' = settled \/ (a \in calm /\ settled' = settled \cup {update[a].tenant}))
    <3>1. CASE RelieveLoad(a) \/ ListUsers(a)
      BY <3>1, UpdateMoves DEF RelieveLoad, ListUsers, Undisturbed
    <3>2. CASE RelieveSave(a) \/ AbandonUpdate(a)
      BY <3>2 DEF RelieveSave, AbandonUpdate
    <3>3. CASE LoadTenant(a) \/ SaveTenant(a)
      BY <3>3, UpdateMoves DEF Close
    <3>4. ASSUME NEW u \in Users, SetUserEnabled(a, u)
          PROVE  (Undisturbed /\ Moves(a)) \/ Disturb(update[a].tenant)
      <4>1. Moves(a)
        BY <3>4, UpdateMoves
      <4> QED
        BY <3>4, <4>1 DEF SetUserEnabled, Undisturbed
    <3>5. CASE FinishUpdate(a)
      BY <3>5 DEF FinishUpdate, Close, Ends
    <3> QED
      BY <1>2, <3>1, <3>2, <3>3, <3>4, <3>5
  <2>4. calm' \subseteq calm /\ (Ends(a) => a \notin calm')
    BY <2>3 DEF Undisturbed, Disturb, Moves, Ends, UpdatesOf, TypeOK
  <2> QED
    BY <2>1, <2>2, <2>3, <2>4, AloneStays, CalmStays
<1>3. ASSUME update' = update, creation' = creation, Undisturbed \/ \E t \in Tenants : Disturb(t)
      PROVE  Goal
  <2>1. calm' \subseteq calm
    BY <1>3 DEF Undisturbed, Disturb
  <2>2. \A t \in Tenants : CreatingIn(t)' \subseteq CreatingIn(t)
    BY <1>3 DEF CreatingIn
  <2> QED
    BY <1>3, <2>1, <2>2, AloneKeeps, CalmKeeps
<1>4. ASSUME NEW r \in Readers, LiftExpired(r) PROVE Goal
  BY <1>3, <1>4 DEF LiftExpired, TypeOK, Reader
<1>5. ASSUME NEW r \in Readers, LoadAgain(r) \/ \E t \in Tenants : MeetExpired(r, t) PROVE Goal
  BY <1>3, <1>5 DEF LoadAgain, MeetExpired, Undisturbed
<1>6. ASSUME NEW u \in Users, NEW t \in Tenants, AdmitCreation(u, t) PROVE Goal
  <2>1. \A s \in Tenants \ {t} : CreatingIn(s)' = CreatingIn(s)
    BY <1>6 DEF AdmitCreation, CreatingIn, TypeOK
  <2>2. UpdatesOf(t) \cap calm' = {} /\ calm' \subseteq calm /\ (Undisturbed \/ Disturb(t))
    BY <1>6 DEF AdmitCreation, Undisturbed, Disturb
  <2>3. update' = update
    BY <1>6 DEF AdmitCreation
  <2> QED
    BY <2>1, <2>2, <2>3, AloneKeeps, CalmKeeps
<1>7. ASSUME NEW u \in Users, CreateAccount(u) \/ InsertUser(u) PROVE Goal
  <2>1. \A t \in Tenants : CreatingIn(t)' \subseteq CreatingIn(t)
    BY <1>7 DEF CreateAccount, InsertUser, CreatingIn, TypeOK, Creation
  <2>2. update' = update /\ Undisturbed
    BY <1>7 DEF CreateAccount, InsertUser, Undisturbed
  <2> QED
    BY <2>1, <2>2, AloneKeeps, CalmKeeps DEF Undisturbed
<1>8. ASSUME NEW t \in Tenants, StartDelete(t) \/ CommitDelete(t) \/ AbortDelete(t)
                                \/ \E u \in Users : DeleteAccount(t, u)
      PROVE  Goal
  BY <1>3, <1>8 DEF StartDelete, CommitDelete, AbortDelete, DeleteAccount, Undisturbed
<1>9. ASSUME Tick \/ UNCHANGED vars PROVE Goal
  BY <1>3, <1>9 DEF Tick, vars, Undisturbed
<1> QED
  BY <1>1, <1>2, <1>4, <1>5, <1>6, <1>7, <1>8, <1>9
  DEF Next, UpdateStep, ReaderStep, CreateStep, DeleteStep

-----------------------------------------------------------------------------
(* The status that updates and creations rely on.                          *)

\* Who changes the row of a tenant: a deletion, which leaves no row; a save
\* of an update; or a lifting, which disturbs the tenant.
LEMMA TenantChanges ==
    ASSUME TypeOK, [Next]_vars, NEW t \in Tenants, tenant'[t] # tenant[t]
    PROVE  \/ tenant'[t] = Null
           \/ \E a \in Updates : SaveTenant(a) /\ update[a].tenant = t /\ tenant'[t] = update[a].row
           \/ Disturb(t) /\ tenant'[t] = ActiveRow
<1> USE NullAssumption DEF requests, histories
<1>1. ASSUME NEW a \in Updates, RelieveSave(a) PROVE Disturb(t) /\ tenant'[t] = ActiveRow
  BY <1>1 DEF RelieveSave, TypeOK
<1>2. ASSUME NEW r \in Readers, LiftExpired(r) PROVE Disturb(t) /\ tenant'[t] = ActiveRow
  BY <1>2 DEF LiftExpired, TypeOK
<1>3. ASSUME NEW a \in Updates, SaveTenant(a)
      PROVE  update[a].tenant = t /\ tenant'[t] = update[a].row
  BY <1>3 DEF SaveTenant, TypeOK
<1>4. ASSUME NEW s \in Tenants, CommitDelete(s) PROVE tenant'[t] = Null
  BY <1>4 DEF CommitDelete, TypeOK
<1>5. ASSUME NEW a \in Updates,
             \/ \E s \in Tenants, body \in Bodies : StartUpdate(a, s, body)
             \/ RelieveLoad(a) \/ LoadTenant(a) \/ ListUsers(a)
             \/ \E u \in Users : SetUserEnabled(a, u)
             \/ FinishUpdate(a) \/ AbandonUpdate(a)
      PROVE  FALSE
  BY <1>5 DEF StartUpdate, RelieveLoad, LoadTenant, ListUsers, SetUserEnabled, FinishUpdate,
              AbandonUpdate
<1>6. ASSUME NEW r \in Readers, LoadAgain(r) \/ \E s \in Tenants : MeetExpired(r, s)
      PROVE  FALSE
  BY <1>6 DEF LoadAgain, MeetExpired
<1>7. ASSUME Tick \/ CreateStep \/ UNCHANGED vars PROVE FALSE
  BY <1>7 DEF Tick, CreateStep, AdmitCreation, CreateAccount, InsertUser, vars
<1>8. ASSUME NEW s \in Tenants,
             StartDelete(s) \/ AbortDelete(s) \/ \E u \in Users : DeleteAccount(s, u)
      PROVE  FALSE
  BY <1>8 DEF StartDelete, AbortDelete, DeleteAccount
<1> QED
  BY <1>1, <1>2, <1>3, <1>4, <1>5, <1>6, <1>7, <1>8
  DEF Next, UpdateStep, ReaderStep, DeleteStep

\* How tenants become settled: at the end of a calm update.
LEMMA SettledGrows ==
    ASSUME TypeOK, Alone, [Next]_vars, NEW t \in settled', t \notin settled
    PROVE  \E a \in calm : FinishUpdate(a) /\ update[a].tenant = t
<1> USE NullAssumption DEF requests, histories, Disturb, Undisturbed, Close, Goto
<1>1. ASSUME NEW a \in Updates, FinishUpdate(a)
      PROVE  a \in calm /\ update[a].tenant = t
  BY <1>1 DEF FinishUpdate
<1>2. ASSUME NEW a \in Updates,
             \/ \E s \in Tenants, body \in Bodies : StartUpdate(a, s, body)
             \/ RelieveLoad(a) \/ RelieveSave(a) \/ LoadTenant(a) \/ SaveTenant(a) \/ ListUsers(a)
             \/ \E u \in Users : SetUserEnabled(a, u)
             \/ AbandonUpdate(a)
      PROVE  FALSE
  BY <1>2 DEF StartUpdate, RelieveLoad, RelieveSave, LoadTenant, SaveTenant, ListUsers,
              SetUserEnabled, AbandonUpdate
<1>3. ASSUME ReaderStep PROVE FALSE
  BY <1>3 DEF ReaderStep, MeetExpired, LoadAgain, LiftExpired
<1>4. ASSUME CreateStep PROVE FALSE
  BY <1>4 DEF CreateStep, AdmitCreation, CreateAccount, InsertUser
<1>5. ASSUME Tick \/ DeleteStep \/ UNCHANGED vars PROVE FALSE
  BY <1>5 DEF Tick, DeleteStep, StartDelete, DeleteAccount, CommitDelete, AbortDelete, vars
<1> QED
  BY <1>1, <1>2, <1>3, <1>4, <1>5 DEF Next, UpdateStep

\* A creation begins where the tenant is active.
LEMMA CreationBegins ==
    ASSUME TypeOK, [Next]_vars, NEW u \in Users, creation'[u] # Null
    PROVE  \/ creation[u] # Null /\ creation'[u].tenant = creation[u].tenant
           \/ /\ tenant[creation'[u].tenant].status = "active"
              /\ UNCHANGED tenant
<1> USE NullAssumption DEF requests, histories
<1>1. ASSUME NEW v \in Users, NEW t \in Tenants, AdmitCreation(v, t)
      PROVE  \/ creation[u] # Null /\ creation'[u].tenant = creation[u].tenant
             \/ /\ tenant[creation'[u].tenant].status = "active"
                /\ UNCHANGED tenant
  BY <1>1 DEF AdmitCreation, TypeOK
<1>2. ASSUME NEW v \in Users, CreateAccount(v) \/ InsertUser(v)
      PROVE  creation[u] # Null /\ creation'[u].tenant = creation[u].tenant
  BY <1>2 DEF CreateAccount, InsertUser, TypeOK, Creation
<1>3. ASSUME Tick \/ UpdateStep \/ ReaderStep \/ DeleteStep \/ UNCHANGED vars
      PROVE  creation'[u] = creation[u]
  BY <1>3 DEF Tick, UpdateStep, ReaderStep, DeleteStep, StartUpdate, RelieveLoad, RelieveSave,
              LoadTenant, SaveTenant, ListUsers, SetUserEnabled, FinishUpdate, AbandonUpdate,
              MeetExpired, LoadAgain, LiftExpired, StartDelete, DeleteAccount, CommitDelete,
              AbortDelete, vars
<1> QED
  BY <1>1, <1>2, <1>3 DEF Next, CreateStep

\* CreatedActive is inductive.
LEMMA CreatedActiveStep == TypeOK /\ Alone /\ CreatedActive /\ [Next]_vars => CreatedActive'
<1> SUFFICES ASSUME TypeOK, Alone, CreatedActive, [Next]_vars, NEW u \in Users,
                    creation'[u] # Null, creation'[u].tenant \in settled',
                    tenant'[creation'[u].tenant] # Null
             PROVE  tenant'[creation'[u].tenant].status = "active"
  BY DEF CreatedActive
<1>1. PICK t \in Tenants : t = creation'[u].tenant
  BY TypeStep, NullAssumption DEF TypeOK, Creation
<1>2. CASE tenant[t].status = "active" /\ UNCHANGED tenant
  BY <1>1, <1>2
<1>3. CASE creation[u] # Null /\ creation[u].tenant = t
  <2>1. u \in CreatingIn(t)
    BY <1>3 DEF CreatingIn
  <2>2. t \in settled
    <3>1. ASSUME NEW a \in calm, update[a].tenant = t PROVE FALSE
      BY <2>1, <3>1 DEF Alone
    <3> QED
      BY <1>1, <3>1, SettledGrows
  <2>3. tenant'[t] # tenant[t] => tenant'[t] = ActiveRow
    <3>1. ASSUME NEW a \in Updates, SaveTenant(a), update[a].tenant = t PROVE FALSE
      BY <2>1, <2>2, <3>1 DEF Alone, SaveTenant
    <3> QED
      BY <1>1, <3>1, TenantChanges
  <2> QED
    BY <1>1, <1>3, <2>2, <2>3 DEF CreatedActive, ActiveRow
<1> QED
  BY <1>1, <1>2, <1>3, CreationBegins

\* An update becomes calm when it begins, with the status of the row.
LEMMA CalmBegins ==
    ASSUME TypeOK, [Next]_vars, NEW b \in calm', b \notin calm
    PROVE  /\ UNCHANGED tenant
           /\ update'[b] # Null /\ update'[b].tenant \in Tenants
           /\ update'[b].was = tenant[update'[b].tenant].status
           /\ update'[b].pc \in {"expired", "normalized"}
<1> USE NullAssumption DEF requests, histories, Disturb, Undisturbed, Close, Goto
<1>1. ASSUME NEW a \in Updates, NEW t \in Tenants, NEW body \in Bodies, StartUpdate(a, t, body)
      PROVE  /\ UNCHANGED tenant
             /\ update'[b] # Null /\ update'[b].tenant \in Tenants
             /\ update'[b].was = tenant[update'[b].tenant].status
             /\ update'[b].pc \in {"expired", "normalized"}
  <2>1. b = a /\ UNCHANGED tenant
    BY <1>1 DEF StartUpdate
  <2> QED
    BY <1>1, <2>1, Begins
<1>2. ASSUME NEW a \in Updates,
             \/ RelieveLoad(a) \/ RelieveSave(a) \/ LoadTenant(a) \/ SaveTenant(a) \/ ListUsers(a)
             \/ \E u \in Users : SetUserEnabled(a, u)
             \/ FinishUpdate(a) \/ AbandonUpdate(a)
      PROVE  FALSE
  BY <1>2 DEF RelieveLoad, RelieveSave, LoadTenant, SaveTenant, ListUsers,
              SetUserEnabled, FinishUpdate, AbandonUpdate
<1>3. ASSUME ReaderStep PROVE FALSE
  BY <1>3 DEF ReaderStep, MeetExpired, LoadAgain, LiftExpired
<1>4. ASSUME CreateStep PROVE FALSE
  BY <1>4 DEF CreateStep, AdmitCreation, CreateAccount, InsertUser
<1>5. ASSUME Tick \/ DeleteStep \/ UNCHANGED vars PROVE FALSE
  BY <1>5 DEF Tick, DeleteStep, StartDelete, DeleteAccount, CommitDelete, AbortDelete, vars
<1> QED
  BY <1>1, <1>2, <1>3, <1>4, <1>5 DEF Next, UpdateStep

\* What steps do to an update: only its own change it.
LEMMA UpdateChanges ==
    ASSUME TypeOK, [Next]_vars, NEW b \in Updates, update[b] # Null
    PROVE  \/ update'[b] = update[b]
           \/ RelieveLoad(b) \/ RelieveSave(b) \/ LoadTenant(b) \/ SaveTenant(b) \/ ListUsers(b)
           \/ \E u \in Users : SetUserEnabled(b, u)
           \/ FinishUpdate(b) \/ AbandonUpdate(b)
<1> USE DEF requests, histories
<1>1. ASSUME NEW a \in Updates, NEW t \in Tenants, NEW body \in Bodies, StartUpdate(a, t, body)
      PROVE  update'[b] = update[b]
  BY <1>1, Begins
<1>2. ASSUME NEW a \in Updates, a # b,
             \/ RelieveLoad(a) \/ RelieveSave(a) \/ LoadTenant(a) \/ SaveTenant(a) \/ ListUsers(a)
             \/ \E u \in Users : SetUserEnabled(a, u)
             \/ FinishUpdate(a) \/ AbandonUpdate(a)
      PROVE  update'[b] = update[b]
  <2>1. Moves(a) \/ Ends(a)
    BY <1>2, UpdateMoves
  <2> QED
    BY <1>2, <2>1 DEF Moves, Ends, TypeOK
<1>3. ASSUME Tick \/ ReaderStep \/ CreateStep \/ DeleteStep \/ UNCHANGED vars
      PROVE  update'[b] = update[b]
  BY <1>3 DEF Tick, ReaderStep, CreateStep, DeleteStep, MeetExpired, LoadAgain, LiftExpired,
              AdmitCreation, CreateAccount, InsertUser, StartDelete, DeleteAccount, CommitDelete,
              AbortDelete, vars
<1> QED
  BY <1>1, <1>2, <1>3 DEF Next, UpdateStep

\* What an update that stays calm goes on to know: it saves its row, or
\* keeps what it knew.
LEMMA CalmAfter ==
    ASSUME TypeOK, Alone, [Next]_vars, NEW b \in calm, b \in calm'
    PROVE  /\ b \in Updates /\ update[b] # Null /\ update'[b] # Null
           /\ update'[b].tenant = update[b].tenant
           /\ SaveTenant(b) => /\ Syncing(b)'
                               /\ update'[b].row = update[b].row
                               /\ tenant'[update[b].tenant] = update[b].row
           /\ ~ SaveTenant(b) =>
                \/ ~ Syncing(b) /\ ~ Syncing(b)' /\ update'[b].was = update[b].was
                \/ Syncing(b) /\ Syncing(b)' /\ update'[b].row = update[b].row
<1> USE NullAssumption
<1>1. b \in Updates /\ update[b] # Null /\ update[b] \in Update /\ b \in UpdatesOf(update[b].tenant)
  BY DEF Alone, TypeOK
<1>2. ~ RelieveSave(b) /\ ~ AbandonUpdate(b) /\ ~ FinishUpdate(b) /\ ~ Close(b)
  BY <1>1 DEF RelieveSave, AbandonUpdate, FinishUpdate, Close, Disturb
<1>3. CASE update'[b] = update[b] /\ ~ SaveTenant(b)
  BY <1>1, <1>3 DEF Syncing
<1>4. CASE RelieveLoad(b) /\ ~ SaveTenant(b)
  <2>1. Moves(b)
    BY <1>1, <1>4, UpdateMoves
  <2>2. update'[b].pc \in {"normalized", "relifting"} /\ update'[b].was = update[b].was
    BY <1>1, <1>4 DEF RelieveLoad, Goto, TypeOK, Update
  <2> QED
    BY <1>1, <1>4, <2>1, <2>2 DEF RelieveLoad, Syncing, Moves
<1>5. CASE LoadTenant(b) /\ ~ SaveTenant(b)
  <2>1. Moves(b)
    BY <1>1, <1>2, <1>5, UpdateMoves
  <2>2. update'[b].pc = "loaded" /\ update'[b].was = update[b].was
    BY <1>1, <1>2, <1>5 DEF LoadTenant, TypeOK, Update
  <2> QED
    BY <1>1, <1>5, <2>1, <2>2 DEF LoadTenant, Syncing, Moves
<1>6. ASSUME SaveTenant(b)
      PROVE  /\ update'[b] # Null /\ update'[b].tenant = update[b].tenant
             /\ Syncing(b)' /\ update'[b].row = update[b].row
             /\ tenant'[update[b].tenant] = update[b].row
  <2>1. Moves(b)
    BY <1>1, <1>2, <1>6, UpdateMoves
  <2>2. update'[b].pc = "saved" /\ update'[b].row = update[b].row
    BY <1>1, <1>2, <1>6 DEF SaveTenant, Goto, TypeOK, Update
  <2>3. tenant'[update[b].tenant] = update[b].row
    BY <1>1, <1>6 DEF SaveTenant, TypeOK, Update
  <2> QED
    BY <1>1, <1>6, <2>1, <2>2, <2>3 DEF Syncing, Moves
<1>7. CASE ListUsers(b) /\ ~ SaveTenant(b)
  <2>1. Moves(b)
    BY <1>1, <1>7, UpdateMoves
  <2>2. update'[b].pc = "syncing" /\ update'[b].row = update[b].row
    BY <1>1, <1>7 DEF ListUsers, TypeOK, Update
  <2> QED
    BY <1>1, <1>7, <2>1, <2>2 DEF ListUsers, Syncing, Moves
<1>8. ASSUME NEW u \in Users, SetUserEnabled(b, u)
      PROVE  /\ update'[b] # Null /\ update'[b].tenant = update[b].tenant
             /\ Syncing(b) /\ Syncing(b)' /\ update'[b].row = update[b].row
  <2>1. Moves(b)
    BY <1>1, <1>8, UpdateMoves
  <2>2. update'[b].pc = update[b].pc /\ update'[b].row = update[b].row
    BY <1>1, <1>8 DEF SetUserEnabled, TypeOK, Update
  <2> QED
    BY <1>1, <1>8, <2>1, <2>2 DEF SetUserEnabled, Syncing, Moves
<1> QED
  BY <1>1, <1>2, <1>3, <1>4, <1>5, <1>6, <1>7, <1>8, UpdateChanges

\* Knows is inductive.
LEMMA KnowsStep == TypeOK /\ Alone /\ Knows /\ [Next]_vars => Knows'
<1> SUFFICES ASSUME TypeOK, Alone, Knows, [Next]_vars, NEW b \in calm',
                    tenant'[update'[b].tenant] # Null
             PROVE  tenant'[update'[b].tenant].status
                      = IF Syncing(b)' THEN update'[b].row.status ELSE update'[b].was
  BY DEF Knows
<1>1. CASE b \notin calm
  BY <1>1, CalmBegins DEF Syncing
<1>2. CASE b \in calm
  <2>1. PICK t \in Tenants : t = update[b].tenant
    BY <1>2, NullAssumption DEF Alone, TypeOK, Update
  <2>2. update'[b].tenant = t /\ b \in UpdatesOf(t)
    BY <1>2, <2>1, CalmAfter DEF UpdatesOf
  <2>3. CASE SaveTenant(b)
    BY <1>2, <2>1, <2>2, <2>3, CalmAfter
  <2>4. CASE ~ SaveTenant(b)
    <3>1. tenant'[t] = tenant[t]
      <4>1. ASSUME NEW a \in Updates, SaveTenant(a), update[a].tenant = t PROVE FALSE
        <5>1. a \in UpdatesOf(t)
          BY <4>1 DEF UpdatesOf, SaveTenant
        <5> QED
          BY <1>2, <2>1, <2>4, <4>1, <5>1 DEF Alone
      <4>2. ~ Disturb(t)
        BY <2>2 DEF Disturb
      <4> QED
        BY <2>2, <4>1, <4>2, TenantChanges
    <3> QED
      BY <1>2, <2>1, <2>2, <2>4, <3>1, CalmAfter DEF Knows
  <2> QED
    BY <2>3, <2>4
<1> QED
  BY <1>1, <1>2

-----------------------------------------------------------------------------
(* The accounts.                                                           *)

\* Who enables or disables the account of a user in t: an update of t, or
\* the creation of the user.
LEMMA AccountAfter ==
    ASSUME TypeOK, Creations, Listed, [Next]_vars, NEW v \in Users, NEW t \in Tenants,
           users'[v] = t, account'[v] # "deleted"
    PROVE  \/ users[v] = t /\ account'[v] = account[v]
           \/ users[v] = t /\ \E a \in UpdatesOf(t) :
                                SetUserEnabled(a, v) /\ account'[v] = EnabledFor(a)
           \/ /\ InsertUser(v) /\ creation[v] # Null /\ creation[v].tenant = t
              /\ account'[v] = "enabled" /\ UNCHANGED tenant /\ tenant[t] # Null
<1> USE NullAssumption DEF requests, histories
<1>1. ASSUME NEW a \in Updates, NEW u \in Users, SetUserEnabled(a, u)
      PROVE  \/ users[v] = t /\ account'[v] = account[v]
             \/ users[v] = t /\ \E b \in UpdatesOf(t) :
                                  SetUserEnabled(b, v) /\ account'[v] = EnabledFor(b)
  <2>1. users[v] = t
    BY <1>1 DEF SetUserEnabled
  <2>2. CASE u # v
    BY <1>1, <2>1, <2>2 DEF SetUserEnabled, TypeOK
  <2>3. CASE u = v
    <3>1. update[a] # Null /\ v \in update[a].todo
      BY <1>1, <2>3 DEF SetUserEnabled
    <3>2. a \in UpdatesOf(t)
      BY <2>1, <3>1 DEF Listed, UpdatesOf
    <3>3. account'[v] \in {account[v], EnabledFor(a)}
      BY <1>1, <2>3 DEF SetUserEnabled, TypeOK
    <3> QED
      BY <1>1, <2>1, <2>3, <3>2, <3>3
  <2> QED
    BY <2>2, <2>3
<1>2. ASSUME NEW u \in Users, InsertUser(u)
      PROVE  \/ users[v] = t /\ account'[v] = account[v]
             \/ /\ InsertUser(v) /\ creation[v] # Null /\ creation[v].tenant = t
                /\ account'[v] = "enabled" /\ UNCHANGED tenant /\ tenant[t] # Null
  <2>1. CASE u # v
    BY <1>2, <2>1 DEF InsertUser, TypeOK
  <2>2. CASE u = v
    <3>1. creation[v] # Null /\ users[v] = Null /\ account[v] = "enabled" /\ UNCHANGED tenant
      BY <1>2, <2>2 DEF InsertUser, Creations
    <3>2. tenant[creation[v].tenant] # Null /\ users'[v] = creation[v].tenant /\ account' = account
      BY <1>2, <2>2, <3>1 DEF InsertUser, TypeOK
    <3> QED
      BY <1>2, <2>2, <3>1, <3>2
  <2> QED
    BY <2>1, <2>2
<1>3. ASSUME NEW u \in Users, CreateAccount(u) PROVE users[v] = t /\ account'[v] = account[v]
  <2>1. users[u] = Null /\ users' = users
    BY <1>3 DEF CreateAccount, Creations
  <2> QED
    BY <1>3, <2>1 DEF CreateAccount, TypeOK
<1>4. ASSUME NEW s \in Tenants, CommitDelete(s) PROVE users[v] = t /\ account'[v] = account[v]
  BY <1>4 DEF CommitDelete
<1>5. ASSUME NEW s \in Tenants, NEW u \in Users, DeleteAccount(s, u)
      PROVE  users[v] = t /\ account'[v] = account[v]
  BY <1>5 DEF DeleteAccount, TypeOK
<1>6. ASSUME NEW a \in Updates,
             \/ \E s \in Tenants, body \in Bodies : StartUpdate(a, s, body)
             \/ RelieveLoad(a) \/ RelieveSave(a) \/ LoadTenant(a) \/ SaveTenant(a) \/ ListUsers(a)
             \/ FinishUpdate(a) \/ AbandonUpdate(a)
      PROVE  UNCHANGED <<users, account>>
  BY <1>6 DEF StartUpdate, RelieveLoad, RelieveSave, LoadTenant, SaveTenant, ListUsers,
              FinishUpdate, AbandonUpdate
<1>7. ASSUME ReaderStep \/ Tick \/ UNCHANGED vars PROVE UNCHANGED <<users, account>>
  BY <1>7 DEF ReaderStep, MeetExpired, LoadAgain, LiftExpired, Tick, vars
<1>8. ASSUME NEW s \in Tenants,
             StartDelete(s) \/ AbortDelete(s) \/ \E u \in Users : AdmitCreation(u, s)
      PROVE  UNCHANGED <<users, account>>
  BY <1>8 DEF StartDelete, AbortDelete, AdmitCreation
<1> QED
  BY <1>1, <1>2, <1>3, <1>4, <1>5, <1>6, <1>7, <1>8
  DEF Next, UpdateStep, CreateStep, DeleteStep

\* An update leaves its row's status in the accounts it sets.
LEMMA EnabledForStatus == \A a : EnabledFor(a) = AccountFor(update[a].row.status) \/
                                 update[a].row.status \notin Statuses
BY DEF EnabledFor, AccountFor, Statuses

\* Reached is inductive.
LEMMA ReachedStep ==
    TypeOK /\ Creations /\ Listed /\ Alone /\ Reached /\ [Next]_vars => Reached'
<1> SUFFICES ASSUME TypeOK, Creations, Listed, Alone, Reached, [Next]_vars, NEW b \in calm',
                    update'[b].pc = "syncing", NEW v \in Users, v \notin update'[b].todo,
                    users'[v] = update'[b].tenant, account'[v] # "deleted"
             PROVE  account'[v] = AccountFor(update'[b].row.status)
  BY DEF Reached, Follows
<1> USE NullAssumption
<1>1. b \in calm
  BY CalmBegins
<1>2. PICK t \in Tenants : t = update[b].tenant
  BY <1>1 DEF Alone, TypeOK, Update
<1>3. /\ b \in Updates /\ update[b] # Null /\ update[b] \in Update
      /\ UpdatesOf(t) = {b} /\ CreatingIn(t) = {}
  BY <1>1, <1>2 DEF Alone, TypeOK
<1>4. update'[b].tenant = t
  BY <1>1, <1>2, CalmAfter
<1>5. ~ InsertUser(v) \/ creation[v] = Null \/ creation[v].tenant # t
  BY <1>3 DEF CreatingIn
<1>6. update[b].row.status \in Statuses
  BY <1>3 DEF Update, TenantRow
<1>7. CASE SetUserEnabled(b, v)
  <2>1. update'[b].row = update[b].row
    BY <1>3, <1>7 DEF SetUserEnabled, TypeOK, Update
  <2>2. account'[v] = EnabledFor(b)
    <3>1. \/ account'[v] = EnabledFor(b)
          \/ account[v] = "deleted" /\ account' = account
          \/ Disturb(t)
      BY <1>2, <1>7 DEF SetUserEnabled, TypeOK
    <3>2. ~ Disturb(t)
      BY <1>3 DEF Disturb
    <3> QED
      BY <3>1, <3>2
  <2> QED
    BY <1>6, <2>1, <2>2, EnabledForStatus
<1>8. CASE ~ SetUserEnabled(b, v)
  <2>1. users[v] = t /\ account'[v] = account[v]
    BY <1>3, <1>4, <1>5, <1>8, AccountAfter
  <2>2. CASE ListUsers(b)
    BY <1>2, <2>1, <2>2, <1>3, TodoAfter
  <2>3. CASE ~ ListUsers(b)
    <3>1. update[b].pc = "syncing" /\ update'[b].row = update[b].row /\ v \notin update[b].todo
      <4>1. CASE update'[b] = update[b]
        BY <4>1
      <4>2. ASSUME NEW u \in Users, SetUserEnabled(b, u)
            PROVE  update[b].pc = "syncing" /\ update'[b].row = update[b].row /\ v \notin update[b].todo
        <5>1. u # v
          BY <1>8, <4>2
        <5> QED
          BY <1>3, <4>2, <5>1 DEF SetUserEnabled, TypeOK, Update
      <4>3. CASE SaveTenant(b) \/ LoadTenant(b) \/ RelieveLoad(b)
        <5>1. update'[b].pc \in {"saved", "loaded", "normalized", "relifting"} \/ Close(b)
          BY <1>3, <4>3 DEF SaveTenant, LoadTenant, RelieveLoad, Goto, TypeOK, Update
        <5> QED
          BY <5>1 DEF Close
      <4>4. CASE RelieveSave(b) \/ FinishUpdate(b) \/ AbandonUpdate(b)
        BY <1>2, <1>3, <4>4 DEF RelieveSave, FinishUpdate, AbandonUpdate, Close, Disturb
      <4> QED
        BY <1>3, <2>3, <4>1, <4>2, <4>3, <4>4, UpdateChanges
    <3> QED
      BY <1>1, <1>2, <2>1, <3>1 DEF Reached, Follows
  <2> QED
    BY <2>2, <2>3
<1> QED
  BY <1>7, <1>8

\* An update of a tenant that stays settled keeps synchronising or finishes.
LEMMA SyncingStays ==
    ASSUME TypeOK, Alone, [Next]_vars, NEW t \in settled, t \in settled',
           NEW a \in UpdatesOf(t), Syncing(a), ~ FinishUpdate(a)
    PROVE  a \in UpdatesOf(t)' /\ Syncing(a)'
<1> USE NullAssumption
<1>1. a \in Updates /\ update[a] # Null /\ update[a] \in Update /\ update[a].tenant = t
      /\ update[a].pc \in {"saved", "syncing"}
  BY DEF UpdatesOf, TypeOK, Syncing
<1>2. CASE update'[a] = update[a]
  BY <1>1, <1>2 DEF UpdatesOf, Syncing
<1>3. CASE RelieveLoad(a) \/ RelieveSave(a) \/ LoadTenant(a) \/ SaveTenant(a)
  BY <1>1, <1>3 DEF RelieveLoad, RelieveSave, LoadTenant, SaveTenant
<1>4. CASE AbandonUpdate(a)
  BY <1>1, <1>4 DEF AbandonUpdate, Disturb
<1>5. CASE ListUsers(a)
  <2>1. Moves(a)
    BY <1>1, <1>5, UpdateMoves
  <2>2. update'[a].pc = "syncing"
    BY <1>1, <1>5 DEF ListUsers, TypeOK, Update
  <2> QED
    BY <1>1, <2>1, <2>2 DEF Moves, UpdatesOf, Syncing
<1>6. ASSUME NEW u \in Users, SetUserEnabled(a, u) PROVE a \in UpdatesOf(t)' /\ Syncing(a)'
  <2>1. Moves(a)
    BY <1>1, <1>6, UpdateMoves
  <2>2. update'[a].pc = update[a].pc
    BY <1>1, <1>6 DEF SetUserEnabled, TypeOK, Update
  <2> QED
    BY <1>1, <2>1, <2>2 DEF Moves, UpdatesOf, Syncing
<1> QED
  BY <1>1, <1>2, <1>3, <1>4, <1>5, <1>6, UpdateChanges

\* A calm update that finishes leaves accounts that follow the status.
LEMMA FinishFollows ==
    ASSUME TypeOK, Alone, Knows, Reached, NEW a \in calm, FinishUpdate(a),
           NEW v \in Users, tenant[update[a].tenant] # Null
    PROVE  Follows(update[a].tenant, v, tenant[update[a].tenant].status)
<1>1. update[a].pc = "syncing" /\ update[a].todo = {}
  BY DEF FinishUpdate
<1>2. tenant[update[a].tenant].status = update[a].row.status
  BY <1>1 DEF Knows, Syncing
<1> QED
  BY <1>1, <1>2 DEF Reached

\* Settled is inductive.
LEMMA SettledStep ==
    TypeOK /\ IInv /\ [Next]_vars => Settled'
<1> SUFFICES ASSUME TypeOK, IInv, [Next]_vars, NEW t \in settled',
                    \A a \in UpdatesOf(t)' : ~ Syncing(a)',
                    NEW v \in Users, tenant'[t] # Null, users'[v] = t, account'[v] # "deleted"
             PROVE  account'[v] = AccountFor(tenant'[t].status)
  BY DEF Settled, Follows
<1> USE NullAssumption DEF IInv
<1>1. t \in Tenants
  BY TypeStep DEF TypeOK
<1>2. ASSUME NEW a \in calm, FinishUpdate(a), update[a].tenant = t
      PROVE  account'[v] = AccountFor(tenant'[t].status)
  <2>1. UNCHANGED <<tenant, users, account>>
    BY <1>2 DEF FinishUpdate
  <2> QED
    BY <1>2, <2>1, FinishFollows DEF Follows
<1>3. CASE t \notin settled
  BY <1>2, <1>3, SettledGrows
<1>4. CASE t \in settled /\ ~ \E a \in calm : FinishUpdate(a) /\ update[a].tenant = t
  <2>1. \A a \in UpdatesOf(t) : a \in calm /\ a \in Updates /\ UpdatesOf(t) = {a} /\ CreatingIn(t) = {}
                                /\ update[a] # Null /\ update[a].tenant = t
    <3>1. TAKE a \in UpdatesOf(t)
    <3>2. a \in Updates /\ update[a] # Null /\ update[a].tenant = t
      BY DEF UpdatesOf
    <3>3. a \in calm
      BY <1>4, <3>2 DEF Alone
    <3> QED
      BY <3>2, <3>3 DEF Alone
  <2>2. \A a \in UpdatesOf(t) : ~ Syncing(a)
    BY <1>4, <2>1, SyncingStays
  <2>3. tenant[t] # Null => Follows(t, v, tenant[t].status)
    BY <1>4, <2>2 DEF Settled
  <2>4. ASSUME NEW a \in UpdatesOf(t) PROVE ~ SetUserEnabled(a, v)
    BY <2>2 DEF SetUserEnabled, Syncing
  <2>5. CASE users[v] = t /\ account'[v] = account[v]
    <3>1. tenant[t] # Null /\ account[v] = AccountFor(tenant[t].status)
      BY <1>1, <2>3, <2>5 DEF Rows, Follows
    <3>2. ~ Disturb(t)
      BY DEF Disturb
    <3>3. ASSUME NEW a \in Updates, SaveTenant(a), update[a].tenant = t, tenant'[t] = update[a].row
          PROVE  tenant'[t].status = tenant[t].status
      <4>1. a \in UpdatesOf(t) /\ a \in calm /\ update[a] # Null /\ update[a] \in Update
        BY <2>1, <3>3 DEF UpdatesOf, SaveTenant, TypeOK
      <4>2. tenant[t].status = update[a].was
        BY <2>2, <3>1, <3>3, <4>1 DEF Knows
      <4>3. CASE update[a].row.status # update[a].was
        <5>1. update' = [update EXCEPT ![a] = [update[a] EXCEPT !.pc = "saved"]] /\ UNCHANGED calm
          BY <3>3, <4>3 DEF SaveTenant, Goto, TypeOK
        <5>2. a \in UpdatesOf(t)' /\ Syncing(a)'
          BY <4>1, <5>1, CalmAfter, <3>3 DEF UpdatesOf, Syncing
        <5> QED
          BY <5>2
      <4> QED
        BY <3>3, <4>2, <4>3
    <3>4. tenant'[t].status = tenant[t].status
      BY <1>1, <3>2, <3>3, TenantChanges
    <3> QED
      BY <2>5, <3>1, <3>4
  <2>6. CASE /\ InsertUser(v) /\ creation[v] # Null /\ creation[v].tenant = t
             /\ account'[v] = "enabled" /\ UNCHANGED tenant /\ tenant[t] # Null
    BY <1>4, <2>6 DEF CreatedActive, AccountFor
  <2> QED
    BY <1>1, <2>4, <2>5, <2>6, AccountAfter
<1> QED
  BY <1>2, <1>3, <1>4

\* Accounts follow the status of a settled tenant (updateTenant,
\* syncTenantUsersEnabledState).
THEOREM AccountsFollowStatus == Spec => []AccountsFollow
<1>1. Init => IInv
  <2> SUFFICES ASSUME Init PROVE IInv
    OBVIOUS
  <2>1. Rows
    <3>1. ActiveRow # Null
      BY NullAssumption, ActiveRowType
    <3>2. ASSUME NEW u \in Users, users[u] # Null
          PROVE  tenant[users[u]] # Null /\ account[u] # "none" /\ creation[u] = Null
      BY <3>1, <3>2 DEF Init
    <3> QED
      BY <3>2 DEF Rows
  <2>2. Creations /\ Listed /\ Alone /\ CreatedActive /\ Knows /\ Reached
    BY DEF Init, Creations, Listed, Alone, CreatedActive, Knows, Reached
  <2>3. Settled
    <3>1. ASSUME NEW t \in Tenants, NEW u \in Users, users[u] = t
          PROVE  account[u] = AccountFor(tenant[t].status)
      BY <3>1, NullAssumption DEF Init, AccountFor, ActiveRow
    <3> QED
      BY <3>1 DEF Init, Settled, Follows
  <2> QED
    BY <2>1, <2>2, <2>3 DEF IInv
<1>2. TypeOK /\ IInv /\ [Next]_vars => IInv'
  BY RowsStep, CreationsStep, ListedStep, AloneStep, CreatedActiveStep, KnowsStep, ReachedStep,
     SettledStep DEF IInv
<1>3. IInv => AccountsFollow
  BY DEF IInv, Settled, Follows, AccountFor, AccountsFollow, Quiet
<1> QED
  BY <1>1, <1>2, <1>3, SuspensionTypes, PTL DEF Spec

=============================================================================
