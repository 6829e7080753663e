---------------------------- MODULE AccountsProofs ----------------------------
(***************************************************************************)
(* The safety properties of Accounts, for any number of tenants, users,    *)
(* updates, deletions and failures.                                        *)
(***************************************************************************)
EXTENDS Accounts, TLAPS

-----------------------------------------------------------------------------
(* How single steps change the functions.                                  *)

Creations == [Users -> Creation \cup {Null}]

AccountMaps == [Users -> Account \cup {Null}]

UpdateMaps == [Updates -> Update \cup {Null}]

LEMMA AdvanceGoes ==
    ASSUME creation \in Creations, NEW u \in Users, creation[u] # Null,
           NEW pc \in CreationPC, Advance(u, pc)
    PROVE  /\ creation' \in Creations
           /\ creation'[u] # Null /\ creation'[u].pc = pc
           /\ creation'[u].tenant = creation[u].tenant
           /\ creation'[u].role = creation[u].role
           /\ creation'[u].founding = creation[u].founding
           /\ creation'[u].group = creation[u].group
           /\ \A v \in Users : v # u => creation'[v] = creation[v]
  <1> DEFINE c == [creation[u] EXCEPT !.pc = pc]
  <1>1. creation[u] \in Creation
    BY DEF Creations
  <1>2. /\ c \in Creation /\ c.pc = pc /\ c.tenant = creation[u].tenant
        /\ c.role = creation[u].role /\ c.founding = creation[u].founding
        /\ c.group = creation[u].group
    BY <1>1 DEF Creation
  <1>3. creation' = [creation EXCEPT ![u] = c]
    BY DEF Advance
  <1> HIDE DEF c
  <1> QED BY <1>2, <1>3, NullAssumption DEF Creations

GroupFound(u) ==
    creation' = [creation EXCEPT
        ![u].group = group[creation[u].tenant],
        ![u].pc = IF group[creation[u].tenant] # 0 THEN "grouped"
                  ELSE IF creation[u].pc = "roled" THEN "groupless" ELSE "undoing"]

LEMMA GroupFoundGoes ==
    ASSUME creation \in Creations, group \in [Tenants -> Nat], NEW u \in Users,
           creation[u] # Null, GroupFound(u)
    PROVE  LET g == group[creation[u].tenant]
           IN  /\ creation' \in Creations
               /\ creation'[u] # Null
               /\ creation'[u].pc = IF g # 0 THEN "grouped"
                                    ELSE IF creation[u].pc = "roled" THEN "groupless"
                                    ELSE "undoing"
               /\ creation'[u].tenant = creation[u].tenant
               /\ creation'[u].role = creation[u].role
               /\ creation'[u].founding = creation[u].founding
               /\ creation'[u].group = g
               /\ \A v \in Users : v # u => creation'[v] = creation[v]
  <1> DEFINE g == group[creation[u].tenant]
             pc == IF g # 0 THEN "grouped"
                   ELSE IF creation[u].pc = "roled" THEN "groupless" ELSE "undoing"
             c == [creation[u] EXCEPT !.group = g, !.pc = pc]
  <1>1. creation[u] \in Creation
    BY DEF Creations
  <1>2. g \in Nat /\ pc \in CreationPC
    BY <1>1 DEF Creation, CreationPC
  <1>3. creation' = [creation EXCEPT ![u] = c]
    BY DEF GroupFound
  <1> HIDE DEF g, pc
  <1>4. /\ c \in Creation /\ c.pc = pc /\ c.tenant = creation[u].tenant
        /\ c.role = creation[u].role /\ c.founding = creation[u].founding
        /\ c.group = g
    BY <1>1, <1>2 DEF Creation
  <1> HIDE DEF c
  <1> QED BY <1>3, <1>4, NullAssumption DEF Creations, g, pc

Give(u, roles, g) ==
    account' = [account EXCEPT ![u] = [roles |-> roles, group |-> g]]

LEMMA GiveGoes ==
    ASSUME account \in AccountMaps, NEW u \in Users, NEW roles \in SUBSET Roles,
           NEW g \in Nat, Give(u, roles, g)
    PROVE  /\ account' \in AccountMaps
           /\ account'[u] # Null
           /\ account'[u].roles = roles /\ account'[u].group = g
           /\ \A v \in Users : v # u => account'[v] = account[v]
  <1> DEFINE c == [roles |-> roles, group |-> g]
  <1>1. c \in Account /\ c.roles = roles /\ c.group = g
    BY DEF Account
  <1>2. account' = [account EXCEPT ![u] = c]
    BY DEF Give
  <1> HIDE DEF c
  <1> QED BY <1>1, <1>2, NullAssumption DEF AccountMaps

\* An account is its roles and its group.
LEMMA AccountParts ==
    ASSUME account \in AccountMaps, NEW u \in Users, account[u] # Null
    PROVE  /\ account[u].roles \in SUBSET Roles /\ account[u].group \in Nat
           /\ account[u] = [roles |-> account[u].roles, group |-> account[u].group]
  <1>1. account[u] \in Account
    BY DEF AccountMaps
  <1> QED BY <1>1 DEF Account

GiveRoles(u, roles) == account' = [account EXCEPT ![u].roles = roles]

GiveGroup(u, g) == account' = [account EXCEPT ![u].group = g]

LEMMA GiveRolesGoes ==
    ASSUME account \in AccountMaps, NEW u \in Users, account[u] # Null,
           NEW roles \in SUBSET Roles, GiveRoles(u, roles)
    PROVE  Give(u, roles, account[u].group)
  <1>1. account[u] \in Account
    BY DEF AccountMaps
  <1>2. [account[u] EXCEPT !.roles = roles] = [roles |-> roles, group |-> account[u].group]
    BY <1>1 DEF Account
  <1> QED BY <1>2 DEF Give, GiveRoles

LEMMA GiveGroupGoes ==
    ASSUME account \in AccountMaps, NEW u \in Users, account[u] # Null,
           NEW g \in Nat, GiveGroup(u, g)
    PROVE  Give(u, account[u].roles, g)
  <1>1. account[u] \in Account
    BY DEF AccountMaps
  <1>2. [account[u] EXCEPT !.group = g] = [roles |-> account[u].roles, group |-> g]
    BY <1>1 DEF Account
  <1> QED BY <1>2 DEF Give, GiveGroup

Move(a, pc, seen) == update' = [update EXCEPT ![a].pc = pc, ![a].seen = seen]

LEMMA MoveGoes ==
    ASSUME update \in UpdateMaps, NEW a \in Updates, update[a] # Null,
           NEW pc \in UpdatePC, NEW seen \in SUBSET Roles, Move(a, pc, seen)
    PROVE  /\ update' \in UpdateMaps
           /\ update'[a] # Null /\ update'[a].pc = pc /\ update'[a].seen = seen
           /\ update'[a].user = update[a].user /\ update'[a].row = update[a].row
           /\ update'[a].role = update[a].role
           /\ \A b \in Updates : b # a => update'[b] = update[b]
  <1> DEFINE c == [update[a] EXCEPT !.pc = pc, !.seen = seen]
  <1>1. update[a] \in Update
    BY DEF UpdateMaps
  <1>2. /\ c \in Update /\ c.pc = pc /\ c.seen = seen /\ c.user = update[a].user
        /\ c.row = update[a].row /\ c.role = update[a].role
    BY <1>1 DEF Update
  <1>3. update' = [update EXCEPT ![a] = c]
    BY DEF Move
  <1> HIDE DEF c
  <1> QED BY <1>2, <1>3, NullAssumption DEF UpdateMaps

\* A step that only moves on keeps what it has seen.
LEMMA MoveOn ==
    ASSUME update \in UpdateMaps, NEW a \in Updates, update[a] # Null,
           NEW pc \in UpdatePC, update' = [update EXCEPT ![a].pc = pc]
    PROVE  Move(a, pc, update[a].seen) /\ update[a].seen \in SUBSET Roles
  <1>1. update[a] \in Update
    BY DEF UpdateMaps
  <1>2. [update[a] EXCEPT !.pc = pc] = [update[a] EXCEPT !.pc = pc, !.seen = update[a].seen]
    BY <1>1 DEF Update
  <1> QED BY <1>1, <1>2 DEF Move, Update

RemovalMaps == [Removals -> Removal \cup {Null}]

DismissalMaps == [Tenants -> Dismissal \cup {Null}]

\* Keycloak answers or refuses the deletion of an account.
RemovalAnswered(d, u) == removal' = [removal EXCEPT ![d].todo = @ \ {u}]

LEMMA RemovalAnsweredGoes ==
    ASSUME removal \in RemovalMaps, NEW d \in Removals, removal[d] # Null,
           NEW u \in Users, RemovalAnswered(d, u)
    PROVE  /\ removal' \in RemovalMaps
           /\ removal'[d] # Null /\ removal'[d].todo = removal[d].todo \ {u}
           /\ removal'[d].failed = removal[d].failed
           /\ removal'[d].targets = removal[d].targets
           /\ removal'[d].tenant = removal[d].tenant
           /\ \A e \in Removals : e # d => removal'[e] = removal[e]
  <1> DEFINE c == [removal[d] EXCEPT !.todo = @ \ {u}]
  <1>1. removal[d] \in Removal
    BY DEF RemovalMaps
  <1>2. /\ c \in Removal /\ c.todo = removal[d].todo \ {u} /\ c.failed = removal[d].failed
        /\ c.targets = removal[d].targets /\ c.tenant = removal[d].tenant
    BY <1>1 DEF Removal
  <1>3. removal' = [removal EXCEPT ![d] = c]
    BY DEF RemovalAnswered
  <1> HIDE DEF c
  <1> QED BY <1>2, <1>3, NullAssumption DEF RemovalMaps

RemovalRefused(d, u) == removal' = [removal EXCEPT ![d].todo = @ \ {u}, ![d].failed = TRUE]

LEMMA RemovalRefusedGoes ==
    ASSUME removal \in RemovalMaps, NEW d \in Removals, removal[d] # Null,
           NEW u \in Users, RemovalRefused(d, u)
    PROVE  /\ removal' \in RemovalMaps
           /\ removal'[d] # Null /\ removal'[d].todo = removal[d].todo \ {u}
           /\ removal'[d].failed = TRUE
           /\ removal'[d].targets = removal[d].targets
           /\ removal'[d].tenant = removal[d].tenant
           /\ \A e \in Removals : e # d => removal'[e] = removal[e]
  <1> DEFINE c == [removal[d] EXCEPT !.todo = @ \ {u}, !.failed = TRUE]
  <1>1. removal[d] \in Removal
    BY DEF RemovalMaps
  <1>2. /\ c \in Removal /\ c.todo = removal[d].todo \ {u} /\ c.failed = TRUE
        /\ c.targets = removal[d].targets /\ c.tenant = removal[d].tenant
    BY <1>1 DEF Removal
  <1>3. removal' = [removal EXCEPT ![d] = c]
    BY DEF RemovalRefused
  <1> HIDE DEF c
  <1> QED BY <1>2, <1>3, NullAssumption DEF RemovalMaps

DismissalAnswered(t, u) == dismissal' = [dismissal EXCEPT ![t].todo = @ \ {u}]

LEMMA DismissalAnsweredGoes ==
    ASSUME dismissal \in DismissalMaps, NEW t \in Tenants, dismissal[t] # Null,
           NEW u \in Users, DismissalAnswered(t, u)
    PROVE  /\ dismissal' \in DismissalMaps
           /\ dismissal'[t] # Null /\ dismissal'[t].todo = dismissal[t].todo \ {u}
           /\ dismissal'[t].failed = dismissal[t].failed
           /\ dismissal'[t].pc = dismissal[t].pc
           /\ dismissal'[t].targets = dismissal[t].targets
           /\ \A s \in Tenants : s # t => dismissal'[s] = dismissal[s]
  <1> DEFINE c == [dismissal[t] EXCEPT !.todo = @ \ {u}]
  <1>1. dismissal[t] \in Dismissal
    BY DEF DismissalMaps
  <1>2. /\ c \in Dismissal /\ c.todo = dismissal[t].todo \ {u} /\ c.failed = dismissal[t].failed
        /\ c.pc = dismissal[t].pc /\ c.targets = dismissal[t].targets
    BY <1>1 DEF Dismissal
  <1>3. dismissal' = [dismissal EXCEPT ![t] = c]
    BY DEF DismissalAnswered
  <1> HIDE DEF c
  <1> QED BY <1>2, <1>3, NullAssumption DEF DismissalMaps

DismissalRefused(t, u) == dismissal' = [dismissal EXCEPT ![t].todo = @ \ {u}, ![t].failed = TRUE]

LEMMA DismissalRefusedGoes ==
    ASSUME dismissal \in DismissalMaps, NEW t \in Tenants, dismissal[t] # Null,
           NEW u \in Users, DismissalRefused(t, u)
    PROVE  /\ dismissal' \in DismissalMaps
           /\ dismissal'[t] # Null /\ dismissal'[t].todo = dismissal[t].todo \ {u}
           /\ dismissal'[t].failed = TRUE
           /\ dismissal'[t].pc = dismissal[t].pc
           /\ dismissal'[t].targets = dismissal[t].targets
           /\ \A s \in Tenants : s # t => dismissal'[s] = dismissal[s]
  <1> DEFINE c == [dismissal[t] EXCEPT !.todo = @ \ {u}, !.failed = TRUE]
  <1>1. dismissal[t] \in Dismissal
    BY DEF DismissalMaps
  <1>2. /\ c \in Dismissal /\ c.todo = dismissal[t].todo \ {u} /\ c.failed = TRUE
        /\ c.pc = dismissal[t].pc /\ c.targets = dismissal[t].targets
    BY <1>1 DEF Dismissal
  <1>3. dismissal' = [dismissal EXCEPT ![t] = c]
    BY DEF DismissalRefused
  <1> HIDE DEF c
  <1> QED BY <1>2, <1>3, NullAssumption DEF DismissalMaps

DismissalCloses(t) == dismissal' = [dismissal EXCEPT ![t].pc = "closing"]

LEMMA DismissalClosesGoes ==
    ASSUME dismissal \in DismissalMaps, NEW t \in Tenants, dismissal[t] # Null,
           DismissalCloses(t)
    PROVE  /\ dismissal' \in DismissalMaps
           /\ dismissal'[t] # Null /\ dismissal'[t].todo = dismissal[t].todo
           /\ dismissal'[t].failed = dismissal[t].failed
           /\ dismissal'[t].pc = "closing"
           /\ dismissal'[t].targets = dismissal[t].targets
           /\ \A s \in Tenants : s # t => dismissal'[s] = dismissal[s]
  <1> DEFINE c == [dismissal[t] EXCEPT !.pc = "closing"]
  <1>1. dismissal[t] \in Dismissal
    BY DEF DismissalMaps
  <1>2. /\ c \in Dismissal /\ c.todo = dismissal[t].todo /\ c.failed = dismissal[t].failed
        /\ c.pc = "closing" /\ c.targets = dismissal[t].targets
    BY <1>1 DEF Dismissal
  <1>3. dismissal' = [dismissal EXCEPT ![t] = c]
    BY DEF DismissalCloses
  <1> HIDE DEF c
  <1> QED BY <1>2, <1>3, NullAssumption DEF DismissalMaps

LEMMA RemovalParts ==
    ASSUME removal \in RemovalMaps, NEW d \in Removals, removal[d] # Null
    PROVE  /\ removal[d].targets \in SUBSET Users /\ removal[d].todo \in SUBSET Users
           /\ removal[d].failed \in BOOLEAN /\ removal[d].tenant \in Tenants
  <1>1. removal[d] \in Removal
    BY DEF RemovalMaps
  <1> QED BY <1>1 DEF Removal

LEMMA DismissalParts ==
    ASSUME dismissal \in DismissalMaps, NEW t \in Tenants, dismissal[t] # Null
    PROVE  /\ dismissal[t].targets \in SUBSET Users /\ dismissal[t].todo \in SUBSET Users
           /\ dismissal[t].failed \in BOOLEAN /\ dismissal[t].pc \in {"accounts", "closing"}
  <1>1. dismissal[t] \in Dismissal
    BY DEF DismissalMaps
  <1> QED BY <1>1 DEF Dismissal

\* A user who is updated is one of Users, with a row.
LEMMA UpdateParts ==
    ASSUME update \in UpdateMaps, NEW a \in Updates, update[a] # Null
    PROVE  /\ update[a].user \in Users /\ update[a].row \in UserRow
           /\ update[a].role \in Roles \cup {Null} /\ update[a].seen \in SUBSET Roles
           /\ update[a].row.tenant \in Tenants /\ update[a].row.role \in Roles
           /\ update[a].pc \in UpdatePC
  <1>1. update[a] \in Update
    BY DEF UpdateMaps
  <1> QED BY <1>1 DEF Update, UserRow

LEMMA CreationParts ==
    ASSUME creation \in Creations, NEW u \in Users, creation[u] # Null
    PROVE  /\ creation[u].tenant \in Tenants /\ creation[u].role \in Roles
           /\ creation[u].founding \in BOOLEAN /\ creation[u].group \in Nat
           /\ creation[u].pc \in CreationPC
  <1>1. creation[u] \in Creation
    BY DEF Creations
  <1> QED BY <1>1 DEF Creation

-----------------------------------------------------------------------------
(* The invariant.                                                          *)

\* A user who is being created has no row yet, and nobody updates or deletes it;
\* one whose account is undone although the row is stored is not created any more.
Young(u) ==
    /\ u \in unborn => creation[u] = Null /\ account[u] = Null
    /\ u \in unborn \/ creation[u] # Null =>
         users[u] = Null /\ UpdatesOf(u) = {} /\ ~ Deleting(u)
    /\ creation[u] # Null => (account[u] = Null <=> creation[u].pc = "asked")
    /\ u \in undoing => u \in unheard /\ u \notin unborn /\ creation[u] = Null

\* All that refers to a user agrees on the tenant.
At(u, t) ==
    /\ users[u] # Null => users[u].tenant = t
    /\ \A a \in UpdatesOf(u) : update[a].row.tenant = t
    /\ \A d \in Removals : removal[d] # Null /\ u \in removal[d].targets => removal[d].tenant = t
    /\ \A s \in Tenants : dismissal[s] # Null /\ u \in dismissal[s].targets => s = t
    /\ creation[u] # Null => creation[u].tenant = t

Home(u) == \E t \in Tenants \cup {Null} : At(u, t)

\* A row has its tenant (ON DELETE CASCADE).
Linked(u) == users[u] # Null => users[u].tenant \in tenants

\* A deletion that has not failed has deleted the accounts it is done with.
Cleared(u) ==
    /\ \A d \in Removals : removal[d] # Null =>
         /\ removal[d].todo \subseteq removal[d].targets
         /\ u \in removal[d].targets \ removal[d].todo /\ ~ removal[d].failed =>
              account[u] = Null
    /\ \A t \in Tenants : dismissal[t] # Null =>
         /\ dismissal[t].todo \subseteq dismissal[t].targets
         /\ u \in dismissal[t].targets \ dismissal[t].todo /\ ~ dismissal[t].failed =>
              account[u] = Null
         /\ dismissal[t].pc = "closing" => dismissal[t].todo = {} /\ ~ dismissal[t].failed

\* Whose account may be missing: RowsHaveAccounts excuses the same.
Excused(u) == Deleting(u) \/ u \in halted \/ u \in revived \/ u \in unheard

\* A row, or an update about to save one, has its account or an excuse.
Missed(u) ==
    /\ (users[u] # Null \/ UpdatesOf(u) # {}) /\ account[u] = Null => Excused(u)
    /\ Deleting(u) /\ UpdatesOf(u) # {} => u \in revived

Explained(u) == refused[u] > 1 \/ u \in severed \/ u \in crossed

\* An account without a row is being created or explained.
Orphaned(u) ==
    /\ account[u] # Null /\ users[u] = Null /\ creation[u] = Null => Explained(u)
    /\ account[u] # Null /\ users[u] = Null /\ UpdatesOf(u) # {} => u \in crossed
    /\ Creating(u, "undoing") => refused[u] > 0 \/ u \in crossed

\* A tenant's deletion has listed every user with an account, but for those
\* who were added meanwhile.
Overlapping(u) ==
    \A t \in Tenants : dismissal[t] # Null /\ u \notin crossed =>
        /\ creation[u] # Null => creation[u].tenant # t
        /\ users[u] # Null /\ users[u].tenant = t /\ account[u] # Null =>
             u \in dismissal[t].targets

\* What a creation knows of the tenant's group, and where it leads.
Grouped(u) ==
    u \notin crossed =>
        /\ creation[u] # Null =>
             LET c == creation[u]
                 g == group[c.tenant]
             IN  /\ ~ c.founding => c.tenant \in tenants
                 /\ c.pc \in {"made", "grouped", "joined"} => g # 0
                 /\ c.pc = "grouped" => c.group = g
                 /\ c.pc = "joined" => account[u].group = g
        /\ users[u] # Null /\ account[u] # Null =>
             LET g == group[users[u].tenant]
             IN  g # 0 /\ account[u].group = g

\* What a lone update knows.
LoneUpdate(a) ==
    LET b == update[a]
        u == b.user
        roles == account[u].roles
    IN  /\ b # Null /\ UpdatesOf(u) = {a}
        /\ b.pc = "loaded" =>
             /\ b.role # Null => b.row.role = b.role
             /\ b.role = Null /\ u \in aligned /\ account[u] # Null => roles = {b.row.role}
        /\ b.pc # "loaded" =>
             /\ b.role # Null
             /\ users[u] # Null => users[u].role = b.role
             /\ b.pc = "removing" /\ account[u] # Null => b.seen = roles
             /\ b.pc = "adding" /\ account[u] # Null => roles \subseteq {b.role}

\* Roles of a user that no update is at.
Ruled(u) ==
    /\ creation[u] # Null /\ creation[u].pc \notin {"asked", "undoing"} =>
         account[u].roles = IF creation[u].pc = "born" THEN {} ELSE {creation[u].role}
    /\ u \in aligned => /\ UpdatesOf(u) \subseteq calm
                        /\ users[u] # Null /\ account[u] # Null /\ UpdatesOf(u) = {} =>
                             account[u].roles = {users[u].role}
    /\ \A a \in UpdatesOf(u) : update[a].pc # "loaded" => update[a].role # Null

\* The invariant of one user.
UserInv(u) ==
    /\ Young(u) /\ Home(u) /\ Linked(u) /\ Cleared(u) /\ Missed(u)
    /\ Orphaned(u) /\ Overlapping(u) /\ Grouped(u) /\ Ruled(u)

\* Nobody refers to a tenant that was never founded.
Unused ==
    \A t \in unfounded :
        /\ t \notin tenants /\ dismissal[t] = Null
        /\ \A u \in Users : creation[u] # Null => creation[u].tenant # t

IInv ==
    /\ TypeOK
    /\ \A u \in Users : UserInv(u)
    /\ \A a \in calm : LoneUpdate(a)
    /\ Unused

LEMMA TypeParts ==
    TypeOK <=> /\ tenants \in SUBSET Tenants
               /\ users \in [Users -> UserRow \cup {Null}]
               /\ account \in AccountMaps
               /\ group \in [Tenants -> Nat] /\ made \in [Tenants -> Nat]
               /\ unfounded \in SUBSET Tenants /\ unborn \in SUBSET Users
               /\ creation \in Creations /\ update \in UpdateMaps
               /\ removal \in RemovalMaps /\ dismissal \in DismissalMaps
               /\ edits \in 0 .. MaxEdits /\ failures \in 0 .. MaxFailures
               /\ refused \in [Users -> Nat]
               /\ severed \in SUBSET Users /\ crossed \in SUBSET Users
               /\ halted \in SUBSET Users /\ revived \in SUBSET Users
               /\ calm \in SUBSET Updates /\ aligned \in SUBSET Users
               /\ undoing \in SUBSET Users /\ unheard \in SUBSET Users
  BY DEF TypeOK, AccountMaps, Creations, UpdateMaps, RemovalMaps, DismissalMaps

\* What a step leaves of a user, when it is another one's.
Left(v) ==
    /\ users'[v] = users[v] /\ account'[v] = account[v] /\ creation'[v] = creation[v]
    /\ (v \in unborn' <=> v \in unborn) /\ refused'[v] = refused[v]
    /\ (v \in severed' <=> v \in severed) /\ (v \in crossed' <=> v \in crossed)
    /\ (v \in halted' <=> v \in halted) /\ (v \in revived' <=> v \in revived)
    /\ (v \in aligned' <=> v \in aligned)
    /\ (v \in undoing' <=> v \in undoing) /\ (v \in unheard' <=> v \in unheard)
    /\ UpdatesOf(v)' = UpdatesOf(v)
    /\ \A a \in UpdatesOf(v) : update'[a] = update[a] /\ (a \in calm' <=> a \in calm)

\* Tenants are founded and groups are made, but none goes.
Kept ==
    /\ tenants \subseteq tenants'
    /\ \A t \in Tenants : group[t] # 0 => group'[t] = group[t]

LEMMA LeftAlone ==
    ASSUME TypeOK, NEW v \in Users, UserInv(v), Left(v), Kept,
           UNCHANGED <<removal, dismissal>>
    PROVE  UserInv(v)'
  <1>1. Deleting(v)' = Deleting(v)
    BY DEF Deleting
  <1> USE <1>1 DEF UserInv, Left
  <1>2. Young(v)'
    BY DEF Young
  <1>3. Home(v)'
    BY DEF Home, At
  <1>4. Linked(v)'
    BY DEF Linked, Kept
  <1>5. Cleared(v)'
    BY DEF Cleared
  <1>6. Missed(v)'
    BY DEF Missed, Excused
  <1>7. Orphaned(v)'
    BY DEF Orphaned, Explained, Creating
  <1>8. Overlapping(v)'
    BY DEF Overlapping
  <1>9. Grouped(v)'
    <2>1. creation[v] # Null => creation[v].tenant \in Tenants
      BY TypeParts, CreationParts
    <2>2. users[v] # Null => users[v].tenant \in Tenants
      BY TypeParts DEF UserRow
    <2> QED BY <2>1, <2>2 DEF Grouped, Kept
  <1>10. Ruled(v)'
    BY DEF Ruled
  <1> QED BY <1>2, <1>3, <1>4, <1>5, <1>6, <1>7, <1>8, <1>9, <1>10

\* A lone update knows what it knew when its user is left as it was.
LEMMA LoneAlone ==
    ASSUME TypeOK, NEW a \in calm, LoneUpdate(a), LET v == update[a].user IN Left(v)
    PROVE  LoneUpdate(a)'
  <1>1. a \in UpdatesOf(update[a].user)
    BY TypeParts DEF LoneUpdate
  <1>2. update'[a] = update[a]
    BY <1>1 DEF Left
  <1> QED BY <1>1, <1>2 DEF LoneUpdate, Left

-----------------------------------------------------------------------------
(* Creations.                                                              *)

\* Nobody else has to do with a user who is being created.
LEMMA YoungStep ==
    ASSUME IInv, NEW u \in Users, u \in unborn \/ creation[u] # Null,
           TypeOK', Kept,
           UNCHANGED <<users, update, removal, dismissal, calm, undoing, unheard>>,
           \A v \in Users : v # u => Left(v),
           u \notin unborn', Unused', creation' \in Creations,
           creation'[u] # Null => (account'[u] = Null <=> creation'[u].pc = "asked"),
           Orphaned(u)', Overlapping(u)', Grouped(u)', Ruled(u)'
    PROVE  IInv'
  <1>1. /\ users[u] = Null /\ UpdatesOf(u) = {} /\ ~ Deleting(u) /\ Cleared(u)
        /\ u \notin undoing
    BY DEF IInv, UserInv, Young
  <1>2. users'[u] = Null /\ UpdatesOf(u)' = {} /\ ~ Deleting(u)'
    BY <1>1 DEF UpdatesOf, Deleting
  <1>3. Young(u)' /\ Linked(u)' /\ Missed(u)'
    BY <1>1, <1>2 DEF Young, Linked, Missed
  <1>4. Home(u)'
    <2>1. CASE creation'[u] = Null
      <3>1. At(u, Null)'
        BY <1>2, <2>1 DEF At, Deleting
      <3> QED BY <3>1 DEF Home
    <2>2. CASE creation'[u] # Null
      <3>1. creation'[u].tenant \in Tenants
        BY <2>2 DEF Creations, Creation
      <3>2. At(u, creation[u].tenant)'
        BY <1>2 DEF At, Deleting
      <3> QED BY <3>1, <3>2 DEF Home
    <2> QED BY <2>1, <2>2
  <1>5. Cleared(u)'
    BY <1>1, <1>2 DEF Cleared, Deleting
  <1>6. UserInv(u)'
    BY <1>3, <1>4, <1>5 DEF UserInv
  <1>7. \A v \in Users : UserInv(v)'
    BY <1>6, LeftAlone DEF IInv
  <1>8. \A a \in calm' : LoneUpdate(a)'
    <2> TAKE a \in calm
    <2>1. LoneUpdate(a) /\ TypeOK
      BY DEF IInv
    <2>2. update[a].user \in Users /\ a \in UpdatesOf(update[a].user)
      BY <2>1, TypeParts, UpdateParts DEF LoneUpdate
    <2>3. update[a].user # u
      BY <1>1, <2>2
    <2> QED BY <2>1, <2>2, <2>3, LoneAlone
  <1> QED BY <1>7, <1>8 DEF IInv

LEMMA AskStep ==
    ASSUME IInv, NEW u \in Users, NEW t \in Tenants,
           (\E role \in Roles : AskUser(u, t, role)) \/ AskTenant(u, t)
    PROVE  IInv'
  <1>1. TypeOK /\ Young(u) /\ Unused /\ u \in unborn
    BY DEF IInv, UserInv, AskUser, AskTenant
  <1>2. PICK role \in Roles, founding \in BOOLEAN :
          /\ creation' = [creation EXCEPT ![u] = Request(t, role, founding)]
          /\ founding => t \in unfounded
          /\ ~ founding => t \in tenants
          /\ unfounded' = unfounded \ {t} \/ (~ founding /\ unfounded' = unfounded)
          /\ crossed' = IF ~ founding /\ dismissal[t] # Null THEN crossed \cup {u} ELSE crossed
    BY DEF AskUser, AskTenant, Roles, histories
  <1>3. /\ UNCHANGED <<tenants, users, account, group, made, update, removal, dismissal,
                       failures, edits, refused, severed, halted, revived, calm, aligned,
                       undoing, unheard>>
        /\ unborn' = unborn \ {u}
    BY DEF AskUser, AskTenant, histories
  <1> DEFINE c == Request(t, role, founding)
  <1>4. c \in Creation /\ c.pc = "asked" /\ c.tenant = t /\ c.founding = founding
    BY DEF Request, Creation, CreationPC
  <1> HIDE DEF c
  <1>5. /\ creation'[u] = c /\ c # Null /\ creation' \in Creations
        /\ \A v \in Users : v # u => creation'[v] = creation[v]
    BY <1>1, <1>2, <1>4, TypeParts, NullAssumption DEF c, Creations
  <1>6. TypeOK'
    BY <1>1, <1>2, <1>3, <1>5, TypeParts DEF TypeOK, AccountMaps, Creations, UpdateMaps,
                                            RemovalMaps, DismissalMaps
  <1>7. \A v \in Users : v # u => Left(v)
    BY <1>2, <1>3, <1>5 DEF Left, UpdatesOf
  <1>8. Unused'
    BY <1>1, <1>2, <1>3, <1>4, <1>5 DEF Unused
  <1>9. account'[u] = Null /\ users'[u] = Null
    BY <1>1, <1>3 DEF Young
  <1>10. Orphaned(u)'
    BY <1>4, <1>5, <1>9 DEF Orphaned, Creating
  <1>13. UpdatesOf(u)' = {}
    BY <1>1, <1>3 DEF Young, UpdatesOf
  <1>14. Ruled(u)'
    BY <1>4, <1>5, <1>9, <1>13 DEF Ruled
  <1>15. Kept
    BY <1>3 DEF Kept
  <1>11. Overlapping(u)'
    BY <1>1, <1>2, <1>3, <1>4, <1>5, <1>9 DEF Overlapping, Unused
  <1>12. Grouped(u)'
    BY <1>2, <1>3, <1>4, <1>5, <1>9 DEF Grouped
  <1> QED
    BY <1>1, <1>3, <1>4, <1>5, <1>6, <1>7, <1>8, <1>9, <1>10, <1>11, <1>12, <1>14, <1>15, YoungStep


\* What a creation may do: its own account and request, and a group.
CreationMoves(u) ==
    /\ UNCHANGED <<users, tenants, unfounded, unborn, update, removal, dismissal, edits,
                   crossed, halted, revived, calm, aligned, undoing, unheard>>
    /\ \A v \in Users : v # u =>
         /\ creation'[v] = creation[v] /\ account'[v] = account[v]
         /\ refused'[v] = refused[v] /\ (v \in severed' <=> v \in severed)
    /\ \A t \in Tenants : group[t] # 0 => group'[t] = group[t]
    /\ creation'[u] # Null =>
         /\ creation'[u].tenant = creation[u].tenant
         /\ creation'[u].role = creation[u].role
         /\ creation'[u].founding = creation[u].founding
         /\ (account'[u] = Null <=> creation'[u].pc = "asked")

StillOrphaned(u) ==
    /\ account[u] # Null /\ creation[u] = Null => Explained(u)
    /\ Creating(u, "undoing") => refused[u] > 0 \/ u \in crossed

StillGrouped(u) ==
    u \notin crossed /\ creation[u] # Null =>
        LET c == creation[u]
            g == group[c.tenant]
        IN  /\ c.pc \in {"made", "grouped", "joined"} => g # 0
            /\ c.pc = "grouped" => c.group = g
            /\ c.pc = "joined" => account[u].group = g

StillRuled(u) ==
    creation[u] # Null /\ creation[u].pc \notin {"asked", "undoing"} =>
        account[u].roles = IF creation[u].pc = "born" THEN {} ELSE {creation[u].role}

\* Everything that has to be looked at when a creation moves.
LEMMA CreationStep ==
    ASSUME IInv, NEW u \in Users, creation[u] # Null, CreationMoves(u),
           creation' \in Creations, account' \in AccountMaps,
           group' \in [Tenants -> Nat], made' \in [Tenants -> Nat],
           refused' \in [Users -> Nat], severed' \in SUBSET Users,
           failures' \in 0 .. MaxFailures,
           StillOrphaned(u)', StillGrouped(u)', StillRuled(u)'
    PROVE  IInv'
  <1>1. TypeOK /\ UserInv(u) /\ Unused
    BY DEF IInv
  <1>2. users[u] = Null /\ UpdatesOf(u) = {} /\ ~ Deleting(u) /\ u \notin unborn
    BY <1>1 DEF UserInv, Young
  <1>3. users'[u] = Null /\ UpdatesOf(u)' = {} /\ ~ Deleting(u)' /\ u \notin unborn'
    BY <1>2 DEF CreationMoves, UpdatesOf, Deleting
  <1>4. TypeOK'
    BY <1>1, TypeParts DEF TypeOK, AccountMaps, Creations, UpdateMaps, RemovalMaps,
                          DismissalMaps, CreationMoves
  <1>5. Kept
    BY DEF Kept, CreationMoves
  <1>6. \A v \in Users : v # u => Left(v)
    BY DEF Left, CreationMoves, UpdatesOf
  <1>7. Unused'
    <2> SUFFICES ASSUME NEW t \in unfounded
                 PROVE  /\ t \notin tenants /\ dismissal[t] = Null
                        /\ \A v \in Users : creation'[v] # Null => creation'[v].tenant # t
      BY DEF Unused, CreationMoves
    <2>1. t \notin tenants /\ dismissal[t] = Null
      BY <1>1 DEF Unused
    <2>2. ASSUME NEW v \in Users, creation'[v] # Null PROVE creation'[v].tenant # t
      <3>1. creation[v] # Null /\ creation'[v].tenant = creation[v].tenant
        BY <2>2 DEF CreationMoves
      <3> QED BY <3>1, <1>1 DEF Unused
    <2> QED BY <2>1, <2>2
  <1>8. creation'[u] # Null => (account'[u] = Null <=> creation'[u].pc = "asked")
    BY DEF CreationMoves
  <1>9. Orphaned(u)'
    BY <1>3 DEF StillOrphaned, Orphaned
  <1>10. Overlapping(u)'
    BY <1>1, <1>3 DEF UserInv, Overlapping, CreationMoves
  <1>11. Grouped(u)'
    BY <1>1, <1>3 DEF UserInv, Grouped, StillGrouped, CreationMoves
  <1>12. Ruled(u)'
    BY <1>3 DEF StillRuled, Ruled
  <1> QED
    BY <1>3, <1>4, <1>5, <1>6, <1>7, <1>8, <1>9, <1>10, <1>11, <1>12, YoungStep
       DEF CreationMoves

LEMMA CreateAccountStep ==
    ASSUME IInv, NEW u \in Users, CreateAccount(u)
    PROVE  IInv'
  <1>1. TypeOK /\ UserInv(u) /\ creation[u] # Null /\ creation[u].pc = "asked"
    BY DEF IInv, CreateAccount, Creating
  <1>2. /\ creation' \in Creations /\ creation'[u] # Null /\ creation'[u].pc = "born"
        /\ creation'[u].tenant = creation[u].tenant /\ creation'[u].role = creation[u].role
        /\ creation'[u].founding = creation[u].founding
        /\ \A v \in Users : v # u => creation'[v] = creation[v]
    BY <1>1, AdvanceGoes, TypeParts DEF CreateAccount, CreationPC
  <1>3. /\ account' \in AccountMaps /\ account'[u] # Null /\ account'[u].roles = {}
        /\ \A v \in Users : v # u => account'[v] = account[v]
    <2>1. Give(u, {}, 0)
      BY DEF CreateAccount, Give
    <2> QED BY <1>1, <2>1, GiveGoes, TypeParts
  <1>4. CreationMoves(u)
    BY <1>2, <1>3 DEF CreationMoves, CreateAccount, histories
  <1>5. StillOrphaned(u)' /\ StillGrouped(u)' /\ StillRuled(u)'
    BY <1>2, <1>3 DEF StillOrphaned, StillGrouped, StillRuled, Creating
  <1> QED
    BY <1>1, <1>2, <1>3, <1>4, <1>5, CreationStep, TypeParts DEF CreateAccount, histories

LEMMA AssignRoleStep ==
    ASSUME IInv, NEW u \in Users, AssignRole(u)
    PROVE  IInv'
  <1>1. TypeOK /\ UserInv(u) /\ creation[u] # Null /\ creation[u].pc = "born"
    BY DEF IInv, AssignRole, Creating
  <1>2. /\ creation' \in Creations /\ creation'[u] # Null /\ creation'[u].pc = "roled"
        /\ creation'[u].tenant = creation[u].tenant /\ creation'[u].role = creation[u].role
        /\ creation'[u].founding = creation[u].founding
        /\ \A v \in Users : v # u => creation'[v] = creation[v]
    BY <1>1, AdvanceGoes, TypeParts DEF AssignRole, CreationPC
  <1>3. account[u] # Null /\ account[u].roles = {}
    BY <1>1 DEF UserInv, Young, Ruled
  <1>4. /\ account' \in AccountMaps /\ account'[u] # Null
        /\ account'[u].roles = {creation[u].role}
        /\ \A v \in Users : v # u => account'[v] = account[v]
    <2> DEFINE roles == account[u].roles \cup {creation[u].role}
    <2>1. roles \in SUBSET Roles /\ roles = {creation[u].role} /\ account[u].group \in Nat
      BY <1>1, <1>3, TypeParts, AccountParts, CreationParts
    <2>2. GiveRoles(u, roles)
      BY DEF AssignRole, GiveRoles
    <2> HIDE DEF roles
    <2>3. Give(u, roles, account[u].group)
      BY <1>1, <1>3, <2>1, <2>2, GiveRolesGoes, TypeParts
    <2> QED BY <1>1, <2>1, <2>3, GiveGoes, TypeParts
  <1>5. CreationMoves(u)
    BY <1>2, <1>4 DEF CreationMoves, AssignRole, histories
  <1>6. StillOrphaned(u)' /\ StillGrouped(u)' /\ StillRuled(u)'
    BY <1>2, <1>4 DEF StillOrphaned, StillGrouped, StillRuled, Creating
  <1> QED
    BY <1>1, <1>2, <1>4, <1>5, <1>6, CreationStep, TypeParts DEF AssignRole, histories

LEMMA FindGroupStep ==
    ASSUME IInv, NEW u \in Users, FindGroup(u)
    PROVE  IInv'
  <1>1. /\ TypeOK /\ UserInv(u) /\ creation[u] # Null
        /\ creation[u].pc = "roled" \/ creation[u].pc = "made"
    BY DEF IInv, FindGroup, Creating
  <1>2. GroupFound(u)
    BY DEF FindGroup, GroupFound
  <1> DEFINE g == group[creation[u].tenant]
  <1>3. /\ creation' \in Creations /\ creation'[u] # Null
        /\ creation'[u].pc = IF g # 0 THEN "grouped"
                             ELSE IF creation[u].pc = "roled" THEN "groupless" ELSE "undoing"
        /\ creation'[u].tenant = creation[u].tenant /\ creation'[u].role = creation[u].role
        /\ creation'[u].founding = creation[u].founding /\ creation'[u].group = g
        /\ \A v \in Users : v # u => creation'[v] = creation[v]
    BY <1>1, <1>2, GroupFoundGoes, TypeParts
  <1>4. account[u] # Null /\ account[u].roles = {creation[u].role}
    BY <1>1 DEF UserInv, Young, Ruled
  <1>5. u \notin crossed /\ creation[u].pc = "made" => g # 0
    BY <1>1 DEF UserInv, Grouped
  <1>6. UNCHANGED <<users, account, tenants, group, made, unfounded, unborn, update, removal,
                    dismissal, failures, edits, refused, severed, crossed, halted, revived,
                    calm, aligned, undoing, unheard>>
    BY DEF FindGroup, histories
  <1>7. CreationMoves(u)
    BY <1>3, <1>4, <1>6 DEF CreationMoves
  <1>8. StillOrphaned(u)' /\ StillGrouped(u)' /\ StillRuled(u)'
    BY <1>1, <1>3, <1>4, <1>5, <1>6 DEF StillOrphaned, StillGrouped, StillRuled, Creating
  <1> QED
    BY <1>1, <1>3, <1>6, <1>7, <1>8, CreationStep, TypeParts

LEMMA MakeGroupStep ==
    ASSUME IInv, NEW u \in Users, MakeGroup(u)
    PROVE  IInv'
  <1>1. TypeOK /\ UserInv(u) /\ creation[u] # Null /\ creation[u].pc = "groupless"
    BY DEF IInv, MakeGroup, Creating
  <1>2. /\ creation' \in Creations /\ creation'[u] # Null /\ creation'[u].pc = "made"
        /\ creation'[u].tenant = creation[u].tenant /\ creation'[u].role = creation[u].role
        /\ creation'[u].founding = creation[u].founding
        /\ \A v \in Users : v # u => creation'[v] = creation[v]
    BY <1>1, AdvanceGoes, TypeParts DEF MakeGroup, CreationPC
  <1>3. account[u] # Null /\ account[u].roles = {creation[u].role}
    BY <1>1 DEF UserInv, Young, Ruled
  <1>4. creation[u].tenant \in Tenants
    BY <1>1, TypeParts, CreationParts
  <1>5. /\ group' \in [Tenants -> Nat] /\ made' \in [Tenants -> Nat]
        /\ group'[creation[u].tenant] # 0
        /\ \A t \in Tenants : group[t] # 0 => group'[t] = group[t]
    BY <1>1, <1>4, TypeParts DEF MakeGroup
  <1>6. UNCHANGED <<users, account, tenants, unfounded, unborn, update, removal,
                    dismissal, failures, edits, refused, severed, crossed, halted, revived,
                    calm, aligned, undoing, unheard>>
    BY DEF MakeGroup, histories
  <1>7. CreationMoves(u)
    BY <1>2, <1>3, <1>5, <1>6 DEF CreationMoves
  <1>8. StillOrphaned(u)' /\ StillGrouped(u)' /\ StillRuled(u)'
    BY <1>2, <1>3, <1>5, <1>6 DEF StillOrphaned, StillGrouped, StillRuled, Creating
  <1> QED
    BY <1>1, <1>2, <1>5, <1>6, <1>7, <1>8, CreationStep, TypeParts

LEMMA JoinGroupStep ==
    ASSUME IInv, NEW u \in Users, JoinGroup(u)
    PROVE  IInv'
  <1>1. TypeOK /\ UserInv(u) /\ creation[u] # Null /\ creation[u].pc = "grouped"
    BY DEF IInv, JoinGroup, Creating
  <1> DEFINE g == group[creation[u].tenant]
             joins == creation[u].group = g
             pc == IF joins THEN "joined" ELSE "undoing"
  <1>2. Advance(u, pc) /\ pc \in CreationPC
    BY DEF JoinGroup, CreationPC
  <1> HIDE DEF pc
  <1>3. /\ creation' \in Creations /\ creation'[u] # Null /\ creation'[u].pc = pc
        /\ creation'[u].tenant = creation[u].tenant /\ creation'[u].role = creation[u].role
        /\ creation'[u].founding = creation[u].founding
        /\ \A v \in Users : v # u => creation'[v] = creation[v]
    BY <1>1, <1>2, AdvanceGoes, TypeParts
  <1>4. account[u] # Null /\ account[u].roles = {creation[u].role}
    BY <1>1 DEF UserInv, Young, Ruled
  <1>5. /\ account' \in AccountMaps /\ account'[u] # Null
        /\ account'[u].roles = {creation[u].role}
        /\ joins => account'[u].group = g
        /\ \A v \in Users : v # u => account'[v] = account[v]
    <2>1. CASE joins
      <3>1. GiveGroup(u, creation[u].group) /\ creation[u].group \in Nat
        BY <1>1, <2>1, TypeParts, CreationParts DEF JoinGroup, GiveGroup
      <3>2. Give(u, account[u].roles, creation[u].group)
        BY <1>1, <1>4, <3>1, GiveGroupGoes, TypeParts
      <3>3. account[u].roles \in SUBSET Roles
        BY <1>1, <1>4, AccountParts, TypeParts
      <3>4. /\ account' \in AccountMaps /\ account'[u] # Null
            /\ account'[u].roles = account[u].roles /\ account'[u].group = creation[u].group
            /\ \A v \in Users : v # u => account'[v] = account[v]
        BY <1>1, <3>1, <3>2, <3>3, GiveGoes, TypeParts
      <3> QED BY <1>4, <2>1, <3>4
    <2>2. CASE ~ joins
      <3>1. account' = account
        BY <2>2 DEF JoinGroup
      <3> QED BY <1>1, <1>4, <2>2, <3>1, TypeParts
    <2> QED BY <2>1, <2>2
  <1>6. u \notin crossed => g # 0 /\ joins
    BY <1>1 DEF UserInv, Grouped
  <1>7. UNCHANGED <<users, tenants, group, made, unfounded, unborn, update, removal,
                    dismissal, failures, edits, refused, severed, crossed, halted, revived,
                    calm, aligned, undoing, unheard>>
    BY DEF JoinGroup, histories
  <1>8. CreationMoves(u)
    BY <1>2, <1>3, <1>5, <1>7 DEF CreationMoves, pc
  <1>9. StillOrphaned(u)' /\ StillGrouped(u)' /\ StillRuled(u)'
    BY <1>3, <1>5, <1>6, <1>7 DEF StillOrphaned, StillGrouped, StillRuled, Creating, pc
  <1> QED
    BY <1>1, <1>3, <1>5, <1>7, <1>8, <1>9, CreationStep, TypeParts

\* A creation that ends and leaves an account behind says why.
LEMMA DropStep ==
    ASSUME IInv, NEW u \in Users, creation[u] # Null,
           creation' = [creation EXCEPT ![u] = Null],
           UNCHANGED <<users, tenants, group, made, unfounded, unborn, update, removal,
                       dismissal, edits, crossed, halted, revived, calm, aligned,
                       undoing, unheard>>,
           account' \in AccountMaps, refused' \in [Users -> Nat],
           severed' \in SUBSET Users, failures' \in 0 .. MaxFailures,
           \A v \in Users : v # u =>
             /\ account'[v] = account[v] /\ refused'[v] = refused[v]
             /\ (v \in severed' <=> v \in severed),
           account'[u] # Null => Explained(u)'
    PROVE  IInv'
  <1>1. TypeOK
    BY DEF IInv
  <1>2. /\ creation' \in Creations /\ creation'[u] = Null
        /\ \A v \in Users : v # u => creation'[v] = creation[v]
    BY <1>1, TypeParts DEF Creations
  <1>3. CreationMoves(u)
    BY <1>2 DEF CreationMoves
  <1>4. StillOrphaned(u)' /\ StillGrouped(u)' /\ StillRuled(u)'
    BY <1>2 DEF StillOrphaned, StillGrouped, StillRuled, Creating
  <1> QED BY <1>1, <1>2, <1>3, <1>4, CreationStep, TypeParts

LEMMA RefuseCreationStep ==
    ASSUME IInv, NEW u \in Users, RefuseCreation(u)
    PROVE  IInv'
  <1>1. TypeOK /\ UserInv(u) /\ creation[u] # Null
    BY DEF IInv, RefuseCreation
  <1>2. UNCHANGED <<users, account, tenants, group, made, unfounded, unborn, update, removal,
                    dismissal, edits, severed, crossed, halted, revived, calm, aligned,
                    undoing, unheard>>
    BY DEF RefuseCreation
  <1>3. failures' \in 0 .. MaxFailures
    BY <1>1, BoundsAssumption, TypeParts DEF RefuseCreation, Fail
  <1>4. /\ refused' \in [Users -> Nat] /\ refused'[u] = refused[u] + 1 /\ refused[u] \in Nat
        /\ \A v \in Users : v # u => refused'[v] = refused[v]
    BY <1>1, TypeParts DEF RefuseCreation
  <1>5. CASE creation[u].pc \in UndoneFrom
    <2>1. /\ creation' \in Creations /\ creation'[u] # Null /\ creation'[u].pc = "undoing"
          /\ creation'[u].tenant = creation[u].tenant /\ creation'[u].role = creation[u].role
          /\ creation'[u].founding = creation[u].founding
          /\ \A v \in Users : v # u => creation'[v] = creation[v]
      BY <1>1, <1>5, AdvanceGoes, TypeParts DEF RefuseCreation, CreationPC
    <2>2. account[u] # Null
      BY <1>1, <1>5 DEF UserInv, Young, UndoneFrom
    <2>3. CreationMoves(u)
      BY <1>2, <1>4, <2>1, <2>2 DEF CreationMoves
    <2>4. StillOrphaned(u)' /\ StillGrouped(u)' /\ StillRuled(u)'
      BY <1>4, <2>1 DEF StillOrphaned, StillGrouped, StillRuled, Creating
    <2> QED BY <1>1, <1>2, <1>3, <1>4, <2>1, <2>3, <2>4, CreationStep, TypeParts
  <1>6. CASE creation[u].pc \notin UndoneFrom
    <2>1. creation' = [creation EXCEPT ![u] = Null]
      BY <1>6 DEF RefuseCreation
    <2>2. creation[u].pc \in {"asked", "undoing"}
      BY <1>1, <1>6, TypeParts, CreationParts DEF CreationPC, UndoneFrom
    <2>3. account[u] # Null => refused[u] > 0 \/ u \in crossed
      BY <1>1, <2>2 DEF UserInv, Young, Orphaned, Creating
    <2>4. account'[u] # Null => Explained(u)'
      BY <1>2, <1>4, <2>3 DEF Explained
    <2> QED BY <1>1, <1>2, <1>3, <1>4, <2>1, <2>4, DropStep, TypeParts
  <1> QED BY <1>5, <1>6

LEMMA UndoAccountStep ==
    ASSUME IInv, NEW u \in Users, UndoAccount(u)
    PROVE  IInv'
  <1>1. TypeOK /\ creation[u] # Null
    BY DEF IInv, UndoAccount, Creating
  <1>2. UNCHANGED <<users, tenants, group, made, unfounded, unborn, update, removal, failures,
                    dismissal, edits, refused, severed, crossed, halted, revived, calm, aligned,
                    undoing, unheard>>
    BY DEF UndoAccount, histories
  <1>3. /\ account' \in AccountMaps /\ account'[u] = Null
        /\ \A v \in Users : v # u => account'[v] = account[v]
    BY <1>1, TypeParts DEF UndoAccount, AccountMaps
  <1>4. creation' = [creation EXCEPT ![u] = Null]
    BY DEF UndoAccount
  <1> QED BY <1>1, <1>2, <1>3, <1>4, DropStep, TypeParts

LEMMA AbandonCreationStep ==
    ASSUME IInv, NEW u \in Users, AbandonCreation(u)
    PROVE  IInv'
  <1>1. TypeOK /\ creation[u] # Null
    BY DEF IInv, AbandonCreation
  <1>2. UNCHANGED <<users, account, tenants, group, made, unfounded, unborn, update, removal,
                    dismissal, edits, refused, crossed, halted, revived, calm, aligned,
                    undoing, unheard>>
    BY DEF AbandonCreation
  <1>3. failures' \in 0 .. MaxFailures
    BY <1>1, BoundsAssumption, TypeParts DEF AbandonCreation, Fail
  <1>4. /\ severed' \in SUBSET Users /\ u \in severed'
        /\ \A v \in Users : v # u => (v \in severed' <=> v \in severed)
    BY <1>1, TypeParts DEF AbandonCreation
  <1>5. creation' = [creation EXCEPT ![u] = Null]
    BY DEF AbandonCreation
  <1>6. Explained(u)'
    BY <1>4 DEF Explained
  <1> QED BY <1>1, <1>2, <1>3, <1>4, <1>5, <1>6, DropStep, TypeParts

\* What a creation ends with when its row is stored, be it heard of or not.
LEMMA RowStoredStep ==
    ASSUME IInv, NEW u \in Users, Creating(u, "joined"),
           creation[u].founding \/ creation[u].tenant \in tenants,
           users' = [users EXCEPT ![u] = [tenant |-> creation[u].tenant,
                                          role |-> creation[u].role]],
           tenants' = tenants \cup {creation[u].tenant},
           creation' = [creation EXCEPT ![u] = Null],
           UNCHANGED <<account, group, made, unfounded, unborn, update, removal, dismissal,
                       edits, refused, severed, crossed, halted, revived, calm, aligned>>,
           failures' \in 0 .. MaxFailures,
           undoing' \in SUBSET Users, unheard' \in SUBSET Users,
           u \in undoing' => u \in unheard',
           \A v \in Users : v # u => (v \in undoing' <=> v \in undoing)
                                    /\ (v \in unheard' <=> v \in unheard)
    PROVE  IInv'
  <1>1. /\ TypeOK /\ UserInv(u) /\ Unused /\ creation[u] # Null
        /\ creation[u].pc = "joined"
    BY DEF IInv, Creating
  <1> DEFINE t == creation[u].tenant
             row == [tenant |-> t, role |-> creation[u].role]
  <1>2. /\ users[u] = Null /\ UpdatesOf(u) = {} /\ ~ Deleting(u) /\ u \notin unborn
        /\ account[u] # Null /\ account[u].roles = {creation[u].role}
    BY <1>1 DEF UserInv, Young, Ruled
  <1>3. t \in Tenants /\ row \in UserRow /\ row.tenant = t /\ row.role = creation[u].role
    BY <1>1, TypeParts, CreationParts DEF UserRow
  <1> HIDE DEF row
  <1>4. /\ users' = [users EXCEPT ![u] = row] /\ tenants' = tenants \cup {t}
        /\ creation' = [creation EXCEPT ![u] = Null]
    BY DEF row
  <1>5. /\ creation' \in Creations /\ creation'[u] = Null
        /\ users' \in [Users -> UserRow \cup {Null}] /\ users'[u] = row /\ row # Null
        /\ \A v \in Users : v # u => creation'[v] = creation[v] /\ users'[v] = users[v]
    BY <1>1, <1>3, <1>4, TypeParts, NullAssumption DEF Creations
  <1>6. TypeOK'
    BY <1>1, <1>3, <1>4, <1>5, TypeParts
       DEF TypeOK, AccountMaps, Creations, UpdateMaps, RemovalMaps, DismissalMaps
  <1>7. Kept
    BY <1>4 DEF Kept
  <1>8. \A v \in Users : v # u => Left(v)
    BY <1>5 DEF Left, UpdatesOf
  <1>9. UpdatesOf(u)' = {} /\ ~ Deleting(u)'
    BY <1>2 DEF UpdatesOf, Deleting
  <1>10. Young(u)' /\ Linked(u)' /\ Orphaned(u)'
    BY <1>2, <1>3, <1>4, <1>5 DEF Young, Linked, Orphaned, Creating
  <1>11. Home(u)'
    <2>1. PICK s \in Tenants : s = t
      BY <1>3
    <2>2. At(u, s)'
      BY <1>3, <1>5, <1>9, <2>1 DEF At, Deleting
    <2> QED BY <2>2 DEF Home
  <1>12. Cleared(u)' /\ Missed(u)'
    BY <1>1, <1>2, <1>9 DEF UserInv, Cleared, Missed
  <1>13. Overlapping(u)'
    BY <1>1, <1>3, <1>5 DEF UserInv, Overlapping
  <1>14. Grouped(u)'
    BY <1>1, <1>3, <1>5 DEF UserInv, Grouped
  <1>15. Ruled(u)'
    BY <1>2, <1>3, <1>5, <1>9 DEF Ruled
  <1>16. UserInv(u)'
    BY <1>10, <1>11, <1>12, <1>13, <1>14, <1>15 DEF UserInv
  <1>17. \A v \in Users : UserInv(v)'
    BY <1>1, <1>7, <1>8, <1>16, LeftAlone DEF IInv
  <1>18. \A a \in calm' : LoneUpdate(a)'
    <2> TAKE a \in calm'
    <2>1. a \in calm /\ LoneUpdate(a)
      BY DEF IInv
    <2>2. update[a].user \in Users /\ a \in UpdatesOf(update[a].user)
      BY <1>1, <2>1, TypeParts, UpdateParts DEF LoneUpdate
    <2>3. update[a].user # u
      BY <1>2, <2>2
    <2> QED BY <1>1, <1>8, <2>1, <2>2, <2>3, LoneAlone
  <1>19. Unused'
    BY <1>1, <1>4, <1>5 DEF Unused
  <1> QED BY <1>6, <1>17, <1>18, <1>19 DEF IInv

LEMMA InsertUserStep ==
    ASSUME IInv, NEW u \in Users, InsertUser(u)
    PROVE  IInv'
  <1>1. /\ TypeOK /\ UserInv(u) /\ creation[u] # Null
        /\ creation[u].pc = "joined"
    BY DEF IInv, InsertUser, Creating
  <1> DEFINE t == creation[u].tenant
             inserts == creation[u].founding \/ t \in tenants
  <1>2. UNCHANGED <<account, group, made, unfounded, unborn, update, removal, dismissal,
                    failures, edits, refused, severed, crossed, halted, revived, calm, aligned,
                    undoing, unheard>>
    BY DEF InsertUser, histories
  <1>3. account[u] # Null
    BY <1>1 DEF UserInv, Young
  <1>5. CASE inserts
    <2>1. /\ users' = [users EXCEPT ![u] = [tenant |-> t, role |-> creation[u].role]]
          /\ tenants' = tenants \cup {t}
          /\ creation' = [creation EXCEPT ![u] = Null]
      BY <1>5 DEF InsertUser
    <2>2. Creating(u, "joined")
      BY DEF InsertUser
    <2>3. u \in undoing' => u \in unheard'
      BY <1>1, <1>2 DEF UserInv, Young
    <2> QED BY <1>1, <1>2, <1>5, <2>1, <2>2, <2>3, RowStoredStep, TypeParts
  <1>6. CASE ~ inserts
    <2>1. UNCHANGED <<tenants, users>> /\ Advance(u, "undoing")
      BY <1>6 DEF InsertUser
    <2>2. /\ creation' \in Creations /\ creation'[u] # Null /\ creation'[u].pc = "undoing"
          /\ creation'[u].tenant = creation[u].tenant /\ creation'[u].role = creation[u].role
          /\ creation'[u].founding = creation[u].founding
          /\ \A v \in Users : v # u => creation'[v] = creation[v]
      BY <1>1, <2>1, AdvanceGoes, TypeParts DEF CreationPC
    <2>3. u \in crossed
      BY <1>1, <1>6 DEF UserInv, Grouped
    <2>4. CreationMoves(u)
      BY <1>2, <1>3, <2>1, <2>2 DEF CreationMoves
    <2>5. StillOrphaned(u)' /\ StillGrouped(u)' /\ StillRuled(u)'
      BY <1>2, <2>2, <2>3 DEF StillOrphaned, StillGrouped, StillRuled, Creating
    <2> QED BY <1>1, <1>2, <2>2, <2>4, <2>5, CreationStep, TypeParts
  <1> QED BY <1>5, <1>6

LEMMA LoseInsertStep ==
    ASSUME IInv, NEW u \in Users, LoseInsert(u)
    PROVE  IInv'
  <1>1. TypeOK
    BY DEF IInv
  <1>2. UNCHANGED <<tenants, account, group, made, unfounded, unborn, update, removal,
                    dismissal, edits, refused, severed, crossed, halted, revived, calm,
                    aligned>>
    BY DEF LoseInsert, histories
  <1>3. failures' \in 0 .. MaxFailures
    BY <1>1, BoundsAssumption, TypeParts DEF LoseInsert, Fail
  <1>4. /\ Creating(u, "joined") /\ creation[u].tenant \in tenants
        /\ users' = [users EXCEPT ![u] = [tenant |-> creation[u].tenant,
                                          role |-> creation[u].role]]
        /\ creation' = [creation EXCEPT ![u] = Null]
        /\ undoing' = undoing \cup {u} /\ unheard' = unheard \cup {u}
    BY DEF LoseInsert
  <1>5. tenants' = tenants \cup {creation[u].tenant}
    BY <1>2, <1>4
  <1> QED BY <1>1, <1>2, <1>3, <1>4, <1>5, RowStoredStep, TypeParts

\* The account of a stored user is undone, or the attempt fails.
LEMMA UnheardStep ==
    ASSUME IInv, NEW u \in Users, UndoStored(u) \/ LeaveStored(u)
    PROVE  IInv'
  <1>1. TypeOK /\ UserInv(u) /\ Unused /\ u \in undoing
    BY DEF IInv, UndoStored, LeaveStored
  <1>2. /\ UNCHANGED <<tenants, users, group, made, unfounded, unborn, creation, update,
                       removal, dismissal, edits, refused, severed, crossed, halted,
                       revived, calm, aligned, unheard>>
        /\ undoing' = undoing \ {u}
    BY DEF UndoStored, LeaveStored, histories
  <1>3. failures' \in 0 .. MaxFailures
    BY <1>1, BoundsAssumption, TypeParts DEF UndoStored, LeaveStored, Fail
  <1>4. /\ account' \in AccountMaps /\ account'[u] \in {account[u], Null}
        /\ \A v \in Users : v # u => account'[v] = account[v]
    BY <1>1, TypeParts DEF UndoStored, LeaveStored, AccountMaps
  <1>5. TypeOK'
    BY <1>1, <1>2, <1>3, <1>4, TypeParts
       DEF TypeOK, AccountMaps, Creations, UpdateMaps, RemovalMaps, DismissalMaps
  <1>6. Kept /\ \A v \in Users : v # u => Left(v)
    BY <1>2, <1>4 DEF Kept, Left, UpdatesOf
  <1>7. UpdatesOf(u)' = UpdatesOf(u) /\ Deleting(u)' = Deleting(u)
    BY <1>2 DEF UpdatesOf, Deleting
  <1>8. u \in unheard /\ u \notin unborn /\ creation[u] = Null
    BY <1>1 DEF UserInv, Young
  <1>9. Young(u)' /\ Linked(u)' /\ Missed(u)'
    BY <1>1, <1>2, <1>7, <1>8 DEF UserInv, Young, Linked, Missed, Excused
  <1>10. Home(u)'
    BY <1>1, <1>2, <1>7 DEF UserInv, Home, At
  <1>11. Cleared(u)'
    BY <1>1, <1>2, <1>4 DEF UserInv, Cleared
  <1>12. Orphaned(u)'
    BY <1>1, <1>2, <1>4, <1>7 DEF UserInv, Orphaned, Explained, Creating
  <1>13. Overlapping(u)' /\ Grouped(u)'
    BY <1>1, <1>2, <1>4, <1>8 DEF UserInv, Overlapping, Grouped
  <1>14. Ruled(u)'
    BY <1>1, <1>2, <1>4, <1>7, <1>8 DEF UserInv, Ruled
  <1>15. \A v \in Users : UserInv(v)'
    BY <1>1, <1>2, <1>6, <1>9, <1>10, <1>11, <1>12, <1>13, <1>14, LeftAlone
       DEF IInv, UserInv
  <1>16. \A a \in calm' : LoneUpdate(a)'
    <2> TAKE a \in calm'
    <2>1. a \in calm /\ LoneUpdate(a)
      BY <1>2 DEF IInv
    <2>2. update[a].user \in Users /\ a \in UpdatesOf(update[a].user)
      BY <1>1, <2>1, TypeParts, UpdateParts DEF LoneUpdate
    <2>3. UpdatesOf(update[a].user)' = UpdatesOf(update[a].user) /\ update'[a] = update[a]
      BY <1>2 DEF UpdatesOf
    <2>4. account'[update[a].user] \in {account[update[a].user], Null}
      BY <1>4, <2>2
    <2> QED BY <1>2, <2>1, <2>3, <2>4 DEF LoneUpdate
  <1>17. Unused'
    BY <1>1, <1>2 DEF Unused
  <1> QED BY <1>5, <1>15, <1>16, <1>17 DEF IInv

LEMMA CreationSteps ==
    ASSUME IInv, CreateStep
    PROVE  IInv'
  <1> PICK u \in Users :
        \/ \E t \in Tenants, role \in Roles : AskUser(u, t, role)
        \/ \E t \in Tenants : AskTenant(u, t)
        \/ CreateAccount(u) \/ AssignRole(u) \/ FindGroup(u) \/ MakeGroup(u) \/ JoinGroup(u)
        \/ InsertUser(u) \/ RefuseCreation(u) \/ UndoAccount(u) \/ AbandonCreation(u)
        \/ LoseInsert(u) \/ UndoStored(u) \/ LeaveStored(u)
    BY DEF CreateStep
  <1> QED
    BY AskStep, CreateAccountStep, AssignRoleStep, FindGroupStep, MakeGroupStep,
       JoinGroupStep, InsertUserStep, RefuseCreationStep, UndoAccountStep,
       AbandonCreationStep, LoseInsertStep, UnheardStep

-----------------------------------------------------------------------------
(* Updates.                                                                *)

\* What a step of an update may do: the row and the roles of its user.
UpdateMoves(a, u) ==
    /\ UNCHANGED <<tenants, group, made, unfounded, unborn, creation, removal, dismissal,
                   edits, refused, severed, crossed, halted, revived, undoing, unheard>>
    /\ \/ users'[u] = users[u]
       \/ users'[u] = update[a].row /\ update[a].row.tenant \in tenants
    /\ account'[u] = Null <=> account[u] = Null
    /\ account'[u] # Null => account'[u].group = account[u].group
    /\ \A v \in Users : v # u =>
         /\ users'[v] = users[v] /\ account'[v] = account[v]
         /\ (v \in aligned' <=> v \in aligned)
    /\ \A b \in Updates : b # a => update'[b] = update[b] /\ (b \in calm' <=> b \in calm)
    /\ \/ update'[a] = Null /\ a \notin calm'
       \/ /\ update'[a] # Null /\ (a \in calm' <=> a \in calm)
          /\ update'[a].user = u /\ update'[a].row = update[a].row
          /\ update'[a].role = update[a].role /\ update'[a].role # Null

\* The roles of a user whose last update is over.
StillRight(u) ==
    u \in aligned =>
        /\ UpdatesOf(u) \subseteq calm
        /\ users[u] # Null /\ account[u] # Null /\ UpdatesOf(u) = {} =>
             account[u].roles = {users[u].role}

LEMMA UpdateMovesStep ==
    ASSUME IInv, NEW a \in Updates, NEW u \in Users,
           update[a] # Null, update[a].user = u, UpdateMoves(a, u),
           users' \in [Users -> UserRow \cup {Null}], account' \in AccountMaps,
           update' \in UpdateMaps, failures' \in 0 .. MaxFailures,
           calm' \in SUBSET Updates, aligned' \in SUBSET Users,
           StillRight(u)', a \in calm' => LoneUpdate(a)'
    PROVE  IInv'
  <1>1. TypeOK /\ UserInv(u) /\ Unused
    BY DEF IInv
  <1>2. a \in UpdatesOf(u)
    BY DEF UpdatesOf
  <1>3. u \notin unborn /\ creation[u] = Null
    BY <1>1, <1>2 DEF UserInv, Young
  <1>4. TypeOK'
    BY <1>1, TypeParts DEF TypeOK, AccountMaps, Creations, UpdateMaps, RemovalMaps,
                          DismissalMaps, UpdateMoves
  <1>5. UpdatesOf(u)' \subseteq UpdatesOf(u)
    BY DEF UpdatesOf, UpdateMoves
  <1>6. \A b \in UpdatesOf(u)' : update'[b].row = update[b].row
    BY DEF UpdatesOf, UpdateMoves
  <1>7. \A v \in Users : v # u => Left(v)
    <2> TAKE v \in Users
    <2> HAVE v # u
    <2>1. UpdatesOf(v)' = UpdatesOf(v) /\ a \notin UpdatesOf(v)
      BY DEF UpdatesOf, UpdateMoves
    <2>2. \A b \in UpdatesOf(v) : update'[b] = update[b] /\ (b \in calm' <=> b \in calm)
      BY <2>1 DEF UpdatesOf, UpdateMoves
    <2> QED BY <2>1, <2>2 DEF Left, UpdateMoves
  <1>8. Kept
    BY DEF Kept, UpdateMoves
  <1>9. Deleting(u)' = Deleting(u)
    BY DEF Deleting, UpdateMoves
  <1>10. Young(u)'
    BY <1>1, <1>3 DEF UserInv, Young, UpdateMoves
  <1>11. Home(u)'
    <2>1. PICK t \in Tenants \cup {Null} : At(u, t)
      BY <1>1 DEF UserInv, Home
    <2>2. users'[u] # Null => users'[u].tenant = t
      BY <1>2, <2>1 DEF At, UpdateMoves
    <2>3. \A b \in UpdatesOf(u)' : update'[b].row.tenant = t
      BY <1>5, <1>6, <2>1 DEF At
    <2>4. At(u, t)'
      BY <2>1, <2>2, <2>3 DEF At, UpdateMoves
    <2> QED BY <2>1, <2>4 DEF Home
  <1>12. Linked(u)'
    BY <1>1 DEF UserInv, Linked, UpdateMoves
  <1>13. Cleared(u)'
    BY <1>1 DEF UserInv, Cleared, UpdateMoves
  <1>14. Missed(u)'
    BY <1>1, <1>2, <1>5, <1>9 DEF UserInv, Missed, Excused, UpdateMoves
  <1>15. Orphaned(u)'
    <2>1. users'[u] = Null => users[u] = Null
      BY <1>1, TypeParts, UpdateParts, NullAssumption DEF UpdateMoves
    <2> QED BY <1>1, <1>2, <1>3, <2>1 DEF UserInv, Orphaned, Explained, Creating, UpdateMoves
  <1>16. u \notin crossed /\ users'[u] # Null /\ account'[u] # Null =>
           users[u] # Null /\ users'[u].tenant = users[u].tenant
    <2> SUFFICES ASSUME u \notin crossed, users'[u] # Null, account'[u] # Null
                 PROVE  users[u] # Null /\ users'[u].tenant = users[u].tenant
      OBVIOUS
    <2>1. users[u] # Null
      BY <1>1, <1>2 DEF UserInv, Orphaned, UpdateMoves
    <2>2. users[u].tenant = update[a].row.tenant
      BY <1>1, <1>2, <2>1 DEF UserInv, Home, At
    <2> QED BY <2>1, <2>2 DEF UpdateMoves
  <1>17. Overlapping(u)'
    BY <1>1, <1>3, <1>16 DEF UserInv, Overlapping, UpdateMoves
  <1>18. Grouped(u)'
    BY <1>1, <1>3, <1>16 DEF UserInv, Grouped, UpdateMoves
  <1>19. Ruled(u)'
    <2>1. \A b \in UpdatesOf(u)' : update'[b].pc # "loaded" => update'[b].role # Null
      BY <1>1, <1>5 DEF UserInv, Ruled, UpdatesOf, UpdateMoves
    <2> QED BY <1>3, <2>1 DEF StillRight, Ruled, UpdateMoves
  <1>20. UserInv(u)'
    BY <1>10, <1>11, <1>12, <1>13, <1>14, <1>15, <1>17, <1>18, <1>19 DEF UserInv
  <1>21. \A v \in Users : UserInv(v)'
    BY <1>1, <1>7, <1>8, <1>20, LeftAlone DEF IInv, UpdateMoves
  <1>22. \A b \in calm' : LoneUpdate(b)'
    <2> TAKE b \in calm'
    <2>1. CASE b # a
      <3>1. b \in calm /\ LoneUpdate(b)
        BY <2>1 DEF IInv, UpdateMoves
      <3>2. update[b].user \in Users /\ UpdatesOf(update[b].user) = {b}
        BY <1>1, <3>1, TypeParts, UpdateParts DEF LoneUpdate
      <3>3. update[b].user # u
        BY <1>2, <2>1, <3>2
      <3> QED BY <1>1, <1>7, <3>1, <3>2, <3>3, LoneAlone
    <2> QED BY <2>1
  <1>23. Unused'
    BY <1>1 DEF Unused, UpdateMoves
  <1> QED BY <1>4, <1>21, <1>22, <1>23 DEF IInv

LEMMA CloseGoes ==
    ASSUME TypeOK, NEW a \in Updates, Close(a)
    PROVE  /\ update' \in UpdateMaps /\ update'[a] = Null
           /\ calm' \in SUBSET Updates /\ a \notin calm'
           /\ \A b \in Updates : b # a => update'[b] = update[b] /\ (b \in calm' <=> b \in calm)
  BY TypeParts DEF Close, UpdateMaps

\* An update whose user has kept its role through everything is alone.
LEMMA AloneWhenAligned ==
    ASSUME IInv, NEW a \in Updates, update[a] # Null, update[a].user \in aligned
    PROVE  a \in calm
  <1>1. update[a].user \in Users /\ TypeOK
    BY TypeParts, UpdateParts DEF IInv
  <1> QED BY <1>1 DEF IInv, UserInv, Ruled, UpdatesOf

LEMMA LoadUserStep ==
    ASSUME IInv, NEW a \in Updates, NEW u \in Users, NEW role \in Roles \cup {Null},
           LoadUser(a, u, role)
    PROVE  IInv'
  <1> DEFINE row == Edited(users[u], role)
             b == [pc |-> "loaded", user |-> u, role |-> role, seen |-> {}, row |-> row]
  <1>1. TypeOK /\ UserInv(u) /\ Unused /\ update[a] = Null /\ users[u] # Null
    BY DEF IInv, LoadUser
  <1>2. UNCHANGED <<tenants, users, account, group, made, unfounded, unborn, creation,
                    removal, dismissal, failures, refused, severed, crossed, halted,
                    undoing, unheard>>
    BY DEF LoadUser
  <1>3. users[u] \in UserRow
    BY <1>1, TypeParts
  <1>4. /\ row \in UserRow /\ row.tenant = users[u].tenant
        /\ role = Null => row = users[u]
        /\ role # Null => row.role = role
    BY <1>3 DEF Edited, UserRow
  <1>5. edits' \in 0 .. MaxEdits
    BY <1>1, BoundsAssumption, TypeParts DEF LoadUser
  <1>6. update' = [update EXCEPT ![a] = b]
    BY DEF LoadUser
  <1> HIDE DEF row
  <1>7. /\ b \in Update /\ b.pc = "loaded" /\ b.user = u /\ b.role = role /\ b.row = row
    BY <1>4 DEF Update, UpdatePC
  <1> HIDE DEF b
  <1>8. /\ update' \in UpdateMaps /\ update'[a] = b /\ b # Null
        /\ \A c \in Updates : c # a => update'[c] = update[c]
    BY <1>1, <1>6, <1>7, TypeParts, NullAssumption DEF UpdateMaps
  <1>9. a \notin calm
    BY <1>1 DEF IInv, LoneUpdate
  <1>10. UpdatesOf(u)' = UpdatesOf(u) \cup {a} /\ a \notin UpdatesOf(u)
    BY <1>1, <1>7, <1>8 DEF UpdatesOf
  <1>11. /\ calm' \in SUBSET Updates /\ aligned' \in SUBSET Users /\ revived' \in SUBSET Users
         /\ \A v \in Users : v # u =>
              (v \in aligned' <=> v \in aligned) /\ (v \in revived' <=> v \in revived)
         /\ u \in revived => u \in revived'
    BY <1>1, TypeParts DEF LoadUser
  <1>12. /\ UpdatesOf(u) = {} => calm' = calm \cup {a} /\ aligned' = aligned
         /\ UpdatesOf(u) # {} => calm' = calm \ UpdatesOf(u) /\ u \notin aligned'
    BY DEF LoadUser
  <1>13. Deleting(u) => u \in revived'
    BY DEF LoadUser
  <1>14. TypeOK'
    BY <1>1, <1>2, <1>5, <1>8, <1>11, TypeParts
       DEF TypeOK, AccountMaps, Creations, UpdateMaps, RemovalMaps, DismissalMaps
  <1>15. \A v \in Users : v # u => Left(v)
    <2> TAKE v \in Users
    <2> HAVE v # u
    <2>1. UpdatesOf(v)' = UpdatesOf(v) /\ a \notin UpdatesOf(v)
      BY <1>1, <1>7, <1>8 DEF UpdatesOf
    <2>2. \A c \in UpdatesOf(v) : c \notin UpdatesOf(u) /\ c \in Updates
      BY DEF UpdatesOf
    <2>3. \A c \in UpdatesOf(v) : update'[c] = update[c] /\ (c \in calm' <=> c \in calm)
      BY <1>8, <1>12, <2>1, <2>2
    <2> QED BY <1>2, <1>11, <2>1, <2>3 DEF Left
  <1>16. Kept
    BY <1>2 DEF Kept
  <1>17. Deleting(u)' = Deleting(u)
    BY <1>2 DEF Deleting
  <1>18. u \notin unborn /\ creation[u] = Null
    BY <1>1 DEF UserInv, Young
  <1>19. Young(u)'
    BY <1>1, <1>2, <1>18 DEF UserInv, Young
  <1>20. Home(u)'
    <2>1. PICK t \in Tenants \cup {Null} : At(u, t)
      BY <1>1 DEF UserInv, Home
    <2>2. row.tenant = t
      BY <1>1, <1>4, <2>1 DEF At
    <2>3. \A c \in UpdatesOf(u)' : update'[c].row.tenant = t
      BY <1>7, <1>8, <1>10, <2>1, <2>2 DEF At, UpdatesOf
    <2>4. At(u, t)'
      BY <1>2, <2>1, <2>3 DEF At
    <2> QED BY <2>1, <2>4 DEF Home
  <1>21. Linked(u)' /\ Cleared(u)' /\ Overlapping(u)' /\ Grouped(u)'
    BY <1>1, <1>2 DEF UserInv, Linked, Cleared, Overlapping, Grouped
  <1>22. Missed(u)'
    BY <1>1, <1>2, <1>11, <1>13, <1>17 DEF UserInv, Missed, Excused
  <1>23. Orphaned(u)'
    BY <1>1, <1>2 DEF UserInv, Orphaned, Creating
  <1>24. Ruled(u)'
    <2>1. \A c \in UpdatesOf(u)' : update'[c].pc # "loaded" => update'[c].role # Null
      BY <1>1, <1>7, <1>8, <1>10 DEF UserInv, Ruled, UpdatesOf
    <2> QED BY <1>2, <1>10, <1>12, <1>18, <2>1 DEF Ruled
  <1>25. UserInv(u)'
    BY <1>19, <1>20, <1>21, <1>22, <1>23, <1>24 DEF UserInv
  <1>26. \A v \in Users : UserInv(v)'
    BY <1>1, <1>2, <1>15, <1>16, <1>25, LeftAlone DEF IInv
  <1>27. \A c \in calm' : LoneUpdate(c)'
    <2> TAKE c \in calm'
    <2>1. CASE c # a
      <3>1. c \in calm /\ LoneUpdate(c)
        BY <1>12, <2>1 DEF IInv
      <3>2. update[c].user \in Users /\ c \in UpdatesOf(update[c].user)
        BY <1>1, <3>1, TypeParts, UpdateParts DEF LoneUpdate
      <3>3. update[c].user # u
        BY <1>12, <3>2
      <3> QED BY <1>1, <1>15, <3>1, <3>2, <3>3, LoneAlone
    <2>2. CASE c = a
      <3>1. UpdatesOf(u) = {}
        BY <1>9, <1>12, <2>2
      <3>2. UpdatesOf(u)' = {a} /\ aligned' = aligned
        BY <1>10, <1>12, <3>1
      <3>3. u \in aligned /\ account[u] # Null => account[u].roles = {users[u].role}
        BY <1>1, <3>1 DEF UserInv, Ruled
      <3> QED BY <1>2, <1>4, <1>7, <1>8, <2>2, <3>2, <3>3 DEF LoneUpdate
    <2> QED BY <2>1, <2>2
  <1>28. Unused'
    BY <1>1, <1>2 DEF Unused
  <1> QED BY <1>14, <1>26, <1>27, <1>28 DEF IInv

LEMMA SaveUserStep ==
    ASSUME IInv, NEW a \in Updates, SaveUser(a)
    PROVE  IInv'
  <1> DEFINE u == update[a].user
             row == update[a].row
  <1>1. TypeOK /\ update[a] # Null /\ update[a].pc = "loaded"
    BY DEF IInv, SaveUser, StepOf
  <1>2. PICK v \in Users : v = u
    BY <1>1, TypeParts, UpdateParts
  <1>3. UserInv(v) /\ a \in UpdatesOf(v)
    BY <1>1, <1>2 DEF IInv, UpdatesOf
  <1>4. row \in UserRow /\ row.tenant \in Tenants
    BY <1>1, TypeParts, UpdateParts
  <1>5. UNCHANGED <<tenants, account, group, made, unfounded, unborn, creation, removal,
                    dismissal, failures, refused, severed, crossed, halted, revived, aligned,
                    edits, undoing, unheard>>
    BY DEF SaveUser
  <1>6. a \in calm => LoneUpdate(a)
    BY DEF IInv
  <1>7. v \in aligned => a \in calm
    BY <1>1, <1>2, AloneWhenAligned
  <1>8. a \in calm => UpdatesOf(v) = {a}
    BY <1>2, <1>6 DEF LoneUpdate
  <1>9. /\ users' \in [Users -> UserRow \cup {Null}]
        /\ users'[v] = IF row.tenant \in tenants THEN row ELSE users[v]
        /\ \A w \in Users : w # v => users'[w] = users[w]
    BY <1>1, <1>2, <1>4, TypeParts DEF SaveUser
  <1>10. CASE row.tenant \in tenants /\ update[a].role # Null
    <2>1. update' = [update EXCEPT ![a].pc = "saved"] /\ calm' = calm
      BY <1>10 DEF SaveUser
    <2>2. /\ update' \in UpdateMaps /\ update'[a] # Null /\ update'[a].pc = "saved"
          /\ update'[a].user = update[a].user /\ update'[a].row = update[a].row
          /\ update'[a].role = update[a].role
          /\ \A b \in Updates : b # a => update'[b] = update[b]
      <3>1. "saved" \in UpdatePC
        BY DEF UpdatePC
      <3>2. Move(a, "saved", update[a].seen) /\ update[a].seen \in SUBSET Roles
        BY <1>1, <2>1, <3>1, MoveOn, TypeParts
      <3> QED BY <1>1, <3>1, <3>2, MoveGoes, TypeParts
    <2>3. UpdateMoves(a, v)
      BY <1>2, <1>5, <1>9, <1>10, <2>1, <2>2 DEF UpdateMoves
    <2>4. UpdatesOf(v)' = UpdatesOf(v)
      BY <1>2, <1>1, <2>2 DEF UpdatesOf
    <2>5. StillRight(v)'
      BY <1>3, <1>5, <1>7, <1>8, <2>1, <2>4 DEF StillRight
    <2>6. a \in calm' => LoneUpdate(a)'
      BY <1>1, <1>2, <1>6, <1>8, <1>9, <1>10, <2>1, <2>2, <2>4 DEF LoneUpdate
    <2> QED
      BY <1>1, <1>2, <1>5, <1>9, <2>1, <2>2, <2>3, <2>5, <2>6, UpdateMovesStep, TypeParts
  <1>11. CASE row.tenant \notin tenants \/ update[a].role = Null
    <2>1. Close(a)
      BY <1>11 DEF SaveUser
    <2>2. /\ update' \in UpdateMaps /\ update'[a] = Null
          /\ calm' \in SUBSET Updates /\ a \notin calm'
          /\ \A b \in Updates : b # a => update'[b] = update[b] /\ (b \in calm' <=> b \in calm)
      BY <1>1, <2>1, CloseGoes
    <2>3. UpdateMoves(a, v)
      BY <1>2, <1>5, <1>9, <2>2 DEF UpdateMoves
    <2>4. UpdatesOf(v)' = UpdatesOf(v) \ {a}
      BY <2>2 DEF UpdatesOf
    <2>5. users[v] # Null => row.tenant \in tenants
      BY <1>2, <1>3 DEF UserInv, Linked, Home, At
    <2>6. StillRight(v)'
      <3> SUFFICES ASSUME v \in aligned
                   PROVE  /\ UpdatesOf(v)' = {}
                          /\ users'[v] # Null /\ account[v] # Null =>
                               account[v].roles = {users'[v].role}
        BY <1>5 DEF StillRight
      <3>1. a \in calm /\ LoneUpdate(a) /\ UpdatesOf(v)' = {}
        BY <1>6, <1>7, <1>8, <2>4
      <3>2. CASE row.tenant \notin tenants
        BY <1>9, <2>5, <3>1, <3>2
      <3>3. CASE row.tenant \in tenants
        BY <1>1, <1>2, <1>9, <1>11, <3>1, <3>3 DEF LoneUpdate
      <3> QED BY <3>2, <3>3
    <2> QED
      BY <1>1, <1>2, <1>5, <1>9, <2>2, <2>3, <2>6, UpdateMovesStep, TypeParts
  <1> QED BY <1>10, <1>11

\* The last step of an update leaves a user whom nobody else updates right.
LEMMA ClosingStep ==
    ASSUME IInv, NEW a \in Updates, NEW v \in Users, update[a] # Null, update[a].user = v,
           Close(a), account' \in AccountMaps, aligned' \in SUBSET Users,
           failures' \in 0 .. MaxFailures,
           UNCHANGED <<users, tenants, group, made, unfounded, unborn, creation, removal,
                       dismissal, edits, refused, severed, crossed, halted, revived,
                       undoing, unheard>>,
           account'[v] = Null <=> account[v] = Null,
           account'[v] # Null => account'[v].group = account[v].group,
           \A w \in Users : w # v =>
             account'[w] = account[w] /\ (w \in aligned' <=> w \in aligned),
           v \in aligned' => a \in calm,
           v \in aligned' /\ LoneUpdate(a) /\ users[v] # Null /\ account'[v] # Null =>
             account'[v].roles = {users[v].role}
    PROVE  IInv'
  <1>1. TypeOK /\ a \in UpdatesOf(v)
    BY DEF IInv, UpdatesOf
  <1>2. /\ update' \in UpdateMaps /\ update'[a] = Null
        /\ calm' \in SUBSET Updates /\ a \notin calm'
        /\ \A b \in Updates : b # a => update'[b] = update[b] /\ (b \in calm' <=> b \in calm)
    BY <1>1, CloseGoes
  <1>3. UpdateMoves(a, v)
    BY <1>2 DEF UpdateMoves
  <1>4. UpdatesOf(v)' = UpdatesOf(v) \ {a}
    BY <1>2 DEF UpdatesOf
  <1>5. StillRight(v)'
    <2> SUFFICES ASSUME v \in aligned'
                 PROVE  /\ UpdatesOf(v)' = {}
                        /\ users[v] # Null /\ account'[v] # Null =>
                             account'[v].roles = {users[v].role}
      BY DEF StillRight
    <2>1. LoneUpdate(a)
      BY DEF IInv
    <2>2. UpdatesOf(v) = {a}
      BY <2>1 DEF LoneUpdate
    <2> QED BY <1>4, <2>1, <2>2
  <1> QED BY <1>1, <1>2, <1>3, <1>5, UpdateMovesStep, TypeParts

\* Another step of an update leaves it in the know.
LEMMA MovingStep ==
    ASSUME IInv, NEW a \in Updates, NEW v \in Users, update[a] # Null, update[a].user = v,
           NEW pc \in UpdatePC, NEW seen \in SUBSET Roles, Move(a, pc, seen),
           account' \in AccountMaps,
           UNCHANGED <<users, tenants, group, made, unfounded, unborn, creation, removal,
                       dismissal, edits, failures, refused, severed, crossed, halted, revived,
                       calm, aligned, undoing, unheard>>,
           account'[v] = Null <=> account[v] = Null,
           account'[v] # Null => account'[v].group = account[v].group,
           \A w \in Users : w # v => account'[w] = account[w],
           update[a].pc # "loaded", pc # "loaded",
           LoneUpdate(a) /\ account'[v] # Null =>
             /\ pc = "removing" => seen = account'[v].roles
             /\ pc = "adding" => account'[v].roles \subseteq {update[a].role}
    PROVE  IInv'
  <1>1. TypeOK /\ a \in UpdatesOf(v)
    BY DEF IInv, UpdatesOf
  <1>2. /\ update' \in UpdateMaps
        /\ update'[a] # Null /\ update'[a].pc = pc /\ update'[a].seen = seen
        /\ update'[a].user = update[a].user /\ update'[a].row = update[a].row
        /\ update'[a].role = update[a].role
        /\ \A b \in Updates : b # a => update'[b] = update[b]
    BY <1>1, MoveGoes, TypeParts
  <1>3. UpdateMoves(a, v)
    <2>1. update[a].role # Null
      BY <1>1 DEF IInv, UserInv, Ruled
    <2> QED BY <1>2, <2>1 DEF UpdateMoves
  <1>4. UpdatesOf(v)' = UpdatesOf(v)
    BY <1>2 DEF UpdatesOf
  <1>5. StillRight(v)'
    <2>1. v \in aligned => UpdatesOf(v) \subseteq calm
      BY DEF IInv, UserInv, Ruled
    <2> QED BY <1>1, <1>4, <2>1 DEF StillRight
  <1>6. a \in calm' => LoneUpdate(a)'
    <2> SUFFICES ASSUME a \in calm PROVE LoneUpdate(a)'
      OBVIOUS
    <2>1. LoneUpdate(a)
      BY DEF IInv
    <2> QED BY <1>2, <1>4, <2>1 DEF LoneUpdate
  <1> QED BY <1>1, <1>2, <1>3, <1>5, <1>6, UpdateMovesStep, TypeParts

LEMMA ReadRolesStep ==
    ASSUME IInv, NEW a \in Updates, ReadRoles(a)
    PROVE  IInv'
  <1>1. TypeOK /\ update[a] # Null /\ update[a].pc = "saved"
    BY DEF IInv, ReadRoles, StepOf
  <1>2. PICK v \in Users : v = update[a].user
    BY <1>1, TypeParts, UpdateParts
  <1>3. account[v] # Null /\ account[v].roles \in SUBSET Roles
    BY <1>1, <1>2, TypeParts, AccountParts DEF ReadRoles
  <1> DEFINE seen == account[v].roles
             role == update[a].role
             next == IF seen \ {role} # {} THEN "removing"
                     ELSE IF seen = {} THEN "adding" ELSE "done"
  <1>4. UNCHANGED <<tenants, users, account, group, made, unfounded, unborn, creation,
                    removal, dismissal, failures, refused, severed, crossed, halted, revived,
                    edits, undoing, unheard>>
    BY DEF ReadRoles
  <1>5. CASE next = "done"
    <2>1. Close(a) /\ aligned' = IF a \in calm THEN aligned \cup {v} ELSE aligned
      BY <1>2, <1>5 DEF ReadRoles
    <2>2. seen = {role}
      BY <1>5
    <2>3. LoneUpdate(a) /\ users[v] # Null => users[v].role = role
      BY <1>1, <1>2 DEF LoneUpdate
    <2>4. v \in aligned' => a \in calm
      BY <1>1, <1>2, <2>1, AloneWhenAligned
    <2>5. aligned' \in SUBSET Users
      BY <1>1, <2>1, TypeParts
    <2> QED
      BY <1>1, <1>2, <1>4, <2>1, <2>2, <2>3, <2>4, <2>5, ClosingStep, TypeParts
  <1>6. CASE next # "done"
    <2> HIDE DEF next
    <2>1. Move(a, next, seen) /\ calm' = calm /\ aligned' = aligned
      BY <1>2, <1>6 DEF ReadRoles, Move, next
    <2>2. /\ next \in UpdatePC /\ next # "loaded"
          /\ next = "adding" => seen \subseteq {role}
      BY <1>6 DEF next, UpdatePC
    <2> QED
      BY <1>1, <1>2, <1>3, <1>4, <2>1, <2>2, MovingStep, TypeParts
  <1> QED BY <1>5, <1>6

LEMMA RemoveRolesStep ==
    ASSUME IInv, NEW a \in Updates, RemoveRoles(a)
    PROVE  IInv'
  <1>1. TypeOK /\ update[a] # Null /\ update[a].pc = "removing"
    BY DEF IInv, RemoveRoles, StepOf
  <1>2. PICK v \in Users : v = update[a].user
    BY <1>1, TypeParts, UpdateParts
  <1>3. account[v] # Null /\ account[v].roles \in SUBSET Roles /\ account[v].group \in Nat
    BY <1>1, <1>2, TypeParts, AccountParts DEF RemoveRoles
  <1> DEFINE role == update[a].role
             seen == update[a].seen
             kept == account[v].roles \ (seen \ {role})
  <1>4. UNCHANGED <<tenants, users, group, made, unfounded, unborn, creation, removal,
                    dismissal, failures, refused, severed, crossed, halted, revived, edits,
                    undoing, unheard>>
    BY DEF RemoveRoles
  <1>5. kept \in SUBSET Roles
    BY <1>3
  <1>6. GiveRoles(v, kept)
    BY <1>2 DEF RemoveRoles, GiveRoles, KeptRoles
  <1>7. LoneUpdate(a) => seen = account[v].roles
    BY <1>1, <1>2, <1>3 DEF LoneUpdate
  <1>8. LoneUpdate(a) /\ users[v] # Null => users[v].role = role
    BY <1>1, <1>2 DEF LoneUpdate
  <1>9. LoneUpdate(a) => kept \subseteq {role} /\ (role \in seen => kept = {role})
    BY <1>7
  <1> HIDE DEF kept
  <1>10. Give(v, kept, account[v].group)
    BY <1>1, <1>3, <1>5, <1>6, GiveRolesGoes, TypeParts
  <1>11. /\ account' \in AccountMaps /\ account'[v] # Null
         /\ account'[v].roles = kept /\ account'[v].group = account[v].group
         /\ \A w \in Users : w # v => account'[w] = account[w]
    BY <1>1, <1>3, <1>5, <1>10, GiveGoes, TypeParts
  <1>12. CASE role \in seen
    <2>1. Close(a) /\ aligned' = IF a \in calm THEN aligned \cup {v} ELSE aligned
      BY <1>2, <1>12 DEF RemoveRoles
    <2>2. v \in aligned' => a \in calm
      BY <1>1, <1>2, <2>1, AloneWhenAligned
    <2>3. aligned' \in SUBSET Users
      BY <1>1, <2>1, TypeParts
    <2>4. \A w \in Users : w # v => (w \in aligned' <=> w \in aligned)
      BY <2>1
    <2> QED
      BY <1>1, <1>2, <1>3, <1>4, <1>8, <1>9, <1>11, <1>12, <2>1, <2>2, <2>3, <2>4,
         ClosingStep, TypeParts
  <1>13. CASE role \notin seen
    <2>1. update' = [update EXCEPT ![a].pc = "adding"] /\ calm' = calm /\ aligned' = aligned
      BY <1>13 DEF RemoveRoles
    <2>2. "adding" \in UpdatePC
      BY DEF UpdatePC
    <2>3. Move(a, "adding", seen) /\ seen \in SUBSET Roles
      BY <1>1, <2>1, <2>2, MoveOn, TypeParts
    <2> QED
      BY <1>1, <1>2, <1>3, <1>4, <1>9, <1>11, <2>1, <2>2, <2>3, MovingStep, TypeParts
  <1> QED BY <1>12, <1>13

LEMMA AddRoleStep ==
    ASSUME IInv, NEW a \in Updates, AddRole(a)
    PROVE  IInv'
  <1>1. TypeOK /\ update[a] # Null /\ update[a].pc = "adding"
    BY DEF IInv, AddRole, StepOf
  <1>2. PICK v \in Users : v = update[a].user
    BY <1>1, TypeParts, UpdateParts
  <1>3. account[v] # Null /\ account[v].roles \in SUBSET Roles /\ account[v].group \in Nat
    BY <1>1, <1>2, TypeParts, AccountParts DEF AddRole
  <1> DEFINE role == update[a].role
             roles == account[v].roles \cup {role}
  <1>4. UNCHANGED <<tenants, users, group, made, unfounded, unborn, creation, removal,
                    dismissal, failures, refused, severed, crossed, halted, revived, edits,
                    undoing, unheard>>
    BY DEF AddRole
  <1>5. Close(a) /\ aligned' = IF a \in calm THEN aligned \cup {v} ELSE aligned
    BY <1>2 DEF AddRole
  <1>6. role \in Roles
    <2>1. a \in UpdatesOf(v) /\ role \in Roles \cup {Null}
      BY <1>1, <1>2, TypeParts, UpdateParts DEF UpdatesOf
    <2> QED BY <1>1, <2>1 DEF IInv, UserInv, Ruled
  <1>7. roles \in SUBSET Roles
    BY <1>3, <1>6
  <1>8. GiveRoles(v, roles)
    BY <1>2 DEF AddRole, GiveRoles
  <1>9. LoneUpdate(a) => roles = {role}
    BY <1>1, <1>2, <1>3 DEF LoneUpdate
  <1>10. LoneUpdate(a) /\ users[v] # Null => users[v].role = role
    BY <1>1, <1>2 DEF LoneUpdate
  <1> HIDE DEF roles
  <1>11. Give(v, roles, account[v].group)
    BY <1>1, <1>3, <1>7, <1>8, GiveRolesGoes, TypeParts
  <1>12. /\ account' \in AccountMaps /\ account'[v] # Null
         /\ account'[v].roles = roles /\ account'[v].group = account[v].group
         /\ \A w \in Users : w # v => account'[w] = account[w]
    BY <1>1, <1>3, <1>7, <1>11, GiveGoes, TypeParts
  <1>13. v \in aligned' => a \in calm
    BY <1>1, <1>2, <1>5, AloneWhenAligned
  <1>14. aligned' \in SUBSET Users /\ \A w \in Users : w # v => (w \in aligned' <=> w \in aligned)
    BY <1>1, <1>5, TypeParts
  <1> QED
    BY <1>1, <1>2, <1>3, <1>4, <1>5, <1>9, <1>10, <1>12, <1>13, <1>14, ClosingStep, TypeParts

LEMMA MissAccountStep ==
    ASSUME IInv, NEW a \in Updates, MissAccount(a)
    PROVE  IInv'
  <1>1. TypeOK /\ update[a] # Null
    BY DEF IInv, MissAccount
  <1>2. PICK v \in Users : v = update[a].user
    BY <1>1, TypeParts, UpdateParts
  <1>3. /\ Close(a) /\ account[v] = Null
        /\ UNCHANGED <<tenants, users, account, group, made, unfounded, unborn, creation,
                       removal, dismissal, failures, refused, severed, crossed, halted,
                       revived, aligned, edits, undoing, unheard>>
    BY <1>2 DEF MissAccount
  <1>4. v \in aligned' => a \in calm
    BY <1>1, <1>2, <1>3, AloneWhenAligned
  <1> QED BY <1>1, <1>2, <1>3, <1>4, ClosingStep, TypeParts

LEMMA FailUpdateStep ==
    ASSUME IInv, NEW a \in Updates, FailUpdate(a)
    PROVE  IInv'
  <1>1. TypeOK /\ update[a] # Null
    BY DEF IInv, FailUpdate
  <1>2. PICK v \in Users : v = update[a].user
    BY <1>1, TypeParts, UpdateParts
  <1>3. /\ Close(a) /\ aligned' = aligned \ {v}
        /\ UNCHANGED <<tenants, users, account, group, made, unfounded, unborn, creation,
                       removal, dismissal, refused, severed, crossed, halted, revived, edits,
                       undoing, unheard>>
    BY <1>2 DEF FailUpdate
  <1>4. failures' \in 0 .. MaxFailures
    BY <1>1, BoundsAssumption, TypeParts DEF FailUpdate, Fail
  <1>5. /\ aligned' \in SUBSET Users /\ v \notin aligned'
        /\ \A w \in Users : w # v => (w \in aligned' <=> w \in aligned)
    BY <1>1, <1>3, TypeParts
  <1> QED BY <1>1, <1>2, <1>3, <1>4, <1>5, ClosingStep, TypeParts

LEMMA UpdateSteps ==
    ASSUME IInv, UpdateStep
    PROVE  IInv'
  <1> PICK a \in Updates :
        \/ \E u \in Users, role \in Roles \cup {Null} : LoadUser(a, u, role)
        \/ SaveUser(a) \/ ReadRoles(a) \/ RemoveRoles(a) \/ AddRole(a)
        \/ MissAccount(a) \/ FailUpdate(a)
    BY DEF UpdateStep
  <1> QED
    BY LoadUserStep, SaveUserStep, ReadRolesStep, RemoveRolesStep, AddRoleStep,
       MissAccountStep, FailUpdateStep

-----------------------------------------------------------------------------
(* Deletions.                                                              *)

\* A deletion takes rows and accounts of users whom it has listed.
DeletionMoves(v) ==
    /\ \/ users'[v] = users[v]
       \/ users'[v] = Null /\ (account[v] = Null \/ v \in crossed)
    /\ \/ account'[v] = account[v]
       \/ account'[v] = Null /\ Deleting(v)
    /\ Deleting(v)' => Deleting(v) \/ users[v] # Null

LEMMA DeletionStep ==
    ASSUME IInv, TypeOK',
           UNCHANGED <<creation, update, unborn, unfounded, refused, severed, calm, aligned,
                       undoing, unheard>>,
           tenants' \subseteq tenants, crossed \subseteq crossed',
           \A t \in unfounded : dismissal'[t] = Null,
           \A v \in Users :
             /\ DeletionMoves(v)
             /\ Home(v)' /\ Linked(v)' /\ Cleared(v)' /\ Missed(v)' /\ Overlapping(v)'
             /\ Grouped(v)'
    PROVE  IInv'
  <1>1. TypeOK /\ Unused
    BY DEF IInv
  <1>2. ASSUME NEW v \in Users PROVE UserInv(v)'
    <2>1. UserInv(v) /\ DeletionMoves(v)
      BY DEF IInv
    <2>2. UpdatesOf(v)' = UpdatesOf(v)
      BY DEF UpdatesOf
    <2>3. users'[v] # Null => users'[v] = users[v]
      BY <2>1 DEF DeletionMoves
    <2>4. account'[v] # Null => account'[v] = account[v]
      BY <2>1 DEF DeletionMoves
    <2>5. v \in unborn \/ creation[v] # Null => ~ Deleting(v) /\ users[v] = Null
      BY <2>1 DEF UserInv, Young
    <2>6. v \in unborn \/ creation[v] # Null =>
            account'[v] = account[v] /\ users'[v] = Null /\ ~ Deleting(v)'
      BY <2>1, <2>5 DEF DeletionMoves
    <2>7. Young(v)'
      BY <2>1, <2>2, <2>6 DEF UserInv, Young
    <2>8. Orphaned(v)'
      BY <2>1, <2>2, <2>4 DEF UserInv, Orphaned, Explained, Creating, DeletionMoves
    <2>9. Ruled(v)'
      BY <2>1, <2>2, <2>3, <2>4, <2>6 DEF UserInv, Ruled
    <2> QED BY <2>7, <2>8, <2>9 DEF UserInv
  <1>3. ASSUME NEW a \in calm PROVE LoneUpdate(a)'
    <2>1. LoneUpdate(a)
      BY DEF IInv
    <2>2. PICK v \in Users : v = update[a].user
      BY <1>1, <2>1, TypeParts, UpdateParts DEF LoneUpdate
    <2>3. UpdatesOf(v)' = UpdatesOf(v)
      BY DEF UpdatesOf
    <2>4. users'[v] # Null => users'[v] = users[v]
      BY DEF DeletionMoves
    <2>5. account'[v] # Null => account'[v] = account[v]
      BY DEF DeletionMoves
    <2> QED BY <2>1, <2>2, <2>3, <2>4, <2>5 DEF LoneUpdate
  <1>4. Unused'
    BY <1>1 DEF Unused
  <1> QED BY <1>2, <1>3, <1>4 DEF IInv

\* Deletions that go on have the targets they had.
TargetsStay ==
    /\ \A d \in Removals : removal'[d] # Null =>
         /\ removal[d] # Null /\ removal'[d].targets = removal[d].targets
         /\ removal'[d].tenant = removal[d].tenant
    /\ \A t \in Tenants : dismissal'[t] # Null =>
         dismissal[t] # Null /\ dismissal'[t].targets = dismissal[t].targets

LEMMA HomeStays ==
    ASSUME NEW v \in Users, Home(v), TargetsStay, UNCHANGED <<creation, update>>,
           users'[v] = users[v] \/ users'[v] = Null
    PROVE  Home(v)' /\ (Deleting(v)' => Deleting(v))
  <1>1. PICK t \in Tenants \cup {Null} : At(v, t)
    BY DEF Home
  <1>2. UpdatesOf(v)' = UpdatesOf(v)
    BY DEF UpdatesOf
  <1>3. At(v, t)'
    BY <1>1, <1>2 DEF At, TargetsStay
  <1>4. Deleting(v)' => Deleting(v)
    BY DEF Deleting, TargetsStay
  <1> QED BY <1>1, <1>3, <1>4 DEF Home

LEMMA OneRemovalStays ==
    ASSUME NEW d \in Removals, removal[d] # Null, removal'[d] # Null,
           removal'[d].targets = removal[d].targets, removal'[d].tenant = removal[d].tenant,
           \A e \in Removals : e # d => removal'[e] = removal[e], dismissal' = dismissal
    PROVE  /\ TargetsStay
           /\ \A e \in Removals : removal[e] # Null => removal'[e] # Null
           /\ \A t \in Tenants : dismissal[t] # Null => dismissal'[t] # Null
  <1>1. ASSUME NEW e \in Removals, removal'[e] # Null
        PROVE  /\ removal[e] # Null /\ removal'[e].targets = removal[e].targets
               /\ removal'[e].tenant = removal[e].tenant
    <2>1. CASE e = d
      BY <2>1
    <2>2. CASE e # d
      BY <1>1, <2>2
    <2> QED BY <2>1, <2>2
  <1>2. ASSUME NEW e \in Removals, removal[e] # Null PROVE removal'[e] # Null
    <2>1. CASE e = d
      BY <2>1
    <2>2. CASE e # d
      BY <1>2, <2>2
    <2> QED BY <2>1, <2>2
  <1> QED BY <1>1, <1>2 DEF TargetsStay

LEMMA OneDismissalStays ==
    ASSUME NEW t \in Tenants, dismissal[t] # Null, dismissal'[t] # Null,
           dismissal'[t].targets = dismissal[t].targets,
           \A s \in Tenants : s # t => dismissal'[s] = dismissal[s], removal' = removal
    PROVE  /\ TargetsStay
           /\ \A e \in Removals : removal[e] # Null => removal'[e] # Null
           /\ \A s \in Tenants : dismissal[s] # Null => dismissal'[s] # Null
  <1>1. ASSUME NEW s \in Tenants, dismissal'[s] # Null
        PROVE  dismissal[s] # Null /\ dismissal'[s].targets = dismissal[s].targets
    <2>1. CASE s = t
      BY <2>1
    <2>2. CASE s # t
      BY <1>1, <2>2
    <2> QED BY <2>1, <2>2
  <1>2. ASSUME NEW s \in Tenants, dismissal[s] # Null PROVE dismissal'[s] # Null
    <2>1. CASE s = t
      BY <2>1
    <2>2. CASE s # t
      BY <1>2, <2>2
    <2> QED BY <2>1, <2>2
  <1> QED BY <1>1, <1>2 DEF TargetsStay

\* Keycloak answers or refuses the deletion of an account.
LEMMA CallStep ==
    ASSUME IInv, TypeOK', TargetsStay,
           UNCHANGED <<tenants, users, group, creation, update, unborn, unfounded, refused,
                       severed, crossed, halted, revived, calm, aligned, undoing, unheard>>,
           \A d \in Removals : removal[d] # Null => removal'[d] # Null,
           \A t \in Tenants : dismissal[t] # Null => dismissal'[t] # Null,
           \A v \in Users : account'[v] = account[v] \/ (account'[v] = Null /\ Deleting(v)),
           \A v \in Users : Cleared(v)'
    PROVE  IInv'
  <1>1. TypeOK /\ Unused
    BY DEF IInv
  <1>2. ASSUME NEW v \in Users
        PROVE  /\ DeletionMoves(v)
               /\ Home(v)' /\ Linked(v)' /\ Missed(v)' /\ Overlapping(v)' /\ Grouped(v)'
    <2>1. UserInv(v)
      BY DEF IInv
    <2>2. Home(v)' /\ (Deleting(v)' => Deleting(v))
      BY <2>1, HomeStays DEF UserInv
    <2>3. Deleting(v) => Deleting(v)'
      BY DEF Deleting, TargetsStay
    <2>4. UpdatesOf(v)' = UpdatesOf(v)
      BY DEF UpdatesOf
    <2>5. DeletionMoves(v)
      BY <2>2 DEF DeletionMoves
    <2>6. Linked(v)'
      BY <2>1 DEF UserInv, Linked
    <2>7. Missed(v)'
      BY <2>1, <2>2, <2>3, <2>4 DEF UserInv, Missed, Excused
    <2>8. Overlapping(v)'
      BY <2>1 DEF UserInv, Overlapping, TargetsStay
    <2>9. Grouped(v)'
      <3>1. creation[v] # Null => account'[v] = account[v]
        BY <2>1 DEF UserInv, Young
      <3> QED BY <2>1, <3>1 DEF UserInv, Grouped
    <2> QED BY <2>2, <2>5, <2>6, <2>7, <2>8, <2>9
  <1>3. \A t \in unfounded : dismissal'[t] = Null
    BY <1>1, TypeParts DEF Unused, TargetsStay
  <1> QED BY <1>2, <1>3, DeletionStep

LEMMA RemoveAccountStep ==
    ASSUME IInv, NEW d \in Removals, NEW u \in Users, RemoveAccount(d, u)
    PROVE  IInv'
  <1>1. TypeOK /\ removal[d] # Null /\ u \in removal[d].todo
    BY DEF IInv, RemoveAccount
  <1>2. UNCHANGED <<tenants, users, group, made, unfounded, unborn, creation, update,
                    dismissal, failures, edits, refused, severed, crossed, halted, revived,
                    calm, aligned, undoing, unheard>>
    BY DEF RemoveAccount, histories
  <1>3. /\ account' \in AccountMaps /\ account'[u] = Null
        /\ \A v \in Users : v # u => account'[v] = account[v]
    BY <1>1, TypeParts DEF RemoveAccount, AccountMaps
  <1>4. /\ removal' \in RemovalMaps
        /\ removal'[d] # Null /\ removal'[d].todo = removal[d].todo \ {u}
        /\ removal'[d].failed = removal[d].failed
        /\ removal'[d].targets = removal[d].targets /\ removal'[d].tenant = removal[d].tenant
        /\ \A e \in Removals : e # d => removal'[e] = removal[e]
    <2>1. RemovalAnswered(d, u)
      BY DEF RemoveAccount, RemovalAnswered
    <2> QED BY <1>1, <2>1, RemovalAnsweredGoes, TypeParts
  <1>5. TypeOK'
    BY <1>1, <1>2, <1>3, <1>4, TypeParts
       DEF TypeOK, AccountMaps, Creations, UpdateMaps, RemovalMaps, DismissalMaps
  <1>6. /\ TargetsStay
        /\ \A e \in Removals : removal[e] # Null => removal'[e] # Null
        /\ \A s \in Tenants : dismissal[s] # Null => dismissal'[s] # Null
    BY <1>1, <1>2, <1>4, OneRemovalStays
  <1>7. removal[d].todo \subseteq removal[d].targets
    BY <1>1 DEF IInv, UserInv, Cleared
  <1>8. Deleting(u)
    BY <1>1, <1>7 DEF Deleting
  <1>9. ASSUME NEW v \in Users PROVE Cleared(v)'
    <2>1. Cleared(v)
      BY DEF IInv, UserInv
    <2>2. account[v] = Null => account'[v] = Null
      BY <1>3
    <2>3. \A e \in Removals : removal'[e] # Null =>
            /\ removal'[e].todo \subseteq removal'[e].targets
            /\ v \in removal'[e].targets \ removal'[e].todo /\ ~ removal'[e].failed =>
                 account'[v] = Null
      BY <1>1, <1>3, <1>4, <2>1, <2>2 DEF Cleared
    <2>4. \A t \in Tenants : dismissal'[t] # Null =>
            /\ dismissal'[t].todo \subseteq dismissal'[t].targets
            /\ v \in dismissal'[t].targets \ dismissal'[t].todo /\ ~ dismissal'[t].failed =>
                 account'[v] = Null
            /\ dismissal'[t].pc = "closing" => dismissal'[t].todo = {} /\ ~ dismissal'[t].failed
      BY <1>2, <2>1, <2>2 DEF Cleared
    <2> QED BY <2>3, <2>4 DEF Cleared
  <1>10. \A v \in Users : account'[v] = account[v] \/ (account'[v] = Null /\ Deleting(v))
    BY <1>3, <1>8
  <1> QED BY <1>2, <1>5, <1>6, <1>9, <1>10, CallStep

LEMMA RefuseRemovalStep ==
    ASSUME IInv, NEW d \in Removals, NEW u \in Users, RefuseRemoval(d, u)
    PROVE  IInv'
  <1>1. TypeOK /\ removal[d] # Null /\ u \in removal[d].todo
    BY DEF IInv, RefuseRemoval
  <1>2. UNCHANGED <<tenants, users, account, group, made, unfounded, unborn, creation, update,
                    dismissal, edits, refused, severed, crossed, halted, revived, calm, aligned,
                    undoing, unheard>>
    BY DEF RefuseRemoval, histories
  <1>3. failures' \in 0 .. MaxFailures
    BY <1>1, BoundsAssumption, TypeParts DEF RefuseRemoval, Fail
  <1>4. /\ removal' \in RemovalMaps
        /\ removal'[d] # Null /\ removal'[d].todo = removal[d].todo \ {u}
        /\ removal'[d].failed
        /\ removal'[d].targets = removal[d].targets /\ removal'[d].tenant = removal[d].tenant
        /\ \A e \in Removals : e # d => removal'[e] = removal[e]
    <2>1. RemovalRefused(d, u)
      BY DEF RefuseRemoval, RemovalRefused
    <2> QED BY <1>1, <2>1, RemovalRefusedGoes, TypeParts
  <1>5. TypeOK'
    BY <1>1, <1>2, <1>3, <1>4, TypeParts
       DEF TypeOK, AccountMaps, Creations, UpdateMaps, RemovalMaps, DismissalMaps
  <1>6. /\ TargetsStay
        /\ \A e \in Removals : removal[e] # Null => removal'[e] # Null
        /\ \A s \in Tenants : dismissal[s] # Null => dismissal'[s] # Null
    BY <1>1, <1>2, <1>4, OneRemovalStays
  <1>7. ASSUME NEW v \in Users PROVE Cleared(v)'
    <2>1. Cleared(v)
      BY DEF IInv, UserInv
    <2> QED BY <1>1, <1>2, <1>4, <2>1 DEF Cleared
  <1>8. \A v \in Users : account'[v] = account[v]
    BY <1>2
  <1> QED BY <1>2, <1>5, <1>6, <1>7, <1>8, CallStep

LEMMA DismissAccountStep ==
    ASSUME IInv, NEW t \in Tenants, NEW u \in Users, DismissAccount(t, u)
    PROVE  IInv'
  <1>1. TypeOK /\ dismissal[t] # Null /\ u \in dismissal[t].todo
    BY DEF IInv, DismissAccount
  <1>2. UNCHANGED <<tenants, users, group, made, unfounded, unborn, creation, update, removal,
                    failures, edits, refused, severed, crossed, halted, revived, calm, aligned,
                    undoing, unheard>>
    BY DEF DismissAccount, histories
  <1>3. /\ account' \in AccountMaps /\ account'[u] = Null
        /\ \A v \in Users : v # u => account'[v] = account[v]
    BY <1>1, TypeParts DEF DismissAccount, AccountMaps
  <1> DEFINE x == dismissal[t]
  <1>4. /\ dismissal' \in DismissalMaps
        /\ dismissal'[t] # Null /\ dismissal'[t].todo = x.todo \ {u}
        /\ dismissal'[t].failed = x.failed /\ dismissal'[t].pc = x.pc
        /\ dismissal'[t].targets = x.targets
        /\ \A s \in Tenants : s # t => dismissal'[s] = dismissal[s]
    <2>1. DismissalAnswered(t, u)
      BY DEF DismissAccount, DismissalAnswered
    <2> QED BY <1>1, <2>1, DismissalAnsweredGoes, TypeParts
  <1>5. TypeOK'
    BY <1>1, <1>2, <1>3, <1>4, TypeParts
       DEF TypeOK, AccountMaps, Creations, UpdateMaps, RemovalMaps, DismissalMaps
  <1>6. /\ TargetsStay
        /\ \A e \in Removals : removal[e] # Null => removal'[e] # Null
        /\ \A s \in Tenants : dismissal[s] # Null => dismissal'[s] # Null
    BY <1>1, <1>2, <1>4, OneDismissalStays
  <1>7. Deleting(u)
    <2>1. x.todo \subseteq x.targets
      BY <1>1 DEF IInv, UserInv, Cleared
    <2> QED BY <1>1, <2>1 DEF Deleting
  <1>8. ASSUME NEW v \in Users PROVE Cleared(v)'
    <2>1. Cleared(v)
      BY DEF IInv, UserInv
    <2>2. account[v] = Null => account'[v] = Null
      BY <1>3
    <2>3. \A s \in Tenants : dismissal'[s] # Null =>
            /\ dismissal'[s].todo \subseteq dismissal'[s].targets
            /\ v \in dismissal'[s].targets \ dismissal'[s].todo /\ ~ dismissal'[s].failed =>
                 account'[v] = Null
            /\ dismissal'[s].pc = "closing" => dismissal'[s].todo = {} /\ ~ dismissal'[s].failed
      BY <1>1, <1>3, <1>4, <2>1, <2>2 DEF Cleared
    <2>4. \A d \in Removals : removal'[d] # Null =>
            /\ removal'[d].todo \subseteq removal'[d].targets
            /\ v \in removal'[d].targets \ removal'[d].todo /\ ~ removal'[d].failed =>
                 account'[v] = Null
      BY <1>2, <2>1, <2>2 DEF Cleared
    <2> QED BY <2>3, <2>4 DEF Cleared
  <1>9. \A v \in Users : account'[v] = account[v] \/ (account'[v] = Null /\ Deleting(v))
    BY <1>3, <1>7
  <1> QED BY <1>2, <1>5, <1>6, <1>8, <1>9, CallStep

LEMMA RefuseDismissalStep ==
    ASSUME IInv, NEW t \in Tenants, NEW u \in Users, RefuseDismissal(t, u)
    PROVE  IInv'
  <1>1. TypeOK /\ dismissal[t] # Null /\ u \in dismissal[t].todo
    BY DEF IInv, RefuseDismissal
  <1>2. UNCHANGED <<tenants, users, account, group, made, unfounded, unborn, creation, update,
                    removal, edits, refused, severed, crossed, halted, revived, calm, aligned,
                    undoing, unheard>>
    BY DEF RefuseDismissal, histories
  <1>3. failures' \in 0 .. MaxFailures
    BY <1>1, BoundsAssumption, TypeParts DEF RefuseDismissal, Fail
  <1> DEFINE x == dismissal[t]
  <1>4. /\ dismissal' \in DismissalMaps
        /\ dismissal'[t] # Null /\ dismissal'[t].todo = x.todo \ {u}
        /\ dismissal'[t].failed /\ dismissal'[t].pc = x.pc
        /\ dismissal'[t].targets = x.targets
        /\ \A s \in Tenants : s # t => dismissal'[s] = dismissal[s]
    <2>1. DismissalRefused(t, u)
      BY DEF RefuseDismissal, DismissalRefused
    <2> QED BY <1>1, <2>1, DismissalRefusedGoes, TypeParts
  <1>5. TypeOK'
    BY <1>1, <1>2, <1>3, <1>4, TypeParts
       DEF TypeOK, AccountMaps, Creations, UpdateMaps, RemovalMaps, DismissalMaps
  <1>6. /\ TargetsStay
        /\ \A e \in Removals : removal[e] # Null => removal'[e] # Null
        /\ \A s \in Tenants : dismissal[s] # Null => dismissal'[s] # Null
    BY <1>1, <1>2, <1>4, OneDismissalStays
  <1>7. ASSUME NEW v \in Users PROVE Cleared(v)'
    <2>1. Cleared(v)
      BY DEF IInv, UserInv
    <2>2. \A s \in Tenants : dismissal'[s] # Null =>
            /\ dismissal'[s].todo \subseteq dismissal'[s].targets
            /\ v \in dismissal'[s].targets \ dismissal'[s].todo /\ ~ dismissal'[s].failed =>
                 account'[v] = Null
            /\ dismissal'[s].pc = "closing" => dismissal'[s].todo = {} /\ ~ dismissal'[s].failed
      BY <1>1, <1>2, <1>4, <2>1 DEF Cleared
    <2> QED BY <1>2, <2>1, <2>2 DEF Cleared
  <1>8. \A v \in Users : account'[v] = account[v]
    BY <1>2
  <1> QED BY <1>2, <1>5, <1>6, <1>7, <1>8, CallStep

\* A deletion begins with rows of its tenant, and with none of its calls made.
LEMMA StartRemovalStep ==
    ASSUME IInv, NEW d \in Removals, NEW t \in Tenants, NEW ids \in SUBSET Users,
           NEW requester, StartRemoval(d, t, ids, requester)
    PROVE  IInv'
  <1> DEFINE targets == UsersToDelete(t, ids, requester)
             x == [targets |-> targets, failed |-> FALSE, tenant |-> t, todo |-> targets]
  <1>1. TypeOK /\ Unused /\ removal[d] = Null
    BY DEF IInv, StartRemoval
  <1>2. UNCHANGED <<tenants, users, account, group, made, unfounded, unborn, creation, update,
                    dismissal, failures, edits, refused, severed, crossed, halted, calm,
                    aligned, undoing, unheard>>
    BY DEF StartRemoval
  <1>3. /\ targets \in SUBSET Users
        /\ \A v \in targets : users[v] # Null /\ users[v].tenant = t
    BY DEF UsersToDelete
  <1>4. removal' = [removal EXCEPT ![d] = x]
    BY DEF StartRemoval, AccountsToDelete
  <1>5. revived' = revived \cup {v \in targets : UpdatesOf(v) # {}}
    BY DEF StartRemoval
  <1> HIDE DEF targets
  <1>6. /\ x \in Removal /\ x.targets = targets /\ x.todo = targets /\ x.tenant = t
        /\ ~ x.failed
    BY <1>3 DEF Removal
  <1> HIDE DEF x
  <1>7. /\ removal' \in RemovalMaps /\ removal'[d] = x /\ x # Null
        /\ \A e \in Removals : e # d => removal'[e] = removal[e]
    BY <1>1, <1>4, <1>6, TypeParts, NullAssumption DEF RemovalMaps
  <1>8. TypeOK'
    BY <1>1, <1>2, <1>3, <1>5, <1>7, TypeParts
       DEF TypeOK, AccountMaps, Creations, UpdateMaps, RemovalMaps, DismissalMaps
  <1>9. ASSUME NEW v \in Users
        PROVE  /\ DeletionMoves(v)
               /\ Home(v)' /\ Linked(v)' /\ Cleared(v)' /\ Missed(v)' /\ Overlapping(v)'
               /\ Grouped(v)'
    <2>1. UserInv(v)
      BY DEF IInv
    <2>2. UpdatesOf(v)' = UpdatesOf(v)
      BY <1>2 DEF UpdatesOf
    <2>3. Deleting(v)' <=> Deleting(v) \/ v \in targets
      BY <1>1, <1>2, <1>6, <1>7 DEF Deleting
    <2>4. DeletionMoves(v)
      BY <1>2, <1>3, <2>3 DEF DeletionMoves
    <2>5. Home(v)'
      <3>1. PICK s \in Tenants \cup {Null} : At(v, s)
        BY <2>1 DEF UserInv, Home
      <3>2. v \in targets => t = s
        BY <1>3, <3>1 DEF At
      <3>3. \A e \in Removals : removal'[e] # Null /\ v \in removal'[e].targets =>
              removal'[e].tenant = s
        BY <1>6, <1>7, <3>1, <3>2 DEF At
      <3>4. At(v, s)'
        BY <1>2, <2>2, <3>1, <3>3 DEF At
      <3> QED BY <3>1, <3>4 DEF Home
    <2>6. Linked(v)' /\ Overlapping(v)' /\ Grouped(v)'
      BY <1>2, <2>1 DEF UserInv, Linked, Overlapping, Grouped
    <2>7. Cleared(v)'
      <3>1. \A e \in Removals : removal'[e] # Null =>
              /\ removal'[e].todo \subseteq removal'[e].targets
              /\ v \in removal'[e].targets \ removal'[e].todo /\ ~ removal'[e].failed =>
                   account'[v] = Null
        BY <1>2, <1>6, <1>7, <2>1 DEF UserInv, Cleared
      <3> QED BY <1>2, <2>1, <3>1 DEF UserInv, Cleared
    <2>8. Missed(v)'
      BY <1>2, <1>5, <2>1, <2>2, <2>3 DEF UserInv, Missed, Excused
    <2> QED BY <2>4, <2>5, <2>6, <2>7, <2>8
  <1>10. \A s \in unfounded : dismissal'[s] = Null
    BY <1>1, <1>2 DEF Unused
  <1> QED BY <1>2, <1>8, <1>9, <1>10, DeletionStep

\* A deletion that ends: either its users are excused, or they are gone.
LEMMA EndStep ==
    ASSUME IInv, TypeOK', TargetsStay,
           UNCHANGED <<account, group, creation, update, unborn, unfounded, refused, severed,
                       crossed, revived, calm, aligned, undoing, unheard>>,
           tenants' \subseteq tenants, halted \subseteq halted',
           \A d \in Removals : removal'[d] # Null => removal'[d] = removal[d],
           \A t \in Tenants : dismissal'[t] # Null => dismissal'[t] = dismissal[t],
           \A v \in Users :
             /\ \/ users'[v] = users[v]
                \/ users'[v] = Null /\ (account[v] = Null \/ v \in crossed)
             /\ Deleting(v) => Deleting(v)' \/ v \in halted' \/ users'[v] = Null
             /\ Linked(v)' /\ Grouped(v)'
    PROVE  IInv'
  <1>1. TypeOK /\ Unused
    BY DEF IInv
  <1>2. ASSUME NEW v \in Users
        PROVE  /\ DeletionMoves(v)
               /\ Home(v)' /\ Cleared(v)' /\ Missed(v)' /\ Overlapping(v)'
    <2>1. UserInv(v)
      BY DEF IInv
    <2>2. Home(v)' /\ (Deleting(v)' => Deleting(v))
      BY <2>1, HomeStays DEF UserInv
    <2>3. UpdatesOf(v)' = UpdatesOf(v)
      BY DEF UpdatesOf
    <2>4. DeletionMoves(v)
      BY <2>2 DEF DeletionMoves
    <2>5. Cleared(v)'
      BY <2>1 DEF UserInv, Cleared
    <2>6. users'[v] # Null => users'[v] = users[v]
      OBVIOUS
    <2>7. Missed(v)'
      <3>1. Deleting(v)' /\ UpdatesOf(v)' # {} => v \in revived'
        BY <2>1, <2>2, <2>3 DEF UserInv, Missed
      <3>2. ASSUME users'[v] # Null \/ UpdatesOf(v)' # {}, account'[v] = Null
            PROVE  Excused(v)'
        <4>1. Excused(v)
          BY <2>1, <2>3, <2>6, <3>2 DEF UserInv, Missed
        <4>2. CASE v \in halted \/ v \in revived
          BY <4>2 DEF Excused
        <4>3. CASE Deleting(v) /\ UpdatesOf(v) # {}
          BY <2>1, <4>3 DEF UserInv, Missed, Excused
        <4>4. CASE Deleting(v) /\ users'[v] # Null
          BY <4>4 DEF Excused
        <4> QED BY <2>3, <3>2, <4>1, <4>2, <4>3, <4>4 DEF Excused
      <3> QED BY <3>1, <3>2 DEF Missed
    <2>8. Overlapping(v)'
      BY <2>1, <2>6 DEF UserInv, Overlapping
    <2> QED BY <2>2, <2>4, <2>5, <2>7, <2>8
  <1>3. \A t \in unfounded : dismissal'[t] = Null
    BY <1>1, TypeParts DEF Unused, TargetsStay
  <1> QED BY <1>2, <1>3, DeletionStep

LEMMA RemovalEnds ==
    ASSUME TypeOK, NEW d \in Removals, removal[d] # Null,
           removal' = [removal EXCEPT ![d] = Null], dismissal' = dismissal
    PROVE  /\ removal' \in RemovalMaps /\ removal'[d] = Null
           /\ \A e \in Removals : removal'[e] # Null => removal'[e] = removal[e]
           /\ TargetsStay
           /\ \A v \in Users : Deleting(v) => Deleting(v)' \/ v \in removal[d].targets
  <1>1. /\ removal' \in RemovalMaps /\ removal'[d] = Null
        /\ \A e \in Removals : e # d => removal'[e] = removal[e]
    BY TypeParts DEF RemovalMaps
  <1>2. \A e \in Removals : removal'[e] # Null => removal'[e] = removal[e]
    BY <1>1
  <1>3. TargetsStay
    BY <1>1, <1>2 DEF TargetsStay
  <1>4. ASSUME NEW v \in Users, Deleting(v), ~ Deleting(v)' PROVE v \in removal[d].targets
    BY <1>1, <1>4 DEF Deleting
  <1> QED BY <1>1, <1>2, <1>3, <1>4

LEMMA DismissalEnds ==
    ASSUME TypeOK, NEW t \in Tenants, dismissal[t] # Null,
           dismissal' = [dismissal EXCEPT ![t] = Null], removal' = removal
    PROVE  /\ dismissal' \in DismissalMaps /\ dismissal'[t] = Null
           /\ \A s \in Tenants : dismissal'[s] # Null => dismissal'[s] = dismissal[s]
           /\ TargetsStay
           /\ \A v \in Users : Deleting(v) => Deleting(v)' \/ v \in dismissal[t].targets
  <1>1. /\ dismissal' \in DismissalMaps /\ dismissal'[t] = Null
        /\ \A s \in Tenants : s # t => dismissal'[s] = dismissal[s]
    BY TypeParts DEF DismissalMaps
  <1>2. \A s \in Tenants : dismissal'[s] # Null => dismissal'[s] = dismissal[s]
    BY <1>1
  <1>3. TargetsStay
    BY <1>1, <1>2 DEF TargetsStay
  <1>4. ASSUME NEW v \in Users, Deleting(v), ~ Deleting(v)' PROVE v \in dismissal[t].targets
    BY <1>1, <1>4 DEF Deleting
  <1> QED BY <1>1, <1>2, <1>3, <1>4

LEMMA FinishRemovalStep ==
    ASSUME IInv, NEW d \in Removals, FinishRemoval(d)
    PROVE  IInv'
  <1> DEFINE x == removal[d]
  <1>1. TypeOK /\ x # Null /\ x.todo = {} /\ removal' = [removal EXCEPT ![d] = Null]
    BY DEF IInv, FinishRemoval
  <1>2. UNCHANGED <<tenants, account, group, made, unfounded, unborn, creation, update,
                    dismissal, failures, edits, refused, severed, crossed, revived, calm,
                    aligned, undoing, unheard>>
    BY DEF FinishRemoval
  <1>3. /\ removal' \in RemovalMaps
        /\ \A e \in Removals : removal'[e] # Null => removal'[e] = removal[e]
        /\ TargetsStay
        /\ \A v \in Users : Deleting(v) => Deleting(v)' \/ v \in x.targets
    BY <1>1, <1>2, RemovalEnds
  <1>4. x.targets \in SUBSET Users
    BY <1>1, RemovalParts, TypeParts
  <1>5. CASE x.failed
    <2>1. halted' = halted \cup x.targets /\ users' = users
      BY <1>5 DEF FinishRemoval
    <2>2. TypeOK'
      BY <1>1, <1>2, <1>3, <1>4, <2>1, TypeParts
         DEF TypeOK, AccountMaps, Creations, UpdateMaps, RemovalMaps, DismissalMaps
    <2>3. ASSUME NEW v \in Users PROVE Linked(v)' /\ Grouped(v)'
      BY <1>2, <2>1 DEF IInv, UserInv, Linked, Grouped
    <2>4. \A t \in Tenants : dismissal'[t] # Null => dismissal'[t] = dismissal[t]
      BY <1>2
    <2> QED BY <1>2, <1>3, <2>1, <2>2, <2>3, <2>4, EndStep
  <1>6. CASE ~ x.failed
    <2>1. /\ halted' = halted
          /\ users' = [v \in Users |->
                         IF v \in x.targets /\ users[v] # Null /\ users[v].tenant = x.tenant
                         THEN Null ELSE users[v]]
      BY <1>6 DEF FinishRemoval
    <2>2. users' \in [Users -> UserRow \cup {Null}]
      BY <1>1, <2>1, TypeParts
    <2>3. TypeOK'
      BY <1>1, <1>2, <1>3, <2>1, <2>2, TypeParts
         DEF TypeOK, AccountMaps, Creations, UpdateMaps, RemovalMaps, DismissalMaps
    <2>4. ASSUME NEW v \in Users
          PROVE  /\ \/ users'[v] = users[v]
                    \/ users'[v] = Null /\ (account[v] = Null \/ v \in crossed)
                 /\ Deleting(v) => Deleting(v)' \/ v \in halted' \/ users'[v] = Null
                 /\ Linked(v)' /\ Grouped(v)'
      <3>1. UserInv(v)
        BY DEF IInv
      <3>2. v \in x.targets => account[v] = Null
        BY <1>1, <1>6, <3>1 DEF UserInv, Cleared
      <3>3. v \in x.targets => users'[v] = Null
        BY <1>1, <2>1, <3>1 DEF UserInv, Home, At
      <3>4. v \notin x.targets => users'[v] = users[v]
        BY <2>1
      <3>5. users'[v] # Null => users'[v] = users[v]
        BY <3>3, <3>4
      <3>6. Linked(v)' /\ Grouped(v)'
        BY <1>2, <3>1, <3>5 DEF UserInv, Linked, Grouped
      <3> QED BY <1>3, <3>2, <3>3, <3>4, <3>6
    <2>5. \A t \in Tenants : dismissal'[t] # Null => dismissal'[t] = dismissal[t]
      BY <1>2
    <2> QED BY <1>2, <1>3, <2>1, <2>3, <2>4, <2>5, EndStep
  <1> QED BY <1>5, <1>6

LEMMA AbandonRemovalStep ==
    ASSUME IInv, NEW d \in Removals, AbandonRemoval(d)
    PROVE  IInv'
  <1> DEFINE x == removal[d]
  <1>1. TypeOK /\ x # Null /\ removal' = [removal EXCEPT ![d] = Null]
    BY DEF IInv, AbandonRemoval
  <1>2. /\ UNCHANGED <<tenants, users, account, group, made, unfounded, unborn, creation,
                       update, dismissal, edits, refused, severed, crossed, revived, calm,
                       aligned, undoing, unheard>>
        /\ halted' = halted \cup x.targets
    BY DEF AbandonRemoval
  <1>3. failures' \in 0 .. MaxFailures
    BY <1>1, BoundsAssumption, TypeParts DEF AbandonRemoval, Fail
  <1>4. /\ removal' \in RemovalMaps
        /\ \A e \in Removals : removal'[e] # Null => removal'[e] = removal[e]
        /\ TargetsStay
        /\ \A v \in Users : Deleting(v) => Deleting(v)' \/ v \in x.targets
    BY <1>1, <1>2, RemovalEnds
  <1>5. x.targets \in SUBSET Users
    BY <1>1, RemovalParts, TypeParts
  <1>6. TypeOK'
    BY <1>1, <1>2, <1>3, <1>4, <1>5, TypeParts
       DEF TypeOK, AccountMaps, Creations, UpdateMaps, RemovalMaps, DismissalMaps
  <1>7. ASSUME NEW v \in Users PROVE Linked(v)' /\ Grouped(v)'
    BY <1>2 DEF IInv, UserInv, Linked, Grouped
  <1>8. \A t \in Tenants : dismissal'[t] # Null => dismissal'[t] = dismissal[t]
    BY <1>2
  <1> QED BY <1>2, <1>4, <1>6, <1>7, <1>8, EndStep

LEMMA StartDismissalStep ==
    ASSUME IInv, NEW t \in Tenants, StartDismissal(t)
    PROVE  IInv'
  <1> DEFINE targets == {v \in Users : users[v] # Null /\ users[v].tenant = t}
             x == [targets |-> targets, todo |-> targets, failed |-> FALSE, pc |-> "accounts"]
  <1>1. TypeOK /\ Unused /\ dismissal[t] = Null /\ t \in tenants
    BY DEF IInv, StartDismissal
  <1>2. UNCHANGED <<tenants, users, account, group, made, unfounded, unborn, creation, update,
                    removal, failures, edits, refused, severed, halted, calm, aligned,
                    undoing, unheard>>
    BY DEF StartDismissal
  <1>3. /\ targets \in SUBSET Users
        /\ \A v \in Users : v \in targets <=> users[v] # Null /\ users[v].tenant = t
    OBVIOUS
  <1>4. dismissal' = [dismissal EXCEPT ![t] = x]
    BY DEF StartDismissal
  <1>5. revived' = revived \cup {v \in targets : UpdatesOf(v) # {}}
    BY DEF StartDismissal
  <1>6. crossed' = crossed \cup {v \in Users : creation[v] # Null /\ creation[v].tenant = t}
    BY DEF StartDismissal
  <1> HIDE DEF targets
  <1>7. /\ x \in Dismissal /\ x.targets = targets /\ x.todo = targets
        /\ ~ x.failed /\ x.pc = "accounts"
    BY <1>3 DEF Dismissal
  <1> HIDE DEF x
  <1>8. /\ dismissal' \in DismissalMaps /\ dismissal'[t] = x /\ x # Null
        /\ \A s \in Tenants : s # t => dismissal'[s] = dismissal[s]
    BY <1>1, <1>4, <1>7, TypeParts, NullAssumption DEF DismissalMaps
  <1>9. TypeOK'
    BY <1>1, <1>2, <1>3, <1>5, <1>6, <1>8, TypeParts
       DEF TypeOK, AccountMaps, Creations, UpdateMaps, RemovalMaps, DismissalMaps
  <1>10. ASSUME NEW v \in Users
         PROVE  /\ DeletionMoves(v)
                /\ Home(v)' /\ Linked(v)' /\ Cleared(v)' /\ Missed(v)' /\ Overlapping(v)'
                /\ Grouped(v)'
    <2>1. UserInv(v)
      BY DEF IInv
    <2>2. UpdatesOf(v)' = UpdatesOf(v)
      BY <1>2 DEF UpdatesOf
    <2>3. Deleting(v)' <=> Deleting(v) \/ v \in targets
      BY <1>1, <1>2, <1>7, <1>8 DEF Deleting
    <2>4. DeletionMoves(v)
      BY <1>2, <1>3, <2>3 DEF DeletionMoves
    <2>5. Home(v)'
      <3>1. PICK h \in Tenants \cup {Null} : At(v, h)
        BY <2>1 DEF UserInv, Home
      <3>2. v \in targets => t = h
        BY <1>3, <3>1 DEF At
      <3>3. \A s \in Tenants : dismissal'[s] # Null /\ v \in dismissal'[s].targets => s = h
        BY <1>7, <1>8, <3>1, <3>2 DEF At
      <3>4. At(v, h)'
        BY <1>2, <2>2, <3>1, <3>3 DEF At
      <3> QED BY <3>1, <3>4 DEF Home
    <2>6. Linked(v)' /\ Grouped(v)'
      BY <1>2, <1>6, <2>1 DEF UserInv, Linked, Grouped
    <2>7. Cleared(v)'
      <3>1. \A s \in Tenants : dismissal'[s] # Null =>
              /\ dismissal'[s].todo \subseteq dismissal'[s].targets
              /\ v \in dismissal'[s].targets \ dismissal'[s].todo /\ ~ dismissal'[s].failed =>
                   account'[v] = Null
              /\ dismissal'[s].pc = "closing" => dismissal'[s].todo = {} /\ ~ dismissal'[s].failed
        BY <1>2, <1>7, <1>8, <2>1 DEF UserInv, Cleared
      <3> QED BY <1>2, <2>1, <3>1 DEF UserInv, Cleared
    <2>8. Missed(v)'
      BY <1>2, <1>5, <2>1, <2>2, <2>3 DEF UserInv, Missed, Excused
    <2>9. Overlapping(v)'
      <3> SUFFICES ASSUME NEW s \in Tenants, dismissal'[s] # Null, v \notin crossed'
                   PROVE  /\ creation[v] # Null => creation[v].tenant # s
                          /\ users[v] # Null /\ users[v].tenant = s /\ account[v] # Null =>
                               v \in dismissal'[s].targets
        BY <1>2 DEF Overlapping
      <3>1. CASE s = t
        BY <1>3, <1>6, <1>7, <1>8, <3>1
      <3>2. CASE s # t
        BY <1>6, <1>8, <2>1, <3>2 DEF UserInv, Overlapping
      <3> QED BY <3>1, <3>2
    <2> QED BY <2>4, <2>5, <2>6, <2>7, <2>8, <2>9
  <1>11. \A s \in unfounded : dismissal'[s] = Null
    BY <1>1, <1>8, TypeParts DEF Unused
  <1> QED BY <1>2, <1>6, <1>9, <1>10, <1>11, DeletionStep

\* The group goes when no account is left that should be in it.
LEMMA DeleteGroupStep ==
    ASSUME IInv, NEW t \in Tenants, DeleteGroup(t)
    PROVE  IInv'
  <1> DEFINE x == dismissal[t]
  <1>1. TypeOK /\ Unused /\ x # Null /\ x.todo = {} /\ ~ x.failed
    BY DEF IInv, DeleteGroup, AccountsAreDeleted
  <1>2. UNCHANGED <<tenants, users, account, made, unfounded, unborn, creation, update,
                    removal, edits, refused, severed, crossed, halted, revived, calm, aligned,
                    undoing, unheard>>
    BY DEF DeleteGroup, histories
  <1>3. /\ dismissal' \in DismissalMaps
        /\ dismissal'[t] # Null /\ dismissal'[t].todo = x.todo
        /\ dismissal'[t].failed = x.failed /\ dismissal'[t].pc = "closing"
        /\ dismissal'[t].targets = x.targets
        /\ \A s \in Tenants : s # t => dismissal'[s] = dismissal[s]
    <2>1. DismissalCloses(t)
      BY DEF DeleteGroup, DismissalCloses
    <2> QED BY <1>1, <2>1, DismissalClosesGoes, TypeParts
  <1>4. failures' \in 0 .. MaxFailures
    BY <1>1, BoundsAssumption, TypeParts DEF DeleteGroup, Fail
  <1>5. group' \in [Tenants -> Nat] /\ \A s \in Tenants : s # t => group'[s] = group[s]
    BY <1>1, TypeParts DEF DeleteGroup
  <1>6. TypeOK'
    BY <1>1, <1>2, <1>3, <1>4, <1>5, TypeParts
       DEF TypeOK, AccountMaps, Creations, UpdateMaps, RemovalMaps, DismissalMaps
  <1>7. TargetsStay
    BY <1>1, <1>2, <1>3, OneDismissalStays
  <1>8. ASSUME NEW v \in Users
        PROVE  /\ DeletionMoves(v)
               /\ Home(v)' /\ Linked(v)' /\ Cleared(v)' /\ Missed(v)' /\ Overlapping(v)'
               /\ Grouped(v)'
    <2>1. UserInv(v)
      BY DEF IInv
    <2>2. Home(v)' /\ (Deleting(v)' => Deleting(v))
      BY <1>2, <1>7, <2>1, HomeStays DEF UserInv
    <2>3. Deleting(v) => Deleting(v)'
      <3>1. \A s \in Tenants : dismissal[s] # Null => dismissal'[s] # Null
        BY <1>1, <1>2, <1>3, OneDismissalStays
      <3> QED BY <1>2, <1>7, <3>1 DEF Deleting, TargetsStay
    <2>4. UpdatesOf(v)' = UpdatesOf(v)
      BY <1>2 DEF UpdatesOf
    <2>5. DeletionMoves(v)
      BY <1>2, <2>2 DEF DeletionMoves
    <2>6. Linked(v)'
      BY <1>2, <2>1 DEF UserInv, Linked
    <2>7. Cleared(v)'
      <3>1. \A s \in Tenants : dismissal'[s] # Null =>
              /\ dismissal'[s].todo \subseteq dismissal'[s].targets
              /\ v \in dismissal'[s].targets \ dismissal'[s].todo /\ ~ dismissal'[s].failed =>
                   account'[v] = Null
              /\ dismissal'[s].pc = "closing" => dismissal'[s].todo = {} /\ ~ dismissal'[s].failed
        BY <1>1, <1>2, <1>3, <2>1 DEF UserInv, Cleared
      <3> QED BY <1>2, <2>1, <3>1 DEF UserInv, Cleared
    <2>8. Missed(v)'
      BY <1>2, <2>1, <2>2, <2>3, <2>4 DEF UserInv, Missed, Excused
    <2>9. Overlapping(v)'
      BY <1>1, <1>2, <1>3, <2>1 DEF UserInv, Overlapping
    <2>10. v \notin crossed =>
             /\ creation[v] # Null => creation[v].tenant # t
             /\ users[v] # Null /\ account[v] # Null => users[v].tenant # t
      BY <1>1, <2>1 DEF UserInv, Overlapping, Cleared
    <2>11. creation[v] # Null => creation[v].tenant \in Tenants
      BY <1>1, TypeParts, CreationParts
    <2>12. users[v] # Null => users[v].tenant \in Tenants
      BY <1>1, TypeParts DEF UserRow
    <2>13. Grouped(v)'
      BY <1>2, <1>5, <2>1, <2>10, <2>11, <2>12 DEF UserInv, Grouped
    <2> QED BY <2>2, <2>5, <2>6, <2>7, <2>8, <2>9, <2>13
  <1>9. \A s \in unfounded : dismissal'[s] = Null
    BY <1>1, <1>7, TypeParts DEF Unused, TargetsStay
  <1> QED BY <1>2, <1>6, <1>8, <1>9, DeletionStep

LEMMA CommitDismissalStep ==
    ASSUME IInv, NEW t \in Tenants, CommitDismissal(t)
    PROVE  IInv'
  <1> DEFINE x == dismissal[t]
  <1>1. /\ TypeOK /\ x # Null /\ x.pc = "closing"
        /\ dismissal' = [dismissal EXCEPT ![t] = Null]
    BY DEF IInv, CommitDismissal
  <1>2. UNCHANGED <<account, group, made, unfounded, unborn, creation, update, removal,
                    failures, edits, refused, severed, crossed, halted, revived, calm, aligned,
                    undoing, unheard>>
    BY DEF CommitDismissal, histories
  <1>3. /\ dismissal' \in DismissalMaps
        /\ \A s \in Tenants : dismissal'[s] # Null => dismissal'[s] = dismissal[s]
        /\ TargetsStay
        /\ \A v \in Users : Deleting(v) => Deleting(v)' \/ v \in x.targets
    BY <1>1, <1>2, DismissalEnds
  <1>4. /\ tenants' = tenants \ {t}
        /\ users' = [v \in Users |->
                       IF users[v] # Null /\ users[v].tenant = t THEN Null ELSE users[v]]
    BY DEF CommitDismissal
  <1>5. users' \in [Users -> UserRow \cup {Null}]
    BY <1>1, <1>4, TypeParts
  <1>6. TypeOK'
    BY <1>1, <1>2, <1>3, <1>4, <1>5, TypeParts
       DEF TypeOK, AccountMaps, Creations, UpdateMaps, RemovalMaps, DismissalMaps
  <1>7. ASSUME NEW v \in Users
        PROVE  /\ \/ users'[v] = users[v]
                  \/ users'[v] = Null /\ (account[v] = Null \/ v \in crossed)
               /\ Deleting(v) => Deleting(v)' \/ v \in halted' \/ users'[v] = Null
               /\ Linked(v)' /\ Grouped(v)'
    <2>1. UserInv(v)
      BY DEF IInv
    <2>2. v \in x.targets => account[v] = Null /\ users'[v] = Null
      <3>1. v \in x.targets => account[v] = Null
        BY <1>1, <2>1 DEF UserInv, Cleared
      <3>2. v \in x.targets /\ users[v] # Null => users[v].tenant = t
        BY <1>1, <2>1 DEF UserInv, Home, At
      <3> QED BY <1>4, <3>1, <3>2
    <2>3. users[v] # Null /\ users[v].tenant = t => account[v] = Null \/ v \in crossed
      BY <1>1, <2>1, <2>2 DEF UserInv, Overlapping
    <2>4. \/ users'[v] = users[v]
          \/ users'[v] = Null /\ (account[v] = Null \/ v \in crossed)
      BY <1>4, <2>3
    <2>5. users'[v] # Null => users'[v] = users[v] /\ users[v].tenant # t
      BY <1>4
    <2>6. Linked(v)'
      BY <1>4, <2>1, <2>5 DEF UserInv, Linked
    <2>7. v \notin crossed /\ creation[v] # Null => creation[v].tenant # t
      BY <1>1, <2>1 DEF UserInv, Overlapping
    <2>8. Grouped(v)'
      BY <1>2, <1>4, <2>1, <2>5, <2>7 DEF UserInv, Grouped
    <2> QED BY <1>3, <2>2, <2>4, <2>6, <2>8
  <1>8. \A d \in Removals : removal'[d] # Null => removal'[d] = removal[d]
    BY <1>2
  <1> QED BY <1>2, <1>3, <1>4, <1>6, <1>7, <1>8, EndStep

LEMMA EndDismissalStep ==
    ASSUME IInv, NEW t \in Tenants, dismissal[t] # Null, EndDismissal(t),
           failures' \in 0 .. MaxFailures
    PROVE  IInv'
  <1> DEFINE x == dismissal[t]
  <1>1. TypeOK /\ dismissal' = [dismissal EXCEPT ![t] = Null]
    BY DEF IInv, EndDismissal
  <1>2. /\ UNCHANGED <<tenants, users, account, group, made, unfounded, unborn, creation,
                       update, removal, edits, refused, severed, crossed, revived, calm,
                       aligned, undoing, unheard>>
        /\ halted' = halted \cup x.targets
    BY DEF EndDismissal
  <1>3. /\ dismissal' \in DismissalMaps
        /\ \A s \in Tenants : dismissal'[s] # Null => dismissal'[s] = dismissal[s]
        /\ TargetsStay
        /\ \A v \in Users : Deleting(v) => Deleting(v)' \/ v \in x.targets
    BY <1>1, <1>2, DismissalEnds
  <1>4. x.targets \in SUBSET Users
    BY <1>1, DismissalParts, TypeParts
  <1>5. TypeOK'
    BY <1>1, <1>2, <1>3, <1>4, TypeParts
       DEF TypeOK, AccountMaps, Creations, UpdateMaps, RemovalMaps, DismissalMaps
  <1>6. ASSUME NEW v \in Users PROVE Linked(v)' /\ Grouped(v)'
    BY <1>2 DEF IInv, UserInv, Linked, Grouped
  <1>7. \A d \in Removals : removal'[d] # Null => removal'[d] = removal[d]
    BY <1>2
  <1> QED BY <1>2, <1>3, <1>5, <1>6, <1>7, EndStep

LEMMA DeletionSteps ==
    ASSUME IInv, RemoveStep \/ DismissStep
    PROVE  IInv'
  <1>1. CASE RemoveStep
    <2> PICK d \in Removals :
          \/ \E t \in Tenants, ids \in SUBSET Users, requester \in Users \cup {Null} :
               StartRemoval(d, t, ids, requester)
          \/ \E u \in Users : RemoveAccount(d, u) \/ RefuseRemoval(d, u)
          \/ FinishRemoval(d) \/ AbandonRemoval(d)
      BY <1>1 DEF RemoveStep
    <2> QED
      BY StartRemovalStep, RemoveAccountStep, RefuseRemovalStep, FinishRemovalStep,
         AbandonRemovalStep
  <1>2. CASE DismissStep
    <2> PICK t \in Tenants :
          \/ StartDismissal(t)
          \/ \E u \in Users : DismissAccount(t, u) \/ RefuseDismissal(t, u)
          \/ DeleteGroup(t) \/ CommitDismissal(t) \/ RollBackDismissal(t)
          \/ AbandonDismissal(t)
      BY <1>2 DEF DismissStep
    <2>1. CASE RollBackDismissal(t) \/ AbandonDismissal(t)
      <3>1. TypeOK
        BY DEF IInv
      <3>2. dismissal[t] # Null /\ EndDismissal(t) /\ failures' \in 0 .. MaxFailures
        BY <2>1, <3>1, BoundsAssumption, TypeParts DEF RollBackDismissal, AbandonDismissal, Fail
      <3> QED BY <3>2, EndDismissalStep
    <2> QED
      BY <2>1, StartDismissalStep, DismissAccountStep, RefuseDismissalStep, DeleteGroupStep,
         CommitDismissalStep
  <1> QED BY <1>1, <1>2

-----------------------------------------------------------------------------
(* The theorems.                                                           *)

LEMMA InvStarts == Init => IInv
  <1> SUFFICES ASSUME Init PROVE IInv
    OBVIOUS
  <1>1. TypeOK
    BY BoundsAssumption DEF Init, TypeOK
  <1>2. ASSUME NEW u \in Users PROVE UserInv(u)
    <2>1. /\ users[u] = Null /\ account[u] = Null /\ creation[u] = Null /\ u \in unborn
          /\ UpdatesOf(u) = {} /\ ~ Deleting(u) /\ u \notin undoing
      BY DEF Init, UpdatesOf, Deleting
    <2>2. At(u, Null)
      BY <2>1 DEF At, Deleting
    <2>3. Home(u)
      BY <2>2 DEF Home
    <2>4. Cleared(u)
      BY DEF Init, Cleared
    <2>5. Young(u) /\ Linked(u) /\ Missed(u) /\ Orphaned(u) /\ Overlapping(u) /\ Grouped(u)
      BY <2>1 DEF Young, Linked, Missed, Orphaned, Creating, Overlapping, Grouped
    <2>6. Ruled(u)
      BY <2>1 DEF Ruled
    <2> QED BY <2>3, <2>4, <2>5, <2>6 DEF UserInv
  <1>3. (\A a \in calm : LoneUpdate(a)) /\ Unused
    BY DEF Init, Unused
  <1> QED BY <1>1, <1>2, <1>3 DEF IInv

LEMMA InvStays == IInv /\ UNCHANGED vars => IInv'
  <1> SUFFICES ASSUME IInv, UNCHANGED vars PROVE IInv'
    OBVIOUS
  <1>1. UNCHANGED <<tenants, users, account, group, made, unfounded, unborn, creation, update,
                    removal, dismissal, edits, failures, refused, severed, crossed, halted,
                    revived, calm, aligned, undoing, unheard>>
    BY DEF vars, requests, histories
  <1>2. TypeOK'
    BY <1>1 DEF IInv, TypeOK
  <1>3. Kept /\ \A v \in Users : Left(v)
    BY <1>1 DEF Kept, Left, UpdatesOf
  <1>4. ASSUME NEW v \in Users PROVE UserInv(v)'
    BY <1>1, <1>3, LeftAlone DEF IInv
  <1>5. ASSUME NEW a \in calm PROVE LoneUpdate(a)'
    BY <1>1 DEF IInv, LoneUpdate, UpdatesOf
  <1>6. Unused'
    BY <1>1 DEF IInv, Unused
  <1> QED BY <1>1, <1>2, <1>4, <1>5, <1>6 DEF IInv

LEMMA InvHolds == Spec => []IInv
  <1>1. IInv /\ [Next]_vars => IInv'
    BY CreationSteps, UpdateSteps, DeletionSteps, InvStays DEF Next
  <1> QED BY <1>1, InvStarts, PTL DEF Spec

\* Rows, accounts, groups and requests keep their shape.
THEOREM AccountsTypes == Spec => []TypeOK
  <1>1. IInv => TypeOK
    BY DEF IInv
  <1> QED BY <1>1, InvHolds, PTL

\* One refusal never leaves an account behind: it takes another one, a request
\* that ends half way, or the deletion of the tenant meanwhile.
THEOREM OrphansHaveReasons == Spec => []OrphansAreExplained
  <1>1. IInv => OrphansAreExplained
    BY DEF IInv, UserInv, Orphaned, Explained, OrphansAreExplained
  <1> QED BY <1>1, InvHolds, PTL

\* A row without an account belongs to a deletion under way or gone wrong, to
\* a user who was updated while being deleted, or to one whose row was stored
\* without the process hearing of it.
THEOREM StoredUsersHaveAccounts == Spec => []RowsHaveAccounts
  <1>1. IInv => RowsHaveAccounts
    BY DEF IInv, UserInv, Missed, Excused, RowsHaveAccounts
  <1> QED BY <1>1, InvHolds, PTL

\* After a change of role that ran alone, account and row have the same one.
THEOREM RowsAndAccountsAgree == Spec => []RolesAgree
  <1>1. IInv => RolesAgree
    BY TypeParts DEF IInv, UserInv, Ruled, RolesAgree
  <1> QED BY <1>1, InvHolds, PTL

\* Stored users of a tenant are in the one group it has, though attempts to
\* delete the tenant remove the group and creations make it again.
THEOREM TenantsHaveOneGroup == Spec => []OneGroup
  <1>1. IInv => OneGroup
    BY DEF IInv, UserInv, Grouped, OneGroup
  <1> QED BY <1>1, InvHolds, PTL

=============================================================================
