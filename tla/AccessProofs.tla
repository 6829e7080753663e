---------------------------- MODULE AccessProofs ----------------------------
(***************************************************************************)
(* The safety properties of Access, for every set of tenants, claims and   *)
(* requests and for every choice of the application's routes.              *)
(***************************************************************************)
EXTENDS Access, TLAPS

\* A step of request r itself.
Moves(r) == Guards(r) \/ Handlers(r) \/ Interceptor(r)

Moving == {"guarding", "lifting", "blocking", "handling", "reviving", "logging"}

-----------------------------------------------------------------------------
(* Operators.                                                              *)

\* extractEffectiveRole yields one of the three roles or refuses.
LEMMA RoleOfClaims ==
    ASSUME NEW c \in ClaimSets
    PROVE  EffectiveRole(c) \in Roles \cup {Null}
  <1>1. CASE c.role \in Roles
    BY <1>1 DEF EffectiveRole
  <1>2. CASE c.role \notin Roles /\ \E x \in Roles : c.roles \cap Roles = {x}
    <2>1. (CHOOSE x \in Roles : c.roles \cap Roles = {x}) \in Roles
      BY <1>2
    <2> QED BY <1>2, <2>1 DEF EffectiveRole
  <1>3. CASE c.role \notin Roles /\ ~ \E x \in Roles : c.roles \cap Roles = {x}
    BY <1>3 DEF EffectiveRole
  <1> QED BY <1>1, <1>2, <1>3

\* Claims that pass validate make a user.
LEMMA UserOfClaims ==
    ASSUME NEW c \in ClaimSets, ValidClaims(c)
    PROVE  UserOf(c) \in Users
  <1>1. EffectiveRole(c) \in Roles
    BY RoleOfClaims DEF ValidClaims
  <1>2. /\ c.tenant \in Tenants \cup {Null}
        /\ c.actorTenant \in Tenants \cup {Null}
    BY DEF ClaimSets
  <1>3. (c.act = "other") \in BOOLEAN
    OBVIOUS
  <1> QED BY <1>1, <1>2, <1>3 DEF UserOf, Users

\* Where RolesGuard and BlockImpersonationGuard send a request.
LEMMA AfterPolicyGoes ==
    ASSUME NEW u \in Users, NEW route \in RouteSpecs
    PROVE  /\ AfterPolicy(u, route) \in {"refused", "handling", "blocking", "blocked"}
           /\ AfterPolicy(u, route) \in {"blocking", "blocked"}
                => route.blocked /\ u.impersonating
           /\ AfterPolicy(u, route) = "blocking" => SessionTenant(u) # Null
           /\ AfterPolicy(u, route) = "blocked" => SessionTenant(u) = Null
  BY DEF AfterPolicy, Users, RouteSpecs

\* Where AccessPolicyGuard sends it first: a tenant's route leads nowhere
\* but to the tenant's row.
LEMMA AfterTokenGoes ==
    ASSUME NEW u \in Users, NEW route \in RouteSpecs
    PROVE  /\ AfterToken(u, route) \in
                {"guarding", "refused", "handling", "blocking", "blocked"}
           /\ AfterToken(u, route) = "guarding" => u.tenant # Null
           /\ AfterToken(u, route) \in {"blocking", "blocked"}
                => route.blocked /\ u.impersonating
           /\ AfterToken(u, route) = "blocking" => SessionTenant(u) # Null
           /\ AfterToken(u, route) = "blocked" => SessionTenant(u) = Null
           /\ route.policy = "tenant"
                => AfterToken(u, route) \in {"guarding", "refused"}
  BY AfterPolicyGoes DEF AfterToken, RouteSpecs

-----------------------------------------------------------------------------
(* Steps.                                                                  *)

\* Null is no request under way, and no user.
LEMMA Rows ==
    ASSUME TypeOK, NEW r \in Requests, req[r] # Null
    PROVE  /\ req[r] \in Request
           /\ req[r].user \in Users \cup {Null}
           /\ req[r].route \in RouteSpecs
           /\ req[r].target \in Tenants \cup {Null}
           /\ req[r].query \in Ids \cup {Null}
  <1>1. req[r] \in Request
    BY DEF TypeOK
  <1> QED BY <1>1 DEF Request

\* Goto and Succeed write one request.
LEMMA GotoGoes ==
    ASSUME TypeOK, NEW r \in Requests, req[r] # Null, NEW pc, Goto(r, pc)
    PROVE  /\ req'[r].pc = pc /\ req'[r].target = req[r].target
           /\ req'[r].user = req[r].user /\ req'[r].route = req[r].route
           /\ req'[r].query = req[r].query
  BY Rows DEF Goto, TypeOK, Request

LEMMA SucceedGoes ==
    ASSUME TypeOK, NEW r \in Requests, req[r] # Null,
           NEW t \in Tenants \cup {Null}, Succeed(r, t)
    PROVE  /\ req'[r].pc \in {"logging", "done"} /\ req'[r].target = t
           /\ req'[r].user = req[r].user /\ req'[r].route = req[r].route
           /\ req'[r].query = req[r].query
           /\ req'[r] \in Request
           /\ req' = [req EXCEPT ![r] = req'[r]]
           /\ req'[r].pc = "logging" <=>
                req'[r].route.audit # Null /\ AuditId(req'[r]) # Null
  <1> DEFINE new == [req[r] EXCEPT !.target = t]
  <1>1. /\ new \in Request /\ new.target = t /\ new.user = req[r].user
        /\ new.route = req[r].route /\ new.query = req[r].query
    BY Rows DEF Request
  <1>2. ASSUME NEW q \in Request, NEW pc \in {"logging", "done"}
        PROVE  /\ [q EXCEPT !.pc = pc] \in Request
               /\ [q EXCEPT !.pc = pc].pc = pc
               /\ [q EXCEPT !.pc = pc].target = q.target
               /\ [q EXCEPT !.pc = pc].user = q.user
               /\ [q EXCEPT !.pc = pc].route = q.route
               /\ [q EXCEPT !.pc = pc].query = q.query
    BY DEF Request
  <1>3. PICK pc \in {"logging", "done"} :
          /\ req' = [req EXCEPT ![r] = [new EXCEPT !.pc = pc]]
          /\ pc = "logging" <=> new.route.audit # Null /\ AuditId(new) # Null
    BY DEF Succeed
  <1> HIDE DEF new
  <1>4. /\ req'[r] = [new EXCEPT !.pc = pc] /\ req'[r] \in Request
        /\ req'[r].pc = pc /\ req'[r].target = t
        /\ req'[r].user = req[r].user /\ req'[r].route = req[r].route
        /\ req'[r].query = req[r].query
    BY <1>1, <1>2, <1>3 DEF TypeOK
  <1>5. AuditId(req'[r]) = AuditId(new)
    BY <1>1, <1>4 DEF AuditId
  <1> QED BY <1>1, <1>3, <1>4, <1>5

\* A request under way moves alone, and keeps its user and its route.
LEMMA MoveKeeps ==
    ASSUME TypeOK, NEW r \in Requests, Moves(r)
    PROVE  /\ req[r] # Null /\ req[r].pc \in Moving
           /\ req'[r] \in Request
           /\ req'[r].user = req[r].user
           /\ req'[r].route = req[r].route
           /\ req'[r].query = req[r].query
           /\ req'[r].target = req[r].target \/ CreateTenant(r) \/ ReviveTenant(r)
           /\ \A s \in Requests \ {r} : req'[s] = req[s]
           /\ req' \in [Requests -> Request \cup {Null}]
  <1> DEFINE pcs == {"guarding", "lifting", "blocked", "handling", "blocking",
                     "reviving", "logging", "done", "refused", "failed"}
  <1>1. req[r] # Null /\ req[r].pc \in Moving
    BY DEF Moves, Guards, Handlers, Interceptor, At, Moving, LoadTenant,
           LiftSuspension, RecordBlocked, DatabaseFails, CreateTenant,
           UpdateTenant, DeleteTenant, FindLapsed, ReviveTenant, HandleOther,
           HandlerThrows, WriteEntry, LoseEntry
  <1>2. req[r] \in Request /\ req \in [Requests -> Request \cup {Null}]
    BY <1>1 DEF TypeOK
  <1>3. ASSUME NEW pc \in pcs, Goto(r, pc)
        PROVE  /\ req'[r] \in Request
               /\ req'[r].user = req[r].user
               /\ req'[r].route = req[r].route
               /\ req'[r].query = req[r].query
               /\ req'[r].target = req[r].target
               /\ \A s \in Requests \ {r} : req'[s] = req[s]
               /\ req' \in [Requests -> Request \cup {Null}]
    <2>1. req' = [req EXCEPT ![r] = [req[r] EXCEPT !.pc = pc]]
      BY <1>3 DEF Goto
    <2>2. /\ [req[r] EXCEPT !.pc = pc] \in Request
          /\ [req[r] EXCEPT !.pc = pc].user = req[r].user
          /\ [req[r] EXCEPT !.pc = pc].route = req[r].route
          /\ [req[r] EXCEPT !.pc = pc].target = req[r].target
          /\ [req[r] EXCEPT !.pc = pc].query = req[r].query
      BY <1>2, <1>3 DEF Request
    <2> QED BY <1>2, <2>1, <2>2
  <1>4. ASSUME NEW t \in Tenants \cup {Null}, Succeed(r, t)
        PROVE  /\ req'[r] \in Request
               /\ req'[r].user = req[r].user
               /\ req'[r].route = req[r].route
               /\ req'[r].query = req[r].query
               /\ req'[r].target = t
               /\ \A s \in Requests \ {r} : req'[s] = req[s]
               /\ req' \in [Requests -> Request \cup {Null}]
    <2>1. /\ req'[r] \in Request /\ req'[r].user = req[r].user
          /\ req'[r].route = req[r].route /\ req'[r].query = req[r].query
          /\ req'[r].target = t
          /\ req' = [req EXCEPT ![r] = req'[r]]
      BY <1>1, <1>4, SucceedGoes
    <2> QED BY <1>2, <2>1
  <1>5. CASE \E pc \in pcs : Goto(r, pc)
    BY <1>1, <1>3, <1>5
  <1>6. CASE Succeed(r, req[r].target)
    <2>1. req[r].target \in Tenants \cup {Null}
      BY <1>2 DEF Request
    <2> QED BY <1>1, <1>4, <1>6, <2>1
  <1>7. CASE CreateTenant(r)
    <2>1. Goto(r, "failed") \/ \E t \in Tenants : Succeed(r, t)
      BY <1>7 DEF CreateTenant, Answer, FailLate
    <2> QED BY <1>1, <1>4, <1>5, <1>7, <2>1
  <1>8. CASE ReviveTenant(r)
    <2>1. Goto(r, "failed") \/ Succeed(r, Null)
      BY <1>8 DEF ReviveTenant, Answer, FailLate
    <2> QED BY <1>1, <1>4, <1>5, <1>8, <2>1
  <1>9. CASE LoadTenant(r) \/ LiftSuspension(r)
    <2>1. AfterPolicy(req[r].user, req[r].route) \in pcs
      BY DEF AfterPolicy
    <2> QED BY <1>5, <1>9, <2>1 DEF LoadTenant, LiftSuspension, FailLate
  <1>10. CASE RecordBlocked(r) \/ DatabaseFails(r) \/ FindLapsed(r)
              \/ HandlerThrows(r) \/ Interceptor(r)
    BY <1>5, <1>10 DEF RecordBlocked, FailLate, DatabaseFails, FindLapsed,
                       HandlerThrows, Interceptor, WriteEntry, LoseEntry
  <1>11. CASE UpdateTenant(r) \/ DeleteTenant(r)
    BY <1>5, <1>6, <1>11 DEF UpdateTenant, DeleteTenant, Answer, FailLate
  <1>12. CASE HandleOther(r)
    BY <1>6, <1>12 DEF HandleOther
  <1> QED BY <1>7, <1>8, <1>9, <1>10, <1>11, <1>12 DEF Moves, Guards, Handlers

-----------------------------------------------------------------------------
(* The invariant.                                                          *)

\* What a request knows at each of its awaits.
Knows(q) ==
    /\ q.pc \in {"guarding", "lifting", "reviving"}
         => q.user # Null /\ q.user.tenant # Null
    /\ q.pc \in {"blocking", "blocked"}
         => q.user # Null /\ q.route.blocked /\ q.user.impersonating
    /\ q.pc = "blocking" => SessionTenant(q.user) # Null
    /\ q.pc = "logging" =>
         /\ q.user # Null /\ q.route.audit # Null
         /\ AuditId(q) # Null
    /\ q.pc = "handling" /\ q.route.policy # "public" => q.user # Null
    /\ /\ q.pc \in {"guarding", "lifting", "handling"}
       /\ q.route.audit \in {"UPDATE_TENANT", "DELETE_TENANT", "CREATE_GATEWAY"}
       => q.target # Null

Knowing == \A r \in Requests : req[r] # Null => Knows(req[r])

\* HandledInGoodStanding before the handler: the guard lifts a suspension
\* that was over.
Standing ==
    \A r \in Requests :
        req[r] # Null /\ req[r].route.policy = "tenant"
        /\ req[r].pc \in {"lifting", "blocking", "handling", "reviving",
                          "logging", "done"}
        => r \in fit

\* A tenant that a request refers to was created before, and deletions are
\* remembered, though saves insert rows again.
Grounded ==
    /\ \A r \in Requests : req[r] # Null =>
         /\ req[r].user # Null =>
              \A t \in {req[r].user.tenant, req[r].user.actorTenant} \ {Null} :
                 tenants[t] # "none"
         /\ req[r].query \in Tenants => tenants[req[r].query] # "none"
         /\ req[r].pc = "logging" /\ req[r].target # Null =>
              tenants[req[r].target] # "none"
    /\ \A t \in Tenants : tenants[t] = "deleted" => t \in gone

\* Entries belong to requests that have ended.
Entries ==
    \A e \in audits :
        /\ e.request \in Requests /\ req[e.request] # Null
        /\ EntryIsTrue(e)
        /\ e.kind = "success" => e.tenant = AuditId(req[e.request])

\* The second half of TrailIsTrue, told by the id that AuditInterceptor
\* resolves.
Complete ==
    \A r \in Requests \ lost :
        /\ req[r] # Null /\ req[r].pc = "done" /\ req[r].route.audit # Null
        /\ AuditId(req[r]) \notin gone \cup {Null, Unknown}
        => \E e \in audits : e.request = r /\ e.kind = "success"

IInv == /\ TypeOK /\ Knowing /\ Standing /\ Grounded
        /\ Entries /\ Complete /\ BlockedLeavesTrace

-----------------------------------------------------------------------------
(* Types.                                                                  *)

LEMMA TypeInit == Init => TypeOK
  BY MishapsAssumption DEF Init, TypeOK, TenantStates

\* A request that has just arrived.
LEMMA ArriveKeeps ==
    ASSUME TypeOK, NEW r \in Requests, NEW c \in Claims, NEW route \in Routes,
           NEW target \in Targets(route), NEW query \in Queries(c, route),
           Arrive(r, c, route, target, query)
    PROVE  /\ req[r] = Null /\ req'[r] \in Request
           /\ \A s \in Requests \ {r} : req'[s] = req[s]
           /\ req' \in [Requests -> Request \cup {Null}]
           /\ Knows(req'[r])
           /\ req'[r].route = route /\ req'[r].target = target
           /\ req'[r].query = query
           /\ req'[r].pc \in {"guarding", "handling", "blocking", "blocked", "refused"}
           /\ req'[r].pc = "blocked" => SessionTenant(req'[r].user) = Null
           /\ route.policy = "tenant" => req'[r].pc \in {"guarding", "refused"}
           /\ req'[r].user # Null =>
                req'[r].user.tenant = c.tenant
                /\ req'[r].user.actorTenant \in {c.tenant, c.actorTenant}
  <1> DEFINE anonymous == route.policy = "public" \/ ~ValidClaims(c)
             pc == IF route.policy = "public" THEN "handling"
                   ELSE IF ~ValidClaims(c) THEN "refused"
                   ELSE AfterToken(UserOf(c), route)
             user == IF anonymous THEN Null ELSE UserOf(c)
             q == [pc |-> pc, route |-> route, target |-> target,
                   query |-> query, user |-> user]
  <1>1. c \in ClaimSets /\ route \in RouteSpecs
    BY DataAssumption
  <1>2. target \in Tenants \cup {Null} /\ query \in Ids \cup {Null}
    BY DEF Targets, Queries
  <1>3. req[r] = Null /\ req' = [req EXCEPT ![r] = q]
    BY DEF Arrive
  <1>4. user \in Users \cup {Null}
    BY <1>1, UserOfClaims
  <1>5. /\ pc \in {"guarding", "handling", "blocking", "blocked", "refused"}
        /\ pc = "guarding" => user # Null /\ user.tenant # Null
        /\ pc \in {"blocking", "blocked"}
             => user # Null /\ route.blocked /\ user.impersonating
        /\ pc = "blocking" => SessionTenant(user) # Null
        /\ pc = "blocked" => SessionTenant(user) = Null
        /\ pc = "handling" /\ route.policy # "public" => user # Null
        /\ route.policy = "tenant" => pc \in {"guarding", "refused"}
    <2>1. CASE anonymous
      BY <2>1
    <2>2. CASE ~anonymous
      <3>1. UserOf(c) \in Users /\ UserOf(c) # Null
        BY <1>1, <2>2, UserOfClaims, NullAssumption
      <3> QED BY <1>1, <2>2, <3>1, AfterTokenGoes
    <2> QED BY <2>1, <2>2
  <1>6. user # Null => user.tenant = c.tenant /\ user.actorTenant \in {c.tenant, c.actorTenant}
    BY DEF UserOf
  <1>7. req'[r] = q
    BY <1>3 DEF TypeOK
  <1> HIDE DEF pc, user
  <1>8. q \in Request
    BY <1>1, <1>2, <1>4, <1>5 DEF Request
  <1>9. Knows(q)
    <2>1. route.audit \in {"UPDATE_TENANT", "DELETE_TENANT", "CREATE_GATEWAY"}
            => target # Null
      BY NullAssumption DEF Targets, Ids
    <2> QED BY <1>5, <2>1 DEF Knows
  <1> QED BY <1>3, <1>5, <1>6, <1>7, <1>8, <1>9 DEF TypeOK

\* What AuditInterceptor resolves: the tenant that the request acts on, or
\* the id in its query.
LEMMA AuditIdIs ==
    ASSUME NEW q \in Request, q.user \in Users, q.user # Null
    PROVE  /\ SessionTenant(q.user) \in {q.user.tenant, q.user.actorTenant}
           /\ SessionTenant(q.user) \in Tenants \cup {Null}
           /\ ~Astray(q) => AuditId(q) = Subject(q)
           /\ Astray(q) => AuditId(q) = q.query /\ q.query # Null
           /\ \/ AuditId(q) = SessionTenant(q.user)
              \/ AuditId(q) = q.query
              \/ AuditId(q) = q.target
           /\ AuditId(q) \in Ids \cup {Null}
  <1>1. /\ SessionTenant(q.user) \in {q.user.tenant, q.user.actorTenant}
        /\ SessionTenant(q.user) \in Tenants \cup {Null}
    BY DEF SessionTenant, Users
  <1>2. q.target \in Tenants \cup {Null} /\ q.query \in Ids \cup {Null}
    BY DEF Request
  <1> QED BY <1>1, <1>2 DEF AuditId, Astray, Subject, Ids

\* Who writes an entry.
LEMMA EntryTenant ==
    ASSUME TypeOK, Knowing, NEW r \in Requests
    PROVE  /\ At(r, "logging") => req[r].user \in Users /\ AuditId(req[r]) \in Ids
           /\ At(r, "blocking") =>
                req[r].user \in Users /\ SessionTenant(req[r].user) \in Tenants
  <1> SUFFICES ASSUME At(r, "logging") \/ At(r, "blocking")
               PROVE  /\ req[r].user \in Users
                      /\ At(r, "logging") => AuditId(req[r]) \in Ids
                      /\ At(r, "blocking") => SessionTenant(req[r].user) \in Tenants
    OBVIOUS
  <1>1. req[r] # Null /\ Knows(req[r])
    BY DEF At, Knowing
  <1>2. req[r] \in Request /\ req[r].user \in Users /\ req[r].user # Null
    BY <1>1, Rows DEF At, Knows
  <1>3. At(r, "logging") => AuditId(req[r]) # Null
    BY <1>1 DEF At, Knows
  <1>4. At(r, "blocking") => SessionTenant(req[r].user) # Null
    BY <1>1 DEF At, Knows
  <1> QED BY <1>2, <1>3, <1>4, AuditIdIs

\* Steps that write no entry add none.
LEMMA OldEntries ==
    ASSUME NEW r \in Requests, Moves(r), ~RecordBlocked(r), ~WriteEntry(r)
    PROVE  audits' \subseteq audits
  BY DEF Moves, Guards, Handlers, Interceptor, LoadTenant, LiftSuspension,
         DatabaseFails, CreateTenant, UpdateTenant, DeleteTenant, FindLapsed,
         ReviveTenant, HandleOther, HandlerThrows, LoseEntry

\* What a step does to the tenants.
LEMMA TenantsMove ==
    ASSUME TypeOK, Knowing, NEW r \in Requests, Moves(r)
    PROVE  /\ tenants' \in [Tenants -> TenantStates]
           /\ \A t \in Tenants :
                /\ tenants[t] # "none" => tenants'[t] # "none"
                /\ tenants'[t] = "deleted" => tenants[t] = "deleted" \/ t \in gone'
           /\ gone \subseteq gone' /\ gone' \subseteq Tenants
  <1> USE DEF TypeOK, TenantStates, Exists
  <1>1. CASE LiftSuspension(r)
    BY <1>1 DEF LiftSuspension
  <1>2. CASE CreateTenant(r)
    BY <1>2 DEF CreateTenant
  <1>3. CASE UpdateTenant(r)
    BY <1>3 DEF UpdateTenant
  <1>4. CASE DeleteTenant(r)
    <2>1. req[r] # Null /\ req[r].target \in Tenants \cup {Null}
      BY <1>4, Rows DEF DeleteTenant, At
    <2>2. req[r].target \in Tenants
      BY <1>4, <2>1 DEF DeleteTenant, At, Knowing, Knows
    <2> QED BY <1>4, <2>2 DEF DeleteTenant
  <1>5. CASE ReviveTenant(r)
    BY <1>5 DEF ReviveTenant
  <1>6. CASE LoadTenant(r) \/ RecordBlocked(r) \/ DatabaseFails(r) \/ FindLapsed(r)
             \/ HandleOther(r) \/ HandlerThrows(r) \/ WriteEntry(r) \/ LoseEntry(r)
    <2>1. tenants' = tenants /\ gone' = gone
      BY <1>6 DEF LoadTenant, RecordBlocked, DatabaseFails, FindLapsed,
                  HandleOther, HandlerThrows, WriteEntry, LoseEntry
    <2> QED BY <2>1
  <1> QED BY <1>1, <1>2, <1>3, <1>4, <1>5, <1>6 DEF Moves, Guards, Handlers, Interceptor

LEMMA TypeStep ==
    ASSUME TypeOK, Knowing, [Next]_vars
    PROVE  TypeOK'
  <1>1. CASE UNCHANGED vars
    BY <1>1 DEF vars, TypeOK
  <1>2. ASSUME NEW r \in Requests, Moves(r), fit' = fit \cup {s \in Requests : InStanding(s)}
        PROVE  TypeOK'
    <2>1. req' \in [Requests -> Request \cup {Null}]
      BY <1>2, MoveKeeps
    <2>2. tenants' \in [Tenants -> TenantStates] /\ gone' \subseteq Tenants
      BY <1>2, TenantsMove
    <2>3. audits' \subseteq Entry
      <3>1. CASE RecordBlocked(r)
        BY <3>1, EntryTenant DEF RecordBlocked, TypeOK, Entry
      <3>2. CASE WriteEntry(r)
        BY <3>2, EntryTenant DEF WriteEntry, TypeOK, Entry, Exists
      <3> QED BY <1>2, <3>1, <3>2, OldEntries DEF TypeOK
    <2>4. mishaps' = mishaps \/ Mishap
      BY <1>2 DEF Moves, Guards, Handlers, Interceptor, LoadTenant, LiftSuspension,
                  RecordBlocked, DatabaseFails, CreateTenant, UpdateTenant,
                  DeleteTenant, FindLapsed, ReviveTenant, HandleOther,
                  HandlerThrows, WriteEntry, LoseEntry, Answer, FailLate
    <2>5. mishaps' \in 0 .. MaxMishaps
      BY <2>4, MishapsAssumption DEF Mishap, TypeOK
    <2>6. lost' \subseteq Requests
      BY <1>2 DEF Moves, Guards, Handlers, Interceptor, LoadTenant, LiftSuspension,
                  RecordBlocked, DatabaseFails, CreateTenant, UpdateTenant,
                  DeleteTenant, FindLapsed, ReviveTenant, HandleOther,
                  HandlerThrows, WriteEntry, LoseEntry, TypeOK
    <2>7. fit' \subseteq Requests
      BY <1>2 DEF TypeOK
    <2> QED BY <2>1, <2>2, <2>3, <2>5, <2>6, <2>7 DEF TypeOK
  <1>3. ASSUME NEW r \in Requests, NEW c \in Claims, NEW route \in Routes,
               NEW target \in Targets(route), NEW query \in Queries(c, route),
           Arrive(r, c, route, target, query),
               fit' = fit \cup {s \in Requests : InStanding(s)}
        PROVE  TypeOK'
    <2>1. req' \in [Requests -> Request \cup {Null}]
      BY <1>3, ArriveKeeps
    <2>2. UNCHANGED <<tenants, audits, mishaps, lost, gone>>
      BY <1>3 DEF Arrive
    <2> QED BY <1>3, <2>1, <2>2 DEF TypeOK
  <1>4. ASSUME NEW t \in Tenants, Lapse(t),
               fit' = fit \cup {s \in Requests : InStanding(s)}
        PROVE  TypeOK'
    BY <1>4 DEF Lapse, TypeOK, TenantStates
  <1> QED BY <1>1, <1>2, <1>3, <1>4 DEF Next, Moves

-----------------------------------------------------------------------------
(* What requests know.                                                     *)

LEMMA KnowingStep ==
    ASSUME TypeOK, Knowing, [Next]_vars
    PROVE  Knowing'
  <1>1. CASE UNCHANGED vars
    BY <1>1 DEF vars, Knowing
  <1>2. ASSUME NEW r \in Requests, Moves(r)
        PROVE  Knowing'
    <2>1. /\ req[r] # Null /\ req[r] \in Request /\ Knows(req[r])
          /\ req'[r].user = req[r].user /\ req'[r].route = req[r].route
          /\ \A s \in Requests \ {r} : req'[s] = req[s]
      BY <1>2, MoveKeeps, Rows DEF Knowing
    <2>2. \A pc : Goto(r, pc) => req'[r].pc = pc /\ req'[r].target = req[r].target
      BY <2>1, GotoGoes
    <2>4. Knows(req'[r])
      <3>1. CASE LoadTenant(r) \/ LiftSuspension(r)
        <4>1. /\ req[r].user \in Users /\ req[r].route \in RouteSpecs
              /\ req[r].pc \in {"guarding", "lifting"}
          BY <2>1, <3>1, Rows DEF LoadTenant, LiftSuspension, At, Knows
        <4>2. PICK pc \in {"refused", "failed", "lifting",
                           AfterPolicy(req[r].user, req[r].route)} :
                Goto(r, pc) /\ (pc = "lifting" => req[r].pc = "guarding")
          BY <3>1, <4>1, AfterPolicyGoes DEF LoadTenant, LiftSuspension, FailLate, At
        <4>3. req'[r].pc = pc /\ req'[r].target = req[r].target
          BY <2>2, <4>2
        <4>4. req[r].user # Null /\ req[r].user.tenant # Null
          BY <2>1, <4>1 DEF Knows
        <4> QED BY <2>1, <4>1, <4>2, <4>3, <4>4, AfterPolicyGoes DEF Knows
      <3>2. CASE RecordBlocked(r)
        BY <2>1, <2>2, <3>2 DEF RecordBlocked, FailLate, At, Knows
      <3>3. CASE DatabaseFails(r) \/ HandlerThrows(r)
        BY <2>2, <3>3 DEF DatabaseFails, HandlerThrows, Knows
      <3>4. CASE FindLapsed(r)
        BY <2>1, <2>2, <3>4 DEF FindLapsed, At, Knows, TenantOf
      <3>5. CASE Interceptor(r)
        BY <2>2, <3>5 DEF Interceptor, WriteEntry, LoseEntry, Knows
      <3>6. CASE CreateTenant(r) \/ UpdateTenant(r) \/ DeleteTenant(r)
                 \/ ReviveTenant(r) \/ HandleOther(r)
        <4>1. req[r].target \in Tenants \cup {Null}
          BY <2>1, Rows
        <4>2. Goto(r, "failed") \/ \E t \in Tenants \cup {Null} : Succeed(r, t)
          BY <3>6, <4>1 DEF CreateTenant, UpdateTenant, DeleteTenant, ReviveTenant,
                            HandleOther, Answer, FailLate
        <4> QED BY <2>1, <2>2, <4>2, SucceedGoes DEF Knows, AuditId
      <3> QED BY <1>2, <3>1, <3>2, <3>3, <3>4, <3>5, <3>6 DEF Moves, Guards, Handlers
    <2> QED BY <2>1, <2>4 DEF Knowing
  <1>3. ASSUME NEW r \in Requests, NEW c \in Claims, NEW route \in Routes,
               NEW target \in Targets(route), NEW query \in Queries(c, route),
           Arrive(r, c, route, target, query)
        PROVE  Knowing'
    BY <1>3, ArriveKeeps DEF Knowing
  <1>4. ASSUME NEW t \in Tenants, Lapse(t)
        PROVE  Knowing'
    BY <1>4 DEF Lapse, Knowing
  <1> QED BY <1>1, <1>2, <1>3, <1>4 DEF Next, Moves

-----------------------------------------------------------------------------
(* Good standing.                                                          *)

\* A step leaves the class of requests that matter to Standing alone, but
\* for the guard that has read the tenant's row.
LEMMA StandingStep ==
    ASSUME TypeOK, Knowing, Standing, [Next]_vars
    PROVE  Standing'
  <1>1. CASE UNCHANGED vars
    BY <1>1 DEF vars, Standing
  <1>2. ASSUME NEW r \in Requests, Moves(r), fit' = fit \cup {s \in Requests : InStanding(s)}
        PROVE  Standing'
    <2>1. /\ req[r] # Null /\ req[r] \in Request /\ Knows(req[r])
          /\ req'[r] \in Request
          /\ req'[r].user = req[r].user /\ req'[r].route = req[r].route
          /\ \A s \in Requests \ {r} : req'[s] = req[s]
      BY <1>2, MoveKeeps, Rows DEF Knowing
    <2>2. SUFFICES ASSUME req[r].route.policy = "tenant",
                          req'[r].pc \in {"lifting", "blocking", "handling",
                                          "reviving", "logging", "done"}
                   PROVE  r \in fit'
      BY <1>2, <2>1 DEF Standing
    <2>3. CASE LoadTenant(r)
      <3>1. tenants' = tenants /\ req[r].user # Null /\ req[r].user.tenant # Null
        BY <2>1, <2>3 DEF LoadTenant, At, Knows
      <3>2. tenants[req[r].user.tenant] \in {"active", "lapsed"}
        BY <2>1, <2>2, <2>3 DEF LoadTenant, Goto, TenantOf, TypeOK, Request
      <3>3. req'[r] # Null
        BY <2>1, NullAssumption
      <3>4. InStanding(r)
        BY <2>1, <3>1, <3>2, <3>3 DEF InStanding
      <3> QED BY <1>2, <3>4
    <2>4. CASE RecordBlocked(r) \/ DatabaseFails(r) \/ HandlerThrows(r)
      BY <2>1, <2>2, <2>4 DEF RecordBlocked, FailLate, DatabaseFails, HandlerThrows, Goto,
                              TypeOK, Request
    <2>5. CASE LiftSuspension(r) \/ (Handlers(r) /\ ~HandlerThrows(r)) \/ Interceptor(r)
      <3>1. req[r].pc \in {"lifting", "handling", "reviving", "logging"}
        BY <2>5 DEF LiftSuspension, Handlers, Interceptor, At, CreateTenant, UpdateTenant,
                    DeleteTenant, FindLapsed, ReviveTenant, HandleOther, HandlerThrows,
                    WriteEntry, LoseEntry
      <3>2. r \in fit
        BY <2>1, <2>2, <3>1 DEF Standing
      <3> QED BY <1>2, <3>2
    <2> QED BY <1>2, <2>3, <2>4, <2>5 DEF Moves, Guards
  <1>3. ASSUME NEW r \in Requests, NEW c \in Claims, NEW route \in Routes,
               NEW target \in Targets(route), NEW query \in Queries(c, route),
           Arrive(r, c, route, target, query),
               fit' = fit \cup {s \in Requests : InStanding(s)}
        PROVE  Standing'
    BY <1>3, ArriveKeeps DEF Standing
  <1>4. ASSUME NEW t \in Tenants, Lapse(t),
               fit' = fit \cup {s \in Requests : InStanding(s)}
        PROVE  Standing'
    BY <1>4 DEF Lapse, Standing
  <1> QED BY <1>1, <1>2, <1>3, <1>4 DEF Next, Moves

-----------------------------------------------------------------------------
(* Tenants that were created.                                              *)

\* A request on its way to the audit trail names a tenant that was there.
LEMMA LoggingTarget ==
    ASSUME TypeOK, Knowing, NEW r \in Requests, Moves(r), req'[r].pc = "logging",
           req'[r].target # Null
    PROVE  tenants'[req'[r].target] # "none"
  <1>1. /\ req[r] # Null /\ req[r] \in Request /\ Knows(req[r])
        /\ \A t \in Tenants : tenants[t] # "none" => tenants'[t] # "none"
    <2>1. req[r] # Null
      BY MoveKeeps
    <2>2. \A t \in Tenants : tenants[t] # "none" => tenants'[t] # "none"
      BY TenantsMove
    <2> QED BY <2>1, <2>2, Rows DEF Knowing
  <1>2. \A t \in Tenants \cup {Null} : Succeed(r, t) => req'[r].target = t
    BY <1>1, SucceedGoes
  <1>3. \A pc : Goto(r, pc) => req'[r].pc = pc
    BY <1>1, GotoGoes
  <1>4. req[r].target \in Tenants \cup {Null}
    BY <1>1, Rows
  <1>5. CASE CreateTenant(r)
    <2>1. PICK t \in Tenants : tenants' = [tenants EXCEPT ![t] = "active"] /\ Succeed(r, t)
      BY <1>3, <1>5 DEF CreateTenant, Answer, FailLate
    <2> QED BY <1>2, <2>1 DEF TypeOK
  <1>6. CASE UpdateTenant(r)
    <2>1. req'[r].target = req[r].target /\ Exists(req[r].target)
      BY <1>2, <1>3, <1>4, <1>6 DEF UpdateTenant, Answer, FailLate
    <2> QED BY <1>1, <1>4, <2>1 DEF Exists
  <1>7. CASE DeleteTenant(r)
    <2>1. req'[r].target = req[r].target /\ Exists(req[r].target)
      BY <1>2, <1>3, <1>4, <1>7 DEF DeleteTenant, Answer, FailLate
    <2> QED BY <1>1, <1>4, <2>1 DEF Exists
  <1>8. CASE ReviveTenant(r)
    BY <1>2, <1>3, <1>8 DEF ReviveTenant, Answer, FailLate
  <1>9. CASE HandleOther(r)
    <2>1. req'[r].target = req[r].target /\ tenants' = tenants
      BY <1>2, <1>4, <1>9 DEF HandleOther
    <2> QED BY <1>9, <2>1 DEF HandleOther, Exists
  <1>10. CASE LoadTenant(r) \/ LiftSuspension(r)
    <2>1. AfterPolicy(req[r].user, req[r].route) # "logging"
      BY DEF AfterPolicy
    <2> QED BY <1>3, <1>10, <2>1 DEF LoadTenant, LiftSuspension, FailLate
  <1>11. CASE RecordBlocked(r) \/ DatabaseFails(r) \/ FindLapsed(r)
              \/ HandlerThrows(r) \/ Interceptor(r)
    BY <1>3, <1>11 DEF RecordBlocked, FailLate, DatabaseFails, FindLapsed,
                       HandlerThrows, Interceptor, WriteEntry, LoseEntry
  <1> QED BY <1>5, <1>6, <1>7, <1>8, <1>9, <1>10, <1>11 DEF Moves, Guards, Handlers

LEMMA GroundedStep ==
    ASSUME TypeOK, Knowing, Grounded, [Next]_vars
    PROVE  Grounded'
  <1>1. CASE UNCHANGED vars
    BY <1>1 DEF vars, Grounded
  <1>2. ASSUME NEW r \in Requests, Moves(r)
        PROVE  Grounded'
    <2>1. /\ req[r] # Null /\ req'[r].user = req[r].user
          /\ req'[r].query = req[r].query
          /\ \A s \in Requests \ {r} : req'[s] = req[s]
      BY <1>2, MoveKeeps
    <2>2. /\ \A t \in Tenants :
               /\ tenants[t] # "none" => tenants'[t] # "none"
               /\ tenants'[t] = "deleted" => tenants[t] = "deleted" \/ t \in gone'
          /\ gone \subseteq gone'
      BY <1>2, TenantsMove
    <2>3. ASSUME NEW s \in Requests, req[s] # Null
          PROVE  /\ req[s].target \in Tenants \cup {Null}
                 /\ req[s].user # Null =>
                      /\ req[s].user.tenant \in Tenants \cup {Null}
                      /\ req[s].user.actorTenant \in Tenants \cup {Null}
      BY <2>3, Rows DEF Users
    <2>4. \A s \in Requests : req'[s] # Null =>
            /\ req'[s].user # Null =>
                 \A t \in {req'[s].user.tenant, req'[s].user.actorTenant} \ {Null} :
                    tenants'[t] # "none"
            /\ req'[s].query \in Tenants => tenants'[req'[s].query] # "none"
            /\ req'[s].pc = "logging" /\ req'[s].target # Null =>
                 tenants'[req'[s].target] # "none"
      <3> SUFFICES ASSUME NEW s \in Requests, req'[s] # Null
                   PROVE  /\ req'[s].user # Null =>
                               \A t \in {req'[s].user.tenant, req'[s].user.actorTenant} \ {Null} :
                                  tenants'[t] # "none"
                          /\ req'[s].query \in Tenants =>
                               tenants'[req'[s].query] # "none"
                          /\ req'[s].pc = "logging" /\ req'[s].target # Null =>
                               tenants'[req'[s].target] # "none"
        OBVIOUS
      <3>1. CASE s = r
        BY <1>2, <2>1, <2>2, <2>3, <3>1, LoggingTarget DEF Grounded
      <3>2. CASE s # r
        <4>1. req'[s] = req[s] /\ req[s] # Null
          BY <2>1, <3>2
        <4> QED BY <2>2, <2>3, <4>1 DEF Grounded
      <3> QED BY <3>1, <3>2
    <2>5. \A t \in Tenants : tenants'[t] = "deleted" => t \in gone'
      BY <2>2 DEF Grounded
    <2> QED BY <2>4, <2>5 DEF Grounded
  <1>3. ASSUME NEW r \in Requests, NEW c \in Claims, NEW route \in Routes,
               NEW target \in Targets(route), NEW query \in Queries(c, route),
           Arrive(r, c, route, target, query)
        PROVE  Grounded'
    <2>1. /\ tenants' = tenants /\ gone' = gone
          /\ \A t \in {c.tenant, c.actorTenant, query} \ {Null, Unknown} :
               tenants[t] # "none"
      BY <1>3 DEF Arrive
    <2>2. /\ c.tenant # Unknown \/ c.tenant = Null
          /\ c.actorTenant # Unknown \/ c.actorTenant = Null
          /\ Unknown \notin Tenants /\ Null \notin Tenants
      BY DataAssumption, NullAssumption DEF ClaimSets, Ids
    <2> QED BY <1>3, <2>1, <2>2, ArriveKeeps DEF Grounded
  <1>4. ASSUME NEW t \in Tenants, Lapse(t)
        PROVE  Grounded'
    <2>1. req' = req /\ gone' = gone
      BY <1>4 DEF Lapse
    <2>2. \A s : tenants[s] # "none" => tenants'[s] # "none"
      BY <1>4 DEF Lapse, TypeOK
    <2>3. \A s \in Tenants : tenants'[s] = "deleted" => tenants[s] = "deleted"
      BY <1>4 DEF Lapse, TypeOK
    <2> QED BY <2>1, <2>2, <2>3 DEF Grounded
  <1> QED BY <1>1, <1>2, <1>3, <1>4 DEF Next, Moves

-----------------------------------------------------------------------------
(* The audit trail.                                                        *)

\* What has ended stays as it is, and so does what an entry says of it.
LEMMA EndedStays ==
    ASSUME TypeOK, Knowing, [Next]_vars,
           NEW r \in Requests, req[r] # Null, req[r].pc \notin Moving
    PROVE  req'[r] = req[r]
  <1>1. CASE UNCHANGED vars
    BY <1>1 DEF vars
  <1>2. ASSUME NEW s \in Requests, Moves(s)
        PROVE  req'[r] = req[r]
    BY <1>2, MoveKeeps
  <1>3. ASSUME NEW s \in Requests, NEW c \in Claims, NEW route \in Routes,
               NEW target \in Targets(route), NEW query \in Queries(c, route),
           Arrive(s, c, route, target, query)
        PROVE  req'[r] = req[r]
    BY <1>3, ArriveKeeps
  <1>4. ASSUME NEW t \in Tenants, Lapse(t)
        PROVE  req'[r] = req[r]
    BY <1>4 DEF Lapse
  <1> QED BY <1>1, <1>2, <1>3, <1>4 DEF Next, Moves

\* Where the two steps that write an entry lead.
LEMMA Writing ==
    ASSUME TypeOK, Knowing, NEW r \in Requests
    PROVE  /\ RecordBlocked(r) /\ audits' # audits =>
                /\ req'[r].pc \in {"blocked", "failed"}
                /\ audits' = audits \cup
                     {[request |-> r, kind |-> "blocked",
                       tenant |-> SessionTenant(req[r].user)]}
           /\ WriteEntry(r) =>
                /\ req'[r].pc = "done" /\ AuditId(req'[r]) = AuditId(req[r])
                /\ \/ audits' = audits \cup
                        {[request |-> r, kind |-> "success", tenant |-> AuditId(req[r])]}
                   \/ audits' = audits /\ ~Exists(AuditId(req[r]))
  <1>1. req[r] # Null =>
          \A pc : Goto(r, pc) => req'[r].pc = pc /\ AuditId(req'[r]) = AuditId(req[r])
    BY GotoGoes DEF AuditId
  <1>2. ASSUME RecordBlocked(r), audits' # audits
        PROVE  /\ req'[r].pc \in {"blocked", "failed"}
               /\ audits' = audits \cup
                    {[request |-> r, kind |-> "blocked",
                      tenant |-> SessionTenant(req[r].user)]}
    BY <1>1, <1>2 DEF RecordBlocked, FailLate, At
  <1>3. ASSUME WriteEntry(r)
        PROVE  /\ req'[r].pc = "done" /\ AuditId(req'[r]) = AuditId(req[r])
               /\ \/ audits' = audits \cup
                       {[request |-> r, kind |-> "success", tenant |-> AuditId(req[r])]}
                  \/ audits' = audits /\ ~Exists(AuditId(req[r]))
    BY <1>1, <1>3 DEF WriteEntry, At
  <1> QED BY <1>2, <1>3

LEMMA EntriesStep ==
    ASSUME TypeOK, Knowing, Entries, [Next]_vars
    PROVE  Entries'
  <1>1. ASSUME NEW e \in audits
        PROVE  /\ e.request \in Requests /\ req'[e.request] # Null
               /\ EntryIsTrue(e)'
               /\ e.kind = "success" => e.tenant = AuditId(req'[e.request])
    <2>1. /\ e.request \in Requests /\ req[e.request] # Null /\ EntryIsTrue(e)
          /\ e.kind = "success" => e.tenant = AuditId(req[e.request])
      BY <1>1 DEF Entries
    <2>2. req'[e.request] = req[e.request]
      BY <2>1, EndedStays DEF EntryIsTrue, Moving
    <2> QED BY <2>1, <2>2 DEF EntryIsTrue
  <1>2. ASSUME NEW e \in audits', e \notin audits
        PROVE  /\ e.request \in Requests /\ req'[e.request] # Null
               /\ EntryIsTrue(e)'
               /\ e.kind = "success" => e.tenant = AuditId(req'[e.request])
    <2>1. PICK r \in Requests : Moves(r)
      BY <1>2 DEF Next, vars, Moves, Arrive, Lapse
    <2>2. /\ req[r] # Null /\ Knows(req[r]) /\ req'[r] # Null
          /\ req'[r].user = req[r].user /\ req'[r].route = req[r].route
      BY <2>1, MoveKeeps, NullAssumption DEF Knowing
    <2>3. CASE RecordBlocked(r)
      <3>1. e = [request |-> r, kind |-> "blocked", tenant |-> SessionTenant(req[r].user)]
        BY <1>2, <2>3, Writing
      <3>2. e.request = r /\ e.kind = "blocked" /\ e.tenant = SessionTenant(req[r].user)
        BY <3>1
      <3>3. req'[r].pc \in {"blocked", "failed"}
        BY <1>2, <2>3, Writing
      <3>4. req[r].route.blocked /\ req[r].user.impersonating
        BY <2>2, <2>3 DEF RecordBlocked, At, Knows
      <3>5. EntryIsTrue(e)'
        BY <2>2, <2>3, <3>2, <3>3, <3>4 DEF EntryIsTrue, RecordBlocked, At, Knows
      <3> QED BY <2>2, <3>2, <3>5
    <2>4. CASE WriteEntry(r)
      <3>1. e = [request |-> r, kind |-> "success", tenant |-> AuditId(req[r])]
        BY <1>2, <2>4, Writing
      <3>2. e.request = r /\ e.kind = "success" /\ e.tenant = AuditId(req[r])
        BY <3>1
      <3>3. req'[r].pc = "done" /\ AuditId(req'[r]) = AuditId(req[r])
        BY <2>4, Writing
      <3>4. req'[r].route.audit # Null /\ req'[r].user # Null
        BY <2>2, <2>4 DEF WriteEntry, At, Knows
      <3>5. e.tenant = Subject(req'[r]) \/ (Astray(req'[r]) /\ e.tenant = req'[r].query)
        <4>1. req'[r] \in Request /\ req'[r].user \in Users
          BY <2>1, <2>2, <3>4, MoveKeeps, Rows
        <4> QED BY <3>2, <3>3, <3>4, <4>1, AuditIdIs
      <3>6. EntryIsTrue(e)'
        BY <3>2, <3>3, <3>4, <3>5 DEF EntryIsTrue
      <3> QED BY <2>2, <3>2, <3>3, <3>6
    <2> QED BY <1>2, <2>1, <2>3, <2>4, OldEntries
  <1> QED BY <1>1, <1>2 DEF Entries

\* Entries go only with their tenant.
LEMMA EntriesStay ==
    ASSUME [Next]_vars, NEW e \in audits, e \notin audits'
    PROVE  e.tenant \in gone'
  <1>1. \/ audits \subseteq audits'
        \/ \E r \in Requests : DeleteTenant(r)
    BY DEF Next, vars, Guards, Handlers, Interceptor, Arrive, Lapse, LoadTenant,
           LiftSuspension, RecordBlocked, DatabaseFails, CreateTenant, UpdateTenant,
           FindLapsed, ReviveTenant, HandleOther, HandlerThrows, WriteEntry, LoseEntry
  <1> QED BY <1>1 DEF DeleteTenant

LEMMA HistoriesGrow ==
    ASSUME [Next]_vars
    PROVE  gone \subseteq gone' /\ lost \subseteq lost'
  BY DEF Next, vars, Guards, Handlers, Interceptor, Arrive, Lapse, LoadTenant,
         LiftSuspension, RecordBlocked, DatabaseFails, CreateTenant, UpdateTenant,
         DeleteTenant, FindLapsed, ReviveTenant, HandleOther, HandlerThrows,
         WriteEntry, LoseEntry

\* A request ends well by its answer or by the write of its entry.
LEMMA Finishing ==
    ASSUME TypeOK, Knowing, [Next]_vars, NEW r \in Requests,
           req'[r] # Null, req'[r].pc = "done", ~(req[r] # Null /\ req[r].pc = "done")
    PROVE  \/ WriteEntry(r) \/ LoseEntry(r)
           \/ req'[r].route.audit = Null \/ AuditId(req'[r]) = Null
  <1>1. Moves(r)
    <2>1. CASE UNCHANGED vars
      BY <2>1 DEF vars
    <2>2. ASSUME NEW s \in Requests, Moves(s), s # r
          PROVE  FALSE
      BY <2>2, MoveKeeps
    <2>3. ASSUME NEW s \in Requests, NEW c \in Claims, NEW route \in Routes,
                 NEW target \in Targets(route), NEW query \in Queries(c, route),
           Arrive(s, c, route, target, query)
          PROVE  FALSE
      BY <2>3, ArriveKeeps
    <2>4. ASSUME NEW t \in Tenants, Lapse(t)
          PROVE  FALSE
      BY <2>4 DEF Lapse
    <2> QED BY <2>1, <2>2, <2>3, <2>4 DEF Next, Moves
  <1>2. /\ req[r] # Null /\ req[r].target \in Tenants \cup {Null}
        /\ \A pc : Goto(r, pc) => req'[r].pc = pc
    BY <1>1, MoveKeeps, Rows, GotoGoes
  <1>3. ASSUME NEW t \in Tenants \cup {Null}, Succeed(r, t)
        PROVE  req'[r].route.audit = Null \/ AuditId(req'[r]) = Null
    BY <1>2, <1>3, SucceedGoes
  <1>4. CASE LoadTenant(r) \/ LiftSuspension(r)
    <2>1. AfterPolicy(req[r].user, req[r].route) # "done"
      BY DEF AfterPolicy
    <2> QED BY <1>2, <1>4, <2>1 DEF LoadTenant, LiftSuspension, FailLate
  <1>5. CASE RecordBlocked(r) \/ DatabaseFails(r) \/ FindLapsed(r) \/ HandlerThrows(r)
    BY <1>2, <1>5 DEF RecordBlocked, FailLate, DatabaseFails, FindLapsed, HandlerThrows
  <1>6. CASE CreateTenant(r) \/ UpdateTenant(r) \/ DeleteTenant(r)
             \/ ReviveTenant(r) \/ HandleOther(r)
    <2>1. Goto(r, "failed") \/ \E t \in Tenants \cup {Null} : Succeed(r, t)
      BY <1>2, <1>6 DEF CreateTenant, UpdateTenant, DeleteTenant, ReviveTenant,
                        HandleOther, Answer, FailLate
    <2> QED BY <1>2, <1>3, <2>1
  <1> QED BY <1>1, <1>4, <1>5, <1>6 DEF Moves, Guards, Handlers, Interceptor

LEMMA CompleteStep ==
    ASSUME TypeOK, Knowing, Grounded, Entries, Complete, [Next]_vars
    PROVE  Complete'
  <1> SUFFICES ASSUME NEW r \in Requests \ lost',
                      req'[r] # Null, req'[r].pc = "done", req'[r].route.audit # Null,
                      AuditId(req'[r]) \notin gone' \cup {Null, Unknown}
               PROVE  \E e \in audits' : e.request = r /\ e.kind = "success"
    BY DEF Complete
  <1>1. gone \subseteq gone' /\ r \notin lost
    BY HistoriesGrow
  <1>2. CASE req[r] # Null /\ req[r].pc = "done"
    <2>1. req'[r] = req[r]
      BY <1>2, EndedStays DEF Moving
    <2>2. PICK e \in audits : e.request = r /\ e.kind = "success"
      BY <1>1, <1>2, <2>1 DEF Complete
    <2>3. e.tenant = AuditId(req[r])
      BY <2>2 DEF Entries
    <2> QED BY <2>1, <2>2, <2>3, EntriesStay
  <1>3. CASE WriteEntry(r)
    <2>1. At(r, "logging") /\ req[r] # Null /\ AuditId(req[r]) = AuditId(req'[r])
      BY <1>3, Writing DEF WriteEntry, At
    <2>2. /\ req[r] \in Request /\ req[r].user \in Users /\ req[r].user # Null
          /\ AuditId(req[r]) \in Tenants
      BY <2>1, EntryTenant, Rows, NullAssumption DEF Ids
    <2>3. \/ AuditId(req[r]) \in {req[r].user.tenant, req[r].user.actorTenant}
          \/ AuditId(req[r]) = req[r].query
          \/ AuditId(req[r]) = req[r].target
      BY <2>2, AuditIdIs
    <2>4. tenants[AuditId(req[r])] # "none"
      BY <2>1, <2>2, <2>3, NullAssumption DEF Grounded, At, Ids
    <2>5. Exists(AuditId(req[r]))
      BY <1>1, <2>1, <2>2, <2>4 DEF Grounded, Exists, TypeOK, TenantStates
    <2>6. [request |-> r, kind |-> "success", tenant |-> AuditId(req[r])] \in audits'
      BY <1>3, <2>5, Writing
    <2> QED BY <2>6
  <1>4. ASSUME LoseEntry(r)
        PROVE  FALSE
    BY <1>4 DEF LoseEntry
  <1> QED BY <1>2, <1>3, <1>4, Finishing

LEMMA BlockedStep ==
    ASSUME TypeOK, Knowing, Grounded, Entries, BlockedLeavesTrace, [Next]_vars
    PROVE  BlockedLeavesTrace'
  <1> SUFFICES ASSUME NEW r \in Requests, req'[r] # Null, req'[r].pc = "blocked",
                      SessionTenant(req'[r].user) # Null,
                      SessionTenant(req'[r].user) \notin gone'
               PROVE  \E e \in audits' : e.request = r /\ e.kind = "blocked"
    BY DEF BlockedLeavesTrace
  <1>1. gone \subseteq gone'
    BY HistoriesGrow
  <1>2. CASE req[r] # Null /\ req[r].pc = "blocked"
    <2>1. req'[r] = req[r]
      BY <1>2, EndedStays DEF Moving
    <2>2. PICK e \in audits : e.request = r /\ e.kind = "blocked"
      BY <1>1, <1>2, <2>1 DEF BlockedLeavesTrace
    <2>3. e.tenant = SessionTenant(req[r].user)
      BY <1>2, <2>2 DEF Entries, EntryIsTrue
    <2> QED BY <2>1, <2>2, <2>3, EntriesStay
  <1>3. CASE ~(req[r] # Null /\ req[r].pc = "blocked")
    <2>1. Moves(r)
      <3>1. CASE UNCHANGED vars
        BY <1>3, <3>1 DEF vars
      <3>2. ASSUME NEW s \in Requests, Moves(s), s # r
            PROVE  FALSE
        BY <1>3, <3>2, MoveKeeps
      <3>3. ASSUME NEW s \in Requests, NEW c \in Claims, NEW route \in Routes,
                   NEW target \in Targets(route), NEW query \in Queries(c, route),
           Arrive(s, c, route, target, query)
            PROVE  FALSE
        BY <1>3, <3>3, ArriveKeeps
      <3>4. ASSUME NEW t \in Tenants, Lapse(t)
            PROVE  FALSE
        BY <1>3, <3>4 DEF Lapse
      <3> QED BY <3>1, <3>2, <3>3, <3>4 DEF Next, Moves
    <2>2. /\ req[r] # Null /\ Knows(req[r]) /\ req[r].route \in RouteSpecs
          /\ req[r].target \in Tenants \cup {Null}
          /\ req'[r].user = req[r].user
          /\ \A pc : Goto(r, pc) => req'[r].pc = pc
      BY <2>1, MoveKeeps, Rows, GotoGoes DEF Knowing
    <2>3. RecordBlocked(r)
      <3>1. CASE LoadTenant(r) \/ LiftSuspension(r)
        <4>1. req[r].user \in Users
          BY <2>2, <3>1, Rows DEF LoadTenant, LiftSuspension, At, Knows
        <4>2. AfterPolicy(req[r].user, req[r].route) # "blocked"
          BY <2>2, <4>1, AfterPolicyGoes
        <4> QED BY <2>2, <3>1, <4>2 DEF LoadTenant, LiftSuspension, FailLate
      <3>2. CASE DatabaseFails(r) \/ FindLapsed(r) \/ HandlerThrows(r) \/ Interceptor(r)
        BY <2>2, <3>2 DEF DatabaseFails, FindLapsed, HandlerThrows, Interceptor,
                          WriteEntry, LoseEntry
      <3>3. CASE CreateTenant(r) \/ UpdateTenant(r) \/ DeleteTenant(r)
                 \/ ReviveTenant(r) \/ HandleOther(r)
        <4>1. Goto(r, "failed") \/ \E t \in Tenants \cup {Null} : Succeed(r, t)
          BY <2>2, <3>3 DEF CreateTenant, UpdateTenant, DeleteTenant, ReviveTenant,
                            HandleOther, Answer, FailLate
        <4> QED BY <2>2, <4>1, SucceedGoes
      <3> QED BY <2>1, <3>1, <3>2, <3>3 DEF Moves, Guards, Handlers
    <2>4. audits' = audits \cup {[request |-> r, kind |-> "blocked",
                                  tenant |-> SessionTenant(req[r].user)]}
      <3>1. ~Goto(r, "failed")
        BY <2>2
      <3> QED BY <2>3, <3>1 DEF RecordBlocked, FailLate
    <2>5. [request |-> r, kind |-> "blocked", tenant |-> SessionTenant(req[r].user)] \in audits'
      BY <2>4
    <2> QED BY <2>5
  <1> QED BY <1>2, <1>3

-----------------------------------------------------------------------------
(* Theorems.                                                               *)

LEMMA Invariance == Spec => []IInv
  <1>1. Init => IInv
    <2> SUFFICES ASSUME Init PROVE IInv
      OBVIOUS
    <2>1. TypeOK
      BY TypeInit
    <2>2. Knowing /\ Standing /\ BlockedLeavesTrace /\ Complete
      BY DEF Init, Knowing, Standing, BlockedLeavesTrace, Complete
    <2>3. Grounded /\ Entries
      BY DEF Init, Grounded, Entries
    <2> QED BY <2>1, <2>2, <2>3 DEF IInv
  <1>2. IInv /\ [Next]_vars => IInv'
    BY TypeStep, KnowingStep, StandingStep, GroundedStep, EntriesStep,
       CompleteStep, BlockedStep DEF IInv
  <1> QED BY <1>1, <1>2, PTL DEF Spec

\* Every variable of Access keeps its shape; nobody is let in without one
\* of the three roles, whatever its token says (JwtStrategy.validate).
THEOREM AccessTypes == Spec => []TypeOK
  <1>1. IInv => TypeOK
    BY DEF IInv
  <1> QED BY <1>1, Invariance, PTL

\* Whoever reaches a handler of a tenant's route had a tenant in good
\* standing at some moment since it arrived (AccessPolicyGuard).
THEOREM HandlersSeeGoodStanding == Spec => []HandledInGoodStanding
  <1>1. IInv => HandledInGoodStanding
    BY DEF IInv, Standing, HandledInGoodStanding
  <1> QED BY <1>1, Invariance, PTL

\* The audit trail is true, and complete but for refused writes, deleted
\* tenants and ids in queries that are no tenant's (AuditInterceptor,
\* BlockImpersonationGuard).
THEOREM TheTrailIsTrue == Spec => []TrailIsTrue
  <1>1. ASSUME IInv
        PROVE  TrailIsTrue
    <2>1. ASSUME NEW r \in Requests \ lost, Auditable(r)
          PROVE  \/ \E e \in audits : e.request = r /\ e.kind = "success"
                 \/ ~Astray(req[r]) /\ Subject(req[r]) \in gone
                 \/ Astray(req[r]) /\ req[r].query \in gone \cup {Unknown}
      <3>1. req[r] \in Request /\ req[r].user \in Users /\ req[r].user # Null
        BY <1>1, <2>1, Rows DEF IInv, Auditable
      <3>2. /\ ~Astray(req[r]) => AuditId(req[r]) = Subject(req[r])
            /\ Astray(req[r]) => AuditId(req[r]) = req[r].query /\ req[r].query # Null
        BY <3>1, AuditIdIs
      <3>3. Subject(req[r]) # Unknown
        BY <3>1, AuditIdIs, NullAssumption DEF Subject, Request, Ids
      <3> QED BY <1>1, <2>1, <3>2, <3>3 DEF IInv, Complete, Auditable
    <2> QED BY <1>1, <2>1 DEF IInv, Entries, TrailIsTrue
  <1> QED BY <1>1, Invariance, PTL

\* No refusal of an impersonated request goes unrecorded
\* (BlockImpersonationGuard).
THEOREM BlockedRequestsLeaveTraces == Spec => []BlockedLeavesTrace
  <1>1. IInv => BlockedLeavesTrace
    BY DEF IInv
  <1> QED BY <1>1, Invariance, PTL

=============================================================================
