---------------------------- MODULE EventsProofs ----------------------------
(***************************************************************************)
(* The safety properties of Events, and that it implements Intake, for any *)
(* number of processes, messages, deliveries, tenants and failures.        *)
(***************************************************************************)
EXTENDS Events, TLAPS, FiniteSetTheorems

Deliveries == [Messages -> [Attempts -> Delivery \cup {Null}]]

-----------------------------------------------------------------------------
(* Types.                                                                  *)

LEMMA ClientTypeStep ==
    ASSUME ClientTypeOK, NEW p \in Procs, ClientStep(p) \/ ProcessEnds(p)
    PROVE  ClientTypeOK'
  <1> USE DEF ClientTypeOK, ProcStates, LinkStates, LoopStates, Silent
  <1>1. \/ mishaps' = mishaps
        \/ Mishap
    BY DEF ClientStep, ProcessEnds, Boot, Subscribe, LoopFails, Serve, LinkLost,
           Reconnect, GiveUp, BootFails, Die
  <1>2. mishaps' \in 0 .. MaxMishaps
    BY <1>1, MishapsAssumption DEF Mishap
  <1>3. CASE ProcessEnds(p)
    <2>1. Gone(p) /\ durables' = durables
      BY <1>3 DEF ProcessEnds, BootFails, Die
    <2>2. Silent \in [Listeners -> LoopStates]
      OBVIOUS
    <2> HIDE DEF Silent
    <2>3. loop' \in [Procs -> [Listeners -> LoopStates]]
      BY <2>1, <2>2 DEF Gone
    <2>4. proc' \in [Procs -> ProcStates] /\ link' \in [Procs -> LinkStates]
      BY <2>1 DEF Gone
    <2> QED BY <1>2, <2>1, <2>3, <2>4
  <1>4. CASE Boot(p)
    BY <1>2, <1>4 DEF Boot
  <1>5. ASSUME NEW l \in Listeners, Subscribe(p, l) \/ LoopFails(p, l)
        PROVE  ClientTypeOK'
    <2>1. loop[p] \in [Listeners -> LoopStates]
      OBVIOUS
    <2>2. PICK s \in {"running", "ended"} :
            loop' = [loop EXCEPT ![p] = [loop[p] EXCEPT ![l] = s]]
      BY <1>5 DEF Subscribe, LoopFails
    <2>3. [loop[p] EXCEPT ![l] = s] \in [Listeners -> LoopStates]
      BY <2>1
    <2>4. loop' \in [Procs -> [Listeners -> LoopStates]]
      BY <2>2, <2>3
    <2>5. durables' \subseteq Listeners
      BY <1>5 DEF Subscribe, LoopFails
    <2> QED BY <1>2, <1>5, <2>4, <2>5 DEF Subscribe, LoopFails
  <1>6. CASE Serve(p) \/ LinkLost(p) \/ Reconnect(p)
    BY <1>2, <1>6 DEF Serve, LinkLost, Reconnect
  <1>7. CASE GiveUp(p)
    <2> DEFINE quiet == [l \in Listeners |-> IF loop[p][l] = "absent"
                                             THEN "absent" ELSE "ended"]
    <2>1. quiet \in [Listeners -> LoopStates]
      OBVIOUS
    <2>2. loop' = [loop EXCEPT ![p] = quiet]
      BY <1>7 DEF GiveUp
    <2> HIDE DEF quiet
    <2>3. loop' \in [Procs -> [Listeners -> LoopStates]]
      BY <2>1, <2>2
    <2> QED BY <1>2, <1>7, <2>3 DEF GiveUp
  <1> QED BY <1>3, <1>4, <1>5, <1>6, <1>7 DEF ClientStep

\* The other steps touch the bound on failures at most.
LEMMA ClientTypeRest ==
    ASSUME ClientTypeOK, UNCHANGED <<proc, link, loop, durables>>,
           mishaps' = mishaps \/ Mishap
    PROVE  ClientTypeOK'
  <1>1. mishaps' \in 0 .. MaxMishaps
    BY MishapsAssumption DEF ClientTypeOK, Mishap
  <1> QED BY <1>1 DEF ClientTypeOK

\* A handler's step moves one delivery.
LEMMA GotoGoes ==
    ASSUME delivery \in Deliveries, NEW m \in Messages, NEW i \in Attempts,
           delivery[m][i] # Null, NEW pc \in {"held", "stored", "over"}, Goto(m, i, pc)
    PROVE  /\ delivery' \in Deliveries
           /\ delivery'[m][i] # Null /\ delivery'[m][i].pc = pc
           /\ delivery'[m][i].proc = delivery[m][i].proc
           /\ \A n \in Messages, k \in Attempts :
                n # m \/ k # i => delivery'[n][k] = delivery[n][k]
  <1> DEFINE d == [delivery[m][i] EXCEPT !.pc = pc]
  <1>1. delivery[m][i] \in Delivery
    BY DEF Deliveries
  <1>2. d \in Delivery /\ d.pc = pc /\ d.proc = delivery[m][i].proc
    BY <1>1 DEF Delivery
  <1>3. delivery' = [delivery EXCEPT ![m] = [delivery[m] EXCEPT ![i] = d]]
    BY DEF Goto
  <1> HIDE DEF d
  <1>4. delivery'[m] = [delivery[m] EXCEPT ![i] = d]
    BY <1>3 DEF Deliveries
  <1>5. delivery[m] \in [Attempts -> Delivery \cup {Null}]
    BY DEF Deliveries
  <1>6. delivery'[m] \in [Attempts -> Delivery \cup {Null}] /\ delivery'[m][i] = d
    BY <1>2, <1>4, <1>5
  <1>7. \A k \in Attempts : k # i => delivery'[m][k] = delivery[m][k]
    BY <1>4, <1>5
  <1>8. \A n \in Messages : n # m => delivery'[n] = delivery[n]
    BY <1>3 DEF Deliveries
  <1>9. delivery' \in Deliveries
    BY <1>3, <1>6, <1>8 DEF Deliveries
  <1>10. d # Null
    BY <1>2, DataAssumption
  <1> QED BY <1>2, <1>6, <1>7, <1>8, <1>9, <1>10

\* A message is given to a process, or to a connection that has gone.
Give(m, i, d) == delivery' = [delivery EXCEPT ![m][i] = d]

LEMMA GivenGoes ==
    ASSUME delivery \in Deliveries, NEW m \in Messages, NEW i \in Attempts,
           NEW d \in Delivery, Give(m, i, d)
    PROVE  /\ delivery' \in Deliveries
           /\ delivery'[m][i] = d /\ d # Null
           /\ \A n \in Messages, k \in Attempts :
                n # m \/ k # i => delivery'[n][k] = delivery[n][k]
  <1>1. delivery'[m] = [delivery[m] EXCEPT ![i] = d]
    BY DEF Give, Deliveries
  <1>2. delivery[m] \in [Attempts -> Delivery \cup {Null}]
    BY DEF Deliveries
  <1>3. delivery'[m] \in [Attempts -> Delivery \cup {Null}] /\ delivery'[m][i] = d
    BY <1>1, <1>2
  <1>4. \A k \in Attempts : k # i => delivery'[m][k] = delivery[m][k]
    BY <1>1, <1>2
  <1>5. \A n \in Messages : n # m => delivery'[n] = delivery[n]
    BY DEF Give, Deliveries
  <1>6. delivery' \in Deliveries
    BY <1>3, <1>5 DEF Give, Deliveries
  <1>7. d # Null
    BY DataAssumption
  <1> QED BY <1>3, <1>4, <1>5, <1>6, <1>7

\* The end of a process ends its deliveries and gives none.
LEMMA EndGoes ==
    ASSUME delivery \in Deliveries, NEW p \in Procs, EndProcess(p)
    PROVE  /\ delivery' \in Deliveries
           /\ \A m \in Messages, i \in Attempts :
                /\ delivery'[m][i] = Null <=> delivery[m][i] = Null
                /\ delivery[m][i] # Null =>
                     \/ delivery'[m][i] = delivery[m][i]
                     \/ delivery'[m][i].pc = "over"
                /\ i \in UnderWay(m) /\ delivery[m][i].proc # p =>
                     delivery'[m][i] = delivery[m][i]
                /\ delivery[m][i] # Null /\ delivery[m][i].proc = p =>
                     delivery'[m][i].pc = "over"
  <1> DEFINE cut(m) == {i \in UnderWay(m) : delivery[m][i].proc = p}
             new(m, i) == IF i \in cut(m) THEN [delivery[m][i] EXCEPT !.pc = "over"]
                                          ELSE delivery[m][i]
  <1>1. delivery' = [m \in Messages |-> [i \in Attempts |-> new(m, i)]]
    BY DEF EndProcess
  <1>2. ASSUME NEW m \in Messages, NEW i \in Attempts
        PROVE  /\ new(m, i) \in Delivery \cup {Null}
               /\ new(m, i) = Null <=> delivery[m][i] = Null
               /\ delivery[m][i] # Null =>
                    new(m, i) = delivery[m][i] \/ new(m, i).pc = "over"
               /\ i \in UnderWay(m) /\ delivery[m][i].proc # p =>
                    new(m, i) = delivery[m][i]
               /\ delivery[m][i] # Null /\ delivery[m][i].proc = p =>
                    new(m, i).pc = "over"
    <2>1. delivery[m][i] \in Delivery \cup {Null}
      BY DEF Deliveries
    <2>2. CASE i \in cut(m)
      <3>1. delivery[m][i] \in Delivery
        BY <2>1, <2>2 DEF UnderWay, Given
      <3>2. /\ [delivery[m][i] EXCEPT !.pc = "over"] \in Delivery
            /\ [delivery[m][i] EXCEPT !.pc = "over"].pc = "over"
        BY <3>1 DEF Delivery
      <3> QED BY <2>2, <3>1, <3>2, DataAssumption
    <2>3. CASE i \notin cut(m)
      BY <2>1, <2>3 DEF UnderWay, Given
    <2> QED BY <2>2, <2>3
  <1> HIDE DEF new
  <1> QED BY <1>1, <1>2 DEF Deliveries

\* A row belongs to its message and its tenant.
LEMMA RowGoes ==
    ASSUME NEW m \in Messages, NEW i \in Attempts, content[m] \in Published,
           Understood(content[m])
    PROVE  /\ TenantOf(content[m]) \in Tenants
           /\ Row(m, i).msg = m /\ Row(m, i).attempt = i
           /\ Row(m, i).tenant = TenantOf(content[m])
  <1>1. content[m] \in Contents
    BY DataAssumption
  <1> QED BY <1>1 DEF Row, Understood, TenantOf, Contents

\* Attempts are made one by one.
Ordered ==
    \A m \in Messages, i, k \in Attempts :
        k < i /\ i \in Given(m) => k \in Given(m)

RowTypes ==
    \A r \in alerts \cup audits :
        r.msg \in Messages /\ r.attempt \in Attempts /\ r.tenant \in Tenants

LEMMA TypeParts ==
    TypeOK <=> /\ ClientTypeOK /\ tenants \subseteq Tenants
               /\ content \in [Messages -> Published \cup {Null}]
               /\ missed \subseteq Messages /\ acked \subseteq Messages
               /\ delivery \in Deliveries /\ Ordered /\ RowTypes
               /\ slips \in [Messages -> Nat]
  BY DEF TypeOK, Deliveries, Ordered, RowTypes

LEMMA TypePartsNext ==
    ASSUME ClientTypeOK', tenants' \subseteq Tenants,
           content' \in [Messages -> Published \cup {Null}],
           missed' \subseteq Messages, acked' \subseteq Messages,
           delivery' \in Deliveries, Ordered', RowTypes',
           slips' \in [Messages -> Nat]
    PROVE  TypeOK'
  BY DEF TypeOK, Deliveries, Ordered, RowTypes

\* What is delivered or acknowledged was published.
Known ==
    \A m \in Messages : m \in acked \/ Given(m) # {} => content[m] # Null

\* What is given to a message is given next.
LEMMA OrderedGiven ==
    ASSUME Ordered, NEW m \in Messages, NEW i \in Attempts, Given(m) = 1 .. i - 1,
           delivery'[m][i] # Null,
           \A n \in Messages, k \in Attempts :
              n # m \/ k # i => delivery'[n][k] = delivery[n][k]
    PROVE  Ordered'
  <1>1. ASSUME NEW n \in Messages, NEW j \in Attempts, NEW k \in Attempts,
               k < j, j \in Given(n)'
        PROVE  k \in Given(n)'
    <2>1. CASE n = m /\ j = i
      <3>1. k \in Given(m)
        BY <1>1, <2>1, DeliverAssumption DEF Attempts
      <3> QED BY <2>1, <3>1 DEF Given
    <2>2. CASE n # m \/ j # i
      <3>1. j \in Given(n)
        BY <1>1, <2>2 DEF Given
      <3>2. k \in Given(n)
        BY <1>1, <3>1 DEF Ordered
      <3> QED BY <2>2, <3>2 DEF Given
    <2> QED BY <2>1, <2>2
  <1> QED BY <1>1 DEF Ordered

\* Deliveries that stay given stay in order.
LEMMA OrderedKept ==
    ASSUME Ordered, \A m \in Messages, i \in Attempts :
                      delivery'[m][i] = Null <=> delivery[m][i] = Null
    PROVE  Ordered'
  BY DEF Ordered, Given

LEMMA TypeStep ==
    ASSUME TypeOK, Known, [Next]_vars
    PROVE  TypeOK'
  <1> USE TypeParts, TypePartsNext
  <1>1. CASE UNCHANGED vars
    BY <1>1 DEF vars, clientVars, storeVars, streamVars, ClientTypeOK, Ordered,
                Given, RowTypes, Deliveries
  <1>2. ASSUME NEW m \in Messages, NEW c \in Published, Publish(m, c)
        PROVE  TypeOK'
    <2>1. ClientTypeOK' /\ Ordered' /\ RowTypes'
      BY <1>2, ClientTypeRest DEF Publish, clientVars, storeVars, Ordered, Given, RowTypes
    <2>2. content' \in [Messages -> Published \cup {Null}] /\ missed' \subseteq Messages
      BY <1>2 DEF Publish
    <2> QED BY <1>2, <2>1, <2>2 DEF Publish, storeVars, Deliveries
  <1>3. ASSUME NEW m \in Messages, NEW i \in Attempts, NEW p \in Procs, Deliver(m, i, p)
        PROVE  TypeOK'
    <2>1. PICK d \in Delivery : Give(m, i, d)
      BY <1>3 DEF Deliver, Delivery, Give
    <2>2. delivery' \in Deliveries /\ Ordered'
      <3> HIDE TypeParts, TypePartsNext
      <3>0. delivery \in Deliveries
        BY TypeParts
      <3>1. /\ delivery' \in Deliveries /\ delivery'[m][i] # Null
            /\ \A n \in Messages, k \in Attempts :
                 n # m \/ k # i => delivery'[n][k] = delivery[n][k]
        BY <2>1, <3>0, GivenGoes
      <3> QED BY <1>3, <3>1, OrderedGiven, TypeParts DEF Deliver
    <2>3. ClientTypeOK'
      BY <1>3, ClientTypeRest DEF Deliver
    <2>4. slips' \in [Messages -> Nat]
      BY <1>3 DEF Deliver
    <2> QED BY <1>3, <2>2, <2>3, <2>4 DEF Deliver, storeVars, RowTypes
  <1>4. ASSUME NEW m \in Messages, NEW i \in Attempts, LoseDelivery(m, i)
        PROVE  TypeOK'
    <2>1. PICK d \in Delivery : Give(m, i, d)
      BY <1>4 DEF LoseDelivery, Delivery, Give
    <2>3. delivery' \in Deliveries /\ Ordered'
      <3> HIDE TypeParts, TypePartsNext
      <3>0. delivery \in Deliveries
        BY TypeParts
      <3>1. /\ delivery' \in Deliveries /\ delivery'[m][i] # Null
            /\ \A n \in Messages, k \in Attempts :
                 n # m \/ k # i => delivery'[n][k] = delivery[n][k]
        BY <2>1, <3>0, GivenGoes
      <3> QED BY <1>4, <3>1, OrderedGiven, TypeParts DEF LoseDelivery
    <2>4. ClientTypeOK'
      BY <1>4, ClientTypeRest DEF LoseDelivery
    <2> QED BY <1>4, <2>3, <2>4 DEF LoseDelivery, storeVars, RowTypes
  <1>5. ASSUME NEW m \in Messages, NEW i \in Attempts, Handle(m, i) \/ Forget(m, i)
        PROVE  TypeOK'
    <2>1. /\ delivery[m][i] # Null
          /\ \E pc \in {"stored", "over"} : Goto(m, i, pc)
      BY <1>5 DEF Handle, Forget, Skip, Store, StoreFails, Ack, Held
    <2>2. delivery' \in Deliveries
      BY <2>1, GotoGoes
    <2>3. \A n \in Messages, k \in Attempts :
            delivery'[n][k] = Null <=> delivery[n][k] = Null
      BY <2>1, GotoGoes
    <2>4. Ordered'
      BY <2>3, OrderedKept
    <2>5. /\ UNCHANGED <<proc, link, loop, durables, tenants, content, missed>>
          /\ mishaps' = mishaps \/ Mishap
      BY <1>5 DEF Handle, Forget, Skip, Store, StoreFails, Ack, AckOver, clientVars, storeVars
    <2>6. ClientTypeOK'
      BY <2>5, ClientTypeRest
    <2>7. acked' \subseteq Messages
      BY <1>5 DEF Handle, Forget, Skip, Store, StoreFails, Ack, AckOver
    <2>8. slips' \in [Messages -> Nat]
      BY <1>5 DEF Handle, Forget, Skip, Store, StoreFails, Ack, AckOver
    <2>9. RowTypes'
      <3>1. CASE Store(m, i)
        <4>1. content[m] \in Published
          BY <2>1 DEF Known, Given
        <4>2. \A r \in alerts' \cup audits' : r \in alerts \cup audits \/ r = Row(m, i)
          BY <3>1 DEF Store, SaveAlert, LogAuditEvent
        <4> QED BY <3>1, <4>1, <4>2, RowGoes DEF Store, RowTypes
      <3>2. CASE ~Store(m, i)
        BY <1>5, <3>2 DEF Handle, Forget, Skip, StoreFails, Ack, storeVars, RowTypes
      <3> QED BY <3>1, <3>2
    <2> QED BY <2>2, <2>4, <2>5, <2>6, <2>7, <2>8, <2>9
  <1>6. ASSUME NEW t \in Tenants, DeleteTenant(t)
        PROVE  TypeOK'
    <2>1. ClientTypeOK' /\ Ordered' /\ RowTypes'
      BY <1>6, ClientTypeRest DEF DeleteTenant, clientVars, streamVars, Ordered, Given, RowTypes
    <2> QED BY <1>6, <2>1 DEF DeleteTenant, streamVars, Deliveries
  <1>7. ASSUME NEW p \in Procs, EndProcess(p)
        PROVE  TypeOK'
    <2>1. delivery' \in Deliveries /\ Ordered'
      BY <1>7, EndGoes, OrderedKept
    <2>2. ClientTypeOK'
      BY <1>7, ClientTypeStep DEF EndProcess
    <2>3. slips' \in [Messages -> Nat]
      <3> DEFINE stored(m) == {i \in {k \in UnderWay(m) : delivery[m][k].proc = p} :
                                 delivery[m][i].pc = "stored"}
      <3>1. slips' = [m \in Messages |-> slips[m] + Cardinality(stored(m))]
        BY <1>7 DEF EndProcess
      <3>2. ASSUME NEW m \in Messages
            PROVE  Cardinality(stored(m)) \in Nat
        <4>1. stored(m) \subseteq 1 .. MaxDeliver
          BY DEF UnderWay, Given, Attempts
        <4>2. IsFiniteSet(1 .. MaxDeliver)
          BY FS_Interval, DeliverAssumption
        <4> HIDE DEF stored
        <4>3. IsFiniteSet(stored(m))
          BY <4>1, <4>2, FS_Subset
        <4> QED BY <4>3, FS_CardinalityType
      <3> HIDE DEF stored
      <3> QED BY <3>1, <3>2
    <2> QED BY <1>7, <2>1, <2>2, <2>3 DEF EndProcess, storeVars, RowTypes
  <1>8. ASSUME NEW p \in Procs, ClientNext(p)
        PROVE  TypeOK'
    BY <1>8, ClientTypeStep DEF ClientNext, storeVars, streamVars, Ordered, Given,
                                RowTypes, Deliveries
  <1> QED BY <1>1, <1>2, <1>3, <1>4, <1>5, <1>6, <1>7, <1>8 DEF Next

-----------------------------------------------------------------------------
(* What is stored is known, and is acknowledged only then.                 *)

\* A row is of a message that was published, and an audit row, which goes
\* with its tenant, is of an audit message.
Linked ==
    /\ \A r \in alerts \cup audits :
         content[r.msg] # Null /\ r.tenant = TenantOf(content[r.msg])
    /\ \A r \in audits : content[r.msg].listener = "audit"

Kept(m) ==
    /\ content[m] # Null
    /\ Understood(content[m])
    /\ RowsOf(m) # {} \/ TenantGone(content[m])

\* A handler that comes to its ack has stored what it acknowledges.
StoredKept ==
    \A m \in Messages, i \in Attempts :
        delivery[m][i] # Null /\ delivery[m][i].pc = "stored" => Kept(m)

Earned(m) == Kept(m) \/ (~Understood(content[m]) /\ content[m].listener = "audit")

IInv == TypeOK /\ Known /\ Linked /\ StoredKept /\ \A m \in acked : Earned(m)

\* Nothing takes back a row but the deletion of its tenant, for which an
\* alert does not ask.
LEMMA KeptStays ==
    ASSUME TypeOK, Linked, [Next]_vars, NEW m \in Messages
    PROVE  /\ content[m] # Null => content'[m] = content[m]
           /\ Kept(m) => Kept(m)'
  <1>1. /\ content[m] # Null => content'[m] = content[m]
        /\ tenants' \subseteq tenants
        /\ \A r \in alerts \cup audits :
             \/ r \in alerts' \cup audits'
             \/ r \in audits /\ r.tenant \in tenants \ tenants'
    <2>1. CASE UNCHANGED vars
      BY <2>1 DEF vars, storeVars, streamVars
    <2>2. ASSUME NEW n \in Messages, NEW c \in Published, Publish(n, c)
          PROVE  <1>1!1 /\ <1>1!2 /\ <1>1!3
      BY <2>2 DEF Publish, storeVars, TypeOK
    <2>3. ASSUME NEW n \in Messages, NEW i \in Attempts,
                 \/ \E p \in Procs : Deliver(n, i, p)
                 \/ LoseDelivery(n, i) \/ Handle(n, i) \/ Forget(n, i)
          PROVE  <1>1!1 /\ <1>1!2 /\ <1>1!3
      BY <2>3 DEF Deliver, LoseDelivery, Handle, Forget, Skip, Store, SaveAlert,
                  LogAuditEvent, StoreFails, Ack, storeVars
    <2>4. ASSUME NEW t \in Tenants, DeleteTenant(t)
          PROVE  <1>1!1 /\ <1>1!2 /\ <1>1!3
      BY <2>4 DEF DeleteTenant, streamVars
    <2>5. ASSUME NEW p \in Procs, EndProcess(p) \/ ClientNext(p)
          PROVE  <1>1!1 /\ <1>1!2 /\ <1>1!3
      BY <2>5 DEF EndProcess, ClientNext, storeVars, streamVars
    <2> QED BY <2>1, <2>2, <2>3, <2>4, <2>5 DEF Next
  <1>2. ASSUME Kept(m)
        PROVE  Kept(m)'
    <2>1. content'[m] = content[m]
      BY <1>1, <1>2 DEF Kept
    <2>2. CASE TenantGone(content[m])
      BY <1>1, <1>2, <2>1, <2>2 DEF Kept, TenantGone, Understood, TenantOf
    <2>3. ASSUME NEW r \in RowsOf(m)
          PROVE  Kept(m)'
      <3>1. r \in alerts \cup audits /\ r.msg = m
        BY DEF RowsOf
      <3>2. CASE r \in alerts' \cup audits'
        BY <1>2, <2>1, <3>1, <3>2 DEF Kept, RowsOf, Understood, TenantOf
      <3>3. CASE r \in audits /\ r.tenant \in tenants \ tenants'
        <4>1. content[m].listener = "audit" /\ r.tenant = TenantOf(content[m])
          BY <3>1, <3>3 DEF Linked
        <4>2. TenantGone(content[m])'
          BY <2>1, <3>3, <4>1 DEF TenantGone, TenantOf
        <4> QED BY <1>2, <2>1, <4>2 DEF Kept, Understood, TenantOf
      <3> QED BY <1>1, <3>1, <3>2, <3>3
    <2> QED BY <1>2, <2>2, <2>3 DEF Kept
  <1> QED BY <1>1, <1>2

LEMMA InvInit ==
    ASSUME Init
    PROVE  IInv
  <1>1. TypeOK
    <2>1. ClientTypeOK
      BY MishapsAssumption DEF Init, ClientInit, ClientTypeOK, ProcStates, LinkStates,
                               LoopStates, Silent
    <2>2. delivery \in Deliveries /\ Ordered
      BY DEF Init, Deliveries, Ordered, Given
    <2>3. RowTypes
      BY DEF Init, RowTypes
    <2> QED BY <2>1, <2>2, <2>3, TypeParts DEF Init
  <1>2. Known
    BY DEF Init, Known, Given
  <1>3. StoredKept
    BY DEF Init, StoredKept
  <1>4. Linked /\ \A m \in acked : Earned(m)
    BY DEF Init, Linked
  <1> QED BY <1>1, <1>2, <1>3, <1>4 DEF IInv

\* Only Deliver, LoseDelivery and the handlers have anything new to know.
LEMMA KnownStep ==
    ASSUME IInv, [Next]_vars
    PROVE  Known'
  <1>1. SUFFICES \A m \in Messages :
                   m \in acked' \/ Given(m)' # {} =>
                     m \in acked \/ Given(m) # {} \/ content[m] # Null
    <2>1. ASSUME NEW m \in Messages, m \in acked' \/ Given(m)' # {}
          PROVE  content'[m] # Null
      BY <1>1, <2>1, KeptStays DEF IInv, Known
    <2> QED BY <2>1 DEF Known
  <1>2. TypeOK /\ delivery \in Deliveries
    BY TypeParts DEF IInv
  <1>3. CASE UNCHANGED vars
    BY <1>3 DEF vars, streamVars, Given
  <1>4. ASSUME NEW n \in Messages, NEW c \in Published, Publish(n, c)
        PROVE  <1>1!1
    BY <1>4 DEF Publish, Given
  <1>5. ASSUME NEW n \in Messages, NEW i \in Attempts, NEW d \in Delivery,
               Give(n, i, d), content[n] # Null, acked' = acked
        PROVE  <1>1!1
    <2>1. \A m \in Messages : m # n => Given(m)' = Given(m)
      BY <1>2, <1>5, GivenGoes DEF Given
    <2> QED BY <1>5, <2>1
  <1>6. ASSUME NEW n \in Messages, NEW i \in Attempts, Handle(n, i) \/ Forget(n, i)
        PROVE  <1>1!1
    <2>1. /\ delivery[n][i] # Null
          /\ \E pc \in {"stored", "over"} : Goto(n, i, pc)
          /\ acked' \subseteq acked \cup {n}
      BY <1>6 DEF Handle, Forget, Skip, Store, StoreFails, Ack, AckOver, Held
    <2>2. \A m \in Messages : Given(m)' = Given(m)
      BY <1>2, <2>1, GotoGoes DEF Given
    <2>3. Given(n) # {}
      BY <2>1 DEF Given
    <2> QED BY <2>1, <2>2, <2>3
  <1>7. ASSUME NEW p \in Procs, EndProcess(p)
        PROVE  <1>1!1
    <2>1. \A m \in Messages : Given(m)' = Given(m)
      BY <1>2, <1>7, EndGoes DEF Given
    <2> QED BY <1>7, <2>1 DEF EndProcess
  <1>8. ASSUME NEW m \in Messages, NEW i \in Attempts, NEW p \in Procs, Deliver(m, i, p)
        PROVE  <1>1!1
    <2>1. \E d \in Delivery : Give(m, i, d)
      BY <1>8 DEF Deliver, Delivery, Give
    <2>2. content[m] # Null /\ acked' = acked
      BY <1>8 DEF Deliver
    <2> QED BY <1>5, <2>1, <2>2
  <1>9. ASSUME NEW m \in Messages, NEW i \in Attempts, LoseDelivery(m, i)
        PROVE  <1>1!1
    <2>1. \E d \in Delivery : Give(m, i, d)
      BY <1>9 DEF LoseDelivery, Delivery, Give
    <2>2. content[m] # Null /\ acked' = acked
      BY <1>9 DEF LoseDelivery
    <2> QED BY <1>5, <2>1, <2>2
  <1>10. CASE (\E t \in Tenants : DeleteTenant(t)) \/ (\E p \in Procs : ClientNext(p))
    BY <1>10 DEF DeleteTenant, ClientNext, streamVars, Given
  <1> QED BY <1>3, <1>4, <1>6, <1>7, <1>8, <1>9, <1>10 DEF Next

\* Rows come one by one, from Store.
LEMMA RowsCome ==
    ASSUME [Next]_vars
    PROVE  \/ alerts' \subseteq alerts /\ audits' \subseteq audits
           \/ \E m \in Messages, i \in Attempts : Store(m, i)
  <1>1. CASE \E m \in Messages, i \in Attempts : Handle(m, i) \/ Forget(m, i)
    BY <1>1 DEF Handle, Forget, Skip, StoreFails, Ack, storeVars
  <1>2. CASE \E m \in Messages, i \in Attempts :
               LoseDelivery(m, i) \/ \E p \in Procs : Deliver(m, i, p)
    BY <1>2 DEF Deliver, LoseDelivery, storeVars
  <1>3. CASE \/ UNCHANGED vars
             \/ \E m \in Messages, c \in Published : Publish(m, c)
             \/ \E t \in Tenants : DeleteTenant(t)
             \/ \E p \in Procs : EndProcess(p) \/ ClientNext(p)
    BY <1>3 DEF vars, storeVars, Publish, DeleteTenant, EndProcess, ClientNext
  <1> QED BY <1>1, <1>2, <1>3 DEF Next

\* A handler adds the row of its own message.
LEMMA LinkedStep ==
    ASSUME IInv, [Next]_vars
    PROVE  Linked'
  <1>1. TypeOK /\ RowTypes /\ Linked
    BY TypeParts DEF IInv
  <1>2. \A m \in Messages : content[m] # Null => content'[m] = content[m]
    BY <1>1, KeptStays
  <1>3. CASE alerts' \subseteq alerts /\ audits' \subseteq audits
    <2>1. \A r \in alerts' \cup audits' : r \in alerts \cup audits
      BY <1>3
    <2>2. \A r \in alerts \cup audits : content'[r.msg] = content[r.msg]
      BY <1>1, <1>2 DEF Linked, RowTypes
    <2> QED BY <1>1, <1>3, <2>1, <2>2 DEF Linked, TenantOf
  <1>4. ASSUME NEW m \in Messages, NEW i \in Attempts, Store(m, i)
        PROVE  Linked'
    <2>1. content[m] # Null /\ content[m] \in Published /\ content' = content
      BY <1>1, <1>4 DEF Store, Held, IInv, Known, Given, TypeOK
    <2>2. Row(m, i).msg = m /\ Row(m, i).tenant = TenantOf(content[m])
      BY DEF Row
    <2>3. \A r \in alerts' \cup audits' : r \in alerts \cup audits \/ r = Row(m, i)
      BY <1>4 DEF Store, SaveAlert, LogAuditEvent
    <2>4. \A r \in audits' :
            r \in audits \/ (r = Row(m, i) /\ content[m].listener = "audit")
      BY <1>4 DEF Store, SaveAlert, LogAuditEvent
    <2> QED BY <1>1, <2>1, <2>2, <2>3, <2>4 DEF Linked, TenantOf
  <1> QED BY <1>3, <1>4, RowsCome

\* Store is what leads to the ack.
LEMMA StoredStep ==
    ASSUME IInv, [Next]_vars
    PROVE  StoredKept'
  <1>1. TypeOK /\ Linked /\ delivery \in Deliveries /\ StoredKept
    BY TypeParts DEF IInv
  <1> DEFINE Waits(m, i) == delivery[m][i] # Null /\ delivery[m][i].pc = "stored"
  <1>2. SUFFICES \A m \in Messages, i \in Attempts : Waits(m, i)' => (Waits(m, i) \/ Kept(m)')
    BY <1>1, <1>2, KeptStays DEF StoredKept
  <1>3. CASE UNCHANGED delivery
    BY <1>3
  <1>4. ASSUME NEW m \in Messages, NEW i \in Attempts, NEW d \in Delivery,
               Give(m, i, d), d.pc # "stored"
        PROVE  <1>2!1
    BY <1>1, <1>4, GivenGoes
  <1>5. ASSUME NEW m \in Messages, NEW i \in Attempts, NEW p \in Procs,
               Deliver(m, i, p) \/ LoseDelivery(m, i)
        PROVE  <1>2!1
    <2>1. PICK q \in Procs, pc \in {"held", "over"} : Give(m, i, [proc |-> q, pc |-> pc])
      BY <1>5 DEF Deliver, LoseDelivery, Give
    <2>2. [proc |-> q, pc |-> pc] \in Delivery
      BY DEF Delivery
    <2> QED BY <1>4, <2>1, <2>2
  <1>6. ASSUME NEW m \in Messages, NEW i \in Attempts, delivery[m][i] # Null,
               Goto(m, i, "over")
        PROVE  <1>2!1
    BY <1>1, <1>6, GotoGoes
  <1>7. ASSUME NEW m \in Messages, NEW i \in Attempts, Store(m, i)
        PROVE  <1>2!1
    <2>1. PICK pc \in {"stored", "over"} : Goto(m, i, pc)
      BY <1>7 DEF Store
    <2>0. delivery[m][i] # Null /\ content' = content
      BY <1>7 DEF Store, Held
    <2>2. Kept(m)'
      <3>1. content[m] # Null /\ Understood(content[m])
        BY <1>7, <2>0 DEF Store, IInv, Known, Given
      <3>2. Row(m, i) \in alerts' \cup audits'
        BY <1>7 DEF Store, SaveAlert, LogAuditEvent
      <3>3. RowsOf(m)' # {}
        BY <3>2 DEF RowsOf, Row
      <3> QED BY <2>0, <3>1, <3>3 DEF Kept, Understood, TenantOf
    <2>3. \A n \in Messages, k \in Attempts :
            (n # m \/ k # i) /\ Waits(n, k)' => Waits(n, k)
      BY <1>1, <2>0, <2>1, GotoGoes
    <2> QED BY <2>2, <2>3
  <1>8. ASSUME NEW p \in Procs, EndProcess(p)
        PROVE  <1>2!1
    BY <1>1, <1>8, EndGoes
  <1>9. ASSUME NEW m \in Messages, NEW i \in Attempts, Handle(m, i) \/ Forget(m, i)
        PROVE  <1>2!1
    <2>1. \/ Store(m, i)
          \/ delivery[m][i] # Null /\ Goto(m, i, "over")
      BY <1>9 DEF Handle, Forget, Skip, StoreFails, Ack, Held
    <2> QED BY <1>6, <1>7, <2>1
  <1>10. \A m \in Messages, i \in Attempts : LoseDelivery(m, i) => Procs # {}
    BY DEF LoseDelivery
  <1> HIDE DEF Waits
  <1>11. CASE \/ UNCHANGED vars
              \/ \E m \in Messages, c \in Published : Publish(m, c)
              \/ \E t \in Tenants : DeleteTenant(t)
              \/ \E p \in Procs : ClientNext(p)
    BY <1>3, <1>11 DEF vars, streamVars, Publish, DeleteTenant, ClientNext
  <1> QED BY <1>5, <1>8, <1>9, <1>10, <1>11 DEF Next

\* What is acknowledged was stored before, or skipped.
LEMMA EarnedStep ==
    ASSUME IInv, [Next]_vars
    PROVE  \A m \in acked' : Earned(m)'
  <1>1. TypeOK /\ Linked /\ delivery \in Deliveries /\ StoredKept /\ acked \subseteq Messages
    BY TypeParts DEF IInv
  <1>2. ASSUME NEW m \in Messages, content[m] # Null, Earned(m)
        PROVE  Earned(m)'
    BY <1>1, <1>2, KeptStays DEF Earned, Understood, TenantOf
  <1>3. CASE acked' \subseteq acked
    BY <1>1, <1>2, <1>3 DEF IInv, Known
  <1>4. ASSUME NEW m \in Messages, NEW i \in Attempts, Skip(m, i) \/ Ack(m, i)
        PROVE  \A n \in acked' : Earned(n)'
    <2>1. CASE acked' \subseteq acked
      BY <1>3, <2>1
    <2>2. CASE ~(acked' \subseteq acked)
      <3>1. acked' = acked \cup {m}
        BY <1>4, <2>2 DEF Skip, Ack, AckOver
      <3>2. content[m] # Null
        BY <1>4 DEF Skip, Ack, Held, IInv, Known, Given
      <3>3. Earned(m)
        <4>1. CASE Skip(m, i)
          BY <2>2, <4>1 DEF Skip, Earned
        <4>2. CASE Ack(m, i)
          BY <1>1, <4>2 DEF Ack, StoredKept, Earned
        <4> QED BY <1>4, <4>1, <4>2
      <3> QED BY <1>1, <1>2, <3>1, <3>2, <3>3 DEF IInv, Known
    <2> QED BY <2>1, <2>2
  <1>5. \/ acked' \subseteq acked
        \/ \E m \in Messages, i \in Attempts : Skip(m, i) \/ Ack(m, i)
    BY DEF Next, vars, streamVars, Publish, Deliver, LoseDelivery, Handle, Forget, Store,
           StoreFails, DeleteTenant, EndProcess, ClientNext
  <1> QED BY <1>3, <1>4, <1>5

-----------------------------------------------------------------------------
(* Duplicates are paid for.                                                *)

HeldOf(m) == {i \in Attempts : delivery[m][i] # Null /\ delivery[m][i].pc = "held"}

\* The first delivery is free, while it is under way and once it is
\* acknowledged.
Free(m) == IF m \in acked \/ UnderWay(m) # {} THEN 1 ELSE 0

\* Rows that are there and rows that are still to come are paid for.
Paid(m) ==
    /\ IsFiniteSet(RowsOf(m))
    /\ Cardinality(RowsOf(m)) + Cardinality(HeldOf(m)) <= slips[m] + Free(m)

LEMMA AttemptsFinite ==
    \A S : S \subseteq Attempts => IsFiniteSet(S) /\ Cardinality(S) \in Nat
  <1> TAKE S
  <1> HAVE S \subseteq Attempts
  <1>1. IsFiniteSet(Attempts)
    BY FS_Interval, DeliverAssumption DEF Attempts
  <1>2. IsFiniteSet(S)
    BY <1>1, FS_Subset
  <1> QED BY <1>2, FS_CardinalityType

\* How a step of nobody's changes the account of a message.
LEMMA PaidSame ==
    ASSUME NEW m \in Messages, Paid(m), \A i \in Attempts : delivery'[m][i] = delivery[m][i],
           RowsOf(m)' \subseteq RowsOf(m), slips'[m] = slips[m],
           m \in acked <=> m \in acked', slips[m] \in Nat
    PROVE  Paid(m)'
  <1>1. HeldOf(m)' = HeldOf(m) /\ UnderWay(m)' = UnderWay(m)
    BY DEF HeldOf, UnderWay, Given
  <1>2. Free(m)' = Free(m) /\ Free(m) \in Nat
    BY <1>1 DEF Free
  <1>3. /\ IsFiniteSet(RowsOf(m)') /\ Cardinality(RowsOf(m)') <= Cardinality(RowsOf(m))
        /\ Cardinality(RowsOf(m)) \in Nat /\ Cardinality(RowsOf(m)') \in Nat
    BY FS_Subset, FS_CardinalityType DEF Paid
  <1>4. Cardinality(HeldOf(m)) \in Nat
    BY AttemptsFinite DEF HeldOf
  <1> QED BY <1>1, <1>2, <1>3, <1>4 DEF Paid

\* A delivery that is done with was to be paid for, so was the one that
\* takes its place.
LEMMA PaidOver ==
    ASSUME NEW m \in Messages, NEW i \in Attempts, TypeOK, Paid(m),
           delivery[m][i] # Null, delivery[m][i].pc # "over", Goto(m, i, "over"),
           RowsOf(m)' = RowsOf(m), acked \subseteq acked',
           \/ delivery[m][i].pc = "held" /\ slips'[m] = slips[m]
           \/ m \in acked' /\ slips'[m] = slips[m]
           \/ slips'[m] = slips[m] + 1
    PROVE  Paid(m)'
  <1>1. delivery \in Deliveries /\ slips[m] \in Nat
    BY TypeParts
  <1>2. HeldOf(m)' = HeldOf(m) \ {i}
    BY <1>1, GotoGoes DEF HeldOf
  <1>3. IsFiniteSet(HeldOf(m)) /\ Cardinality(HeldOf(m)) \in Nat
    BY AttemptsFinite DEF HeldOf
  <1>4. Cardinality(HeldOf(m)') = IF i \in HeldOf(m) THEN Cardinality(HeldOf(m)) - 1
                                                     ELSE Cardinality(HeldOf(m))
    BY <1>2, <1>3, FS_RemoveElement
  <1>5. i \in HeldOf(m) <=> delivery[m][i].pc = "held"
    BY DEF HeldOf
  <1>6. Free(m) = 1 /\ Free(m)' \in {0, 1} /\ (m \in acked' => Free(m)' = 1)
    BY DEF Free, UnderWay, Given
  <1>7. Cardinality(RowsOf(m)) \in Nat
    BY FS_CardinalityType DEF Paid
  <1> QED BY <1>1, <1>3, <1>4, <1>5, <1>6, <1>7 DEF Paid

LEMMA PaidDelivered ==
    ASSUME NEW m \in Messages, NEW i \in Attempts, NEW p \in Procs, TypeOK, Paid(m),
           Deliver(m, i, p)
    PROVE  Paid(m)'
  <1> DEFINE d == [proc |-> p, pc |-> "held"]
  <1>1. delivery \in Deliveries /\ slips \in [Messages -> Nat]
    BY TypeParts
  <1>2. d \in Delivery /\ d.pc = "held" /\ Give(m, i, d)
    BY DEF Deliver, Delivery, Give
  <1> HIDE DEF d
  <1>3. /\ delivery'[m][i] = d /\ d # Null
        /\ \A k \in Attempts : k # i => delivery'[m][k] = delivery[m][k]
    BY <1>1, <1>2, GivenGoes
  <1>4. i \notin Given(m)
    BY DeliverAssumption DEF Deliver, Attempts
  <1>5. HeldOf(m)' = HeldOf(m) \cup {i} /\ i \notin HeldOf(m)
    BY <1>2, <1>3, <1>4 DEF HeldOf, Given
  <1>6. IsFiniteSet(HeldOf(m)) /\ Cardinality(HeldOf(m)) \in Nat
    BY AttemptsFinite DEF HeldOf
  <1>7. Cardinality(HeldOf(m)') = Cardinality(HeldOf(m)) + 1
    BY <1>5, <1>6, FS_AddElement
  <1>8. Free(m)' = 1 /\ Free(m) \in {0, 1}
    <2>1. i \in UnderWay(m)'
      BY <1>2, <1>3 DEF UnderWay, Given
    <2> QED BY <2>1 DEF Free
  <1>9. \/ Free(m) = 0 /\ slips'[m] = slips[m]
        \/ slips'[m] = slips[m] + 1
    BY <1>1 DEF Deliver, Free
  <1>10. RowsOf(m)' = RowsOf(m)
    BY DEF Deliver, storeVars, RowsOf
  <1>11. Cardinality(RowsOf(m)) \in Nat
    BY FS_CardinalityType DEF Paid
  <1> QED BY <1>1, <1>6, <1>7, <1>8, <1>9, <1>10, <1>11 DEF Paid

LEMMA PaidStored ==
    ASSUME NEW m \in Messages, NEW i \in Attempts, TypeOK, Paid(m), Store(m, i)
    PROVE  Paid(m)'
  <1>1. delivery \in Deliveries /\ slips[m] \in Nat
    BY TypeParts
  <1>2. delivery[m][i] # Null /\ delivery[m][i].pc = "held"
    BY DEF Store, Held
  <1>10. PICK pc \in {"stored", "over"} :
           /\ Goto(m, i, pc)
           /\ slips'[m] = IF pc = "stored" THEN slips[m] ELSE slips[m] + 1
    BY TypeParts DEF Store
  <1>3. HeldOf(m)' = HeldOf(m) \ {i} /\ i \in HeldOf(m)
    BY <1>1, <1>2, <1>10, GotoGoes DEF HeldOf
  <1>4. IsFiniteSet(HeldOf(m)) /\ Cardinality(HeldOf(m)) \in Nat
    BY AttemptsFinite DEF HeldOf
  <1>5. Cardinality(HeldOf(m)') = Cardinality(HeldOf(m)) - 1
    BY <1>3, <1>4, FS_RemoveElement
  <1>6. /\ Free(m) = 1 /\ Free(m)' \in {0, 1}
        /\ pc = "stored" => Free(m)' = 1
    <2>1. delivery'[m][i] # Null /\ delivery'[m][i].pc = pc
      BY <1>1, <1>2, <1>10, GotoGoes
    <2>2. i \in UnderWay(m) /\ (pc = "stored" => i \in UnderWay(m)')
      BY <1>2, <2>1 DEF UnderWay, Given
    <2> QED BY <2>2 DEF Free
  <1>7. RowsOf(m)' = RowsOf(m) \cup {Row(m, i)}
    BY DEF Store, SaveAlert, LogAuditEvent, RowsOf, Row
  <1>8. IsFiniteSet(RowsOf(m)) /\ Cardinality(RowsOf(m)) \in Nat
    BY FS_CardinalityType DEF Paid
  <1>9. /\ IsFiniteSet(RowsOf(m)')
        /\ Cardinality(RowsOf(m)') \in Nat
        /\ Cardinality(RowsOf(m)') <= Cardinality(RowsOf(m)) + 1
    <2> DEFINE R == RowsOf(m)
               r == Row(m, i)
    <2>1. RowsOf(m)' = R \cup {r}
      BY <1>7
    <2>2. IsFiniteSet(R) /\ Cardinality(R) \in Nat
      BY <1>8
    <2> HIDE DEF R, r
    <2>3. /\ IsFiniteSet(R \cup {r})
          /\ Cardinality(R \cup {r}) = IF r \in R THEN Cardinality(R) ELSE Cardinality(R) + 1
      BY <2>2, FS_AddElement
    <2>4. Cardinality(R \cup {r}) \in Nat /\ Cardinality(R \cup {r}) <= Cardinality(R) + 1
      BY <2>2, <2>3
    <2> QED BY <2>1, <2>3, <2>4 DEF R
  <1> QED BY <1>1, <1>4, <1>5, <1>6, <1>8, <1>9, <1>10 DEF Paid

\* A process that ends between an INSERT and its ack pays, what it only
\* held is not to come any more.
LEMMA PaidEnded ==
    ASSUME NEW m \in Messages, NEW p \in Procs, TypeOK, Paid(m), EndProcess(p)
    PROVE  Paid(m)'
  <1> DEFINE cut == {i \in UnderWay(m) : delivery[m][i].proc = p}
             stored == {i \in cut : delivery[m][i].pc = "stored"}
             held == {i \in cut : delivery[m][i].pc = "held"}
  <1>1. delivery \in Deliveries /\ slips[m] \in Nat
    BY TypeParts
  <1>2. slips'[m] = slips[m] + Cardinality(stored) /\ acked' = acked /\ RowsOf(m)' = RowsOf(m)
    BY DEF EndProcess, storeVars, RowsOf
  <1>3. cut = stored \cup held
    BY <1>1 DEF UnderWay, Given, Deliveries, Delivery
  <1>4. /\ stored \subseteq Attempts /\ held \subseteq Attempts /\ HeldOf(m) \subseteq Attempts
        /\ HeldOf(m)' \subseteq HeldOf(m) \ held
    <2>1. stored \subseteq Attempts /\ held \subseteq Attempts /\ HeldOf(m) \subseteq Attempts
      BY DEF UnderWay, Given, HeldOf
    <2>2. ASSUME NEW i \in HeldOf(m)'
          PROVE  i \in HeldOf(m) \ held
      <3>1. i \in Attempts /\ delivery'[m][i] # Null /\ delivery'[m][i].pc = "held"
        BY DEF HeldOf
      <3>2. delivery[m][i] # Null /\ delivery'[m][i] = delivery[m][i]
        BY <1>1, <3>1, EndGoes
      <3>3. delivery[m][i].proc # p
        BY <1>1, <3>1, <3>2, EndGoes
      <3> QED BY <3>1, <3>2, <3>3 DEF HeldOf
    <2> QED BY <2>1, <2>2
  <1>5. UnderWay(m) # {} => \/ stored # {}
                           \/ held # {}
                           \/ UnderWay(m)' # {}
    <2>1. \A i \in UnderWay(m) \ cut : i \in UnderWay(m)'
      BY <1>1, EndGoes DEF UnderWay, Given
    <2> QED BY <1>3, <2>1
  <1>6. held \subseteq HeldOf(m)
    BY DEF UnderWay, Given, HeldOf
  <1> HIDE DEF stored, held
  <1>7. /\ Cardinality(stored) \in Nat /\ (stored # {} => Cardinality(stored) >= 1)
        /\ Cardinality(held) \in Nat /\ (held # {} => Cardinality(held) >= 1)
    BY <1>4, AttemptsFinite, FS_EmptySet
  <1>8. /\ Cardinality(HeldOf(m)) \in Nat /\ Cardinality(HeldOf(m)') \in Nat
        /\ Cardinality(HeldOf(m)') + Cardinality(held) <= Cardinality(HeldOf(m))
    <2>1. IsFiniteSet(HeldOf(m)') /\ IsFiniteSet(held) /\ IsFiniteSet(HeldOf(m))
      BY <1>4, AttemptsFinite
    <2>2. HeldOf(m)' \cup held \subseteq HeldOf(m) /\ HeldOf(m)' \cap held = {}
      BY <1>4, <1>6
    <2>3. Cardinality(HeldOf(m)' \cup held) <= Cardinality(HeldOf(m))
      BY <2>1, <2>2, FS_Subset
    <2>4. Cardinality(HeldOf(m)' \cup held)
            = Cardinality(HeldOf(m)') + Cardinality(held) - Cardinality({})
      BY <2>1, <2>2, FS_Union
    <2>5. /\ Cardinality(HeldOf(m)) \in Nat /\ Cardinality(HeldOf(m)') \in Nat
          /\ Cardinality({}) = 0
      BY <2>1, FS_CardinalityType, FS_EmptySet
    <2> QED BY <1>7, <2>3, <2>4, <2>5
  <1>9. /\ Free(m) \in {0, 1} /\ Free(m)' \in {0, 1}
        /\ Free(m) = 0 \/ Free(m)' = 1 \/ stored # {} \/ held # {}
    BY <1>2, <1>5 DEF Free
  <1>10. Cardinality(RowsOf(m)) \in Nat
    BY FS_CardinalityType DEF Paid
  <1> QED BY <1>1, <1>2, <1>7, <1>8, <1>9, <1>10 DEF Paid

LEMMA PaidStep ==
    ASSUME IInv, \A m \in Messages : Paid(m), [Next]_vars
    PROVE  \A m \in Messages : Paid(m)'
  <1>1. TypeOK /\ delivery \in Deliveries /\ slips \in [Messages -> Nat]
    BY TypeParts DEF IInv
  \* What a step on one message leaves of the others.
  <1>2. ASSUME NEW m \in Messages, NEW n \in Messages, n # m,
               \A i \in Attempts : delivery'[n][i] = delivery[n][i],
               \A r \in alerts' \cup audits' : r \in alerts \cup audits \/ r.msg = m,
               slips'[n] = slips[n], acked' \subseteq acked \cup {m}, acked \subseteq acked'
        PROVE  Paid(n)'
    <2>1. RowsOf(n)' \subseteq RowsOf(n)
      BY <1>2 DEF RowsOf
    <2> QED BY <1>1, <1>2, <2>1, PaidSame
  <1>3. ASSUME NEW m \in Messages, NEW i \in Attempts, NEW p \in Procs, Deliver(m, i, p)
        PROVE  \A n \in Messages : Paid(n)'
    <2>1. PICK d \in Delivery : Give(m, i, d)
      BY <1>3 DEF Deliver, Delivery, Give
    <2>2. \A n \in Messages, k \in Attempts : n # m => delivery'[n][k] = delivery[n][k]
      BY <1>1, <2>1, GivenGoes
    <2>3. \A n \in Messages : n # m => slips'[n] = slips[n]
      BY <1>1, <1>3 DEF Deliver
    <2>4. alerts' = alerts /\ audits' = audits /\ acked' = acked
      BY <1>3 DEF Deliver, storeVars
    <2>5. \A n \in Messages : n # m => Paid(n)'
      BY <1>2, <2>2, <2>3, <2>4
    <2>6. Paid(m)'
      BY <1>1, <1>3, PaidDelivered
    <2> QED BY <2>5, <2>6
  <1>4. ASSUME NEW m \in Messages, NEW i \in Attempts, LoseDelivery(m, i)
        PROVE  \A n \in Messages : Paid(n)'
    <2>1. PICK p \in Procs : Give(m, i, [proc |-> p, pc |-> "over"])
      BY <1>4 DEF LoseDelivery, Give
    <2>2. [proc |-> p, pc |-> "over"] \in Delivery
      BY DEF Delivery
    <2>3. /\ delivery'[m][i] # Null /\ delivery'[m][i].pc = "over"
          /\ \A n \in Messages, k \in Attempts :
               n # m \/ k # i => delivery'[n][k] = delivery[n][k]
      BY <1>1, <2>1, <2>2, GivenGoes
    <2>4. slips' = slips /\ alerts' = alerts /\ audits' = audits /\ acked' = acked
      BY <1>4 DEF LoseDelivery, storeVars
    <2>5. \A n \in Messages : n # m => Paid(n)'
      BY <1>2, <2>3, <2>4
    <2>6. Paid(m)'
      <3>1. i \notin Given(m)
        BY <1>4, DeliverAssumption DEF LoseDelivery, Attempts
      <3>2. HeldOf(m)' = HeldOf(m) /\ UnderWay(m)' = UnderWay(m)
        BY <2>3, <3>1 DEF HeldOf, UnderWay, Given
      <3>3. Free(m)' = Free(m) /\ RowsOf(m)' = RowsOf(m)
        BY <2>4, <3>2 DEF Free, RowsOf
      <3> QED BY <2>4, <3>2, <3>3 DEF Paid
    <2> QED BY <2>5, <2>6
  <1>5. ASSUME NEW m \in Messages, NEW i \in Attempts, Handle(m, i) \/ Forget(m, i)
        PROVE  \A n \in Messages : Paid(n)'
    <2>1. /\ delivery[m][i] # Null
          /\ \E pc \in {"stored", "over"} : Goto(m, i, pc)
      BY <1>5 DEF Handle, Forget, Skip, Store, StoreFails, Ack, Held
    <2>2. \A n \in Messages, k \in Attempts : n # m => delivery'[n][k] = delivery[n][k]
      BY <1>1, <2>1, GotoGoes
    <2>3. \A n \in Messages : n # m => slips'[n] = slips[n]
      BY <1>1, <1>5 DEF Handle, Forget, Skip, Store, StoreFails, Ack, AckOver
    <2>4. acked' \subseteq acked \cup {m} /\ acked \subseteq acked'
      BY <1>5 DEF Handle, Forget, Skip, Store, StoreFails, Ack, AckOver
    <2>5. Paid(m)' /\ \A r \in alerts' \cup audits' : r \in alerts \cup audits \/ r.msg = m
      <3>1. CASE Store(m, i)
        <4>1. \A r \in alerts' \cup audits' : r \in alerts \cup audits \/ r.msg = m
          BY <3>1 DEF Store, SaveAlert, LogAuditEvent, Row
        <4> QED BY <1>1, <3>1, <4>1, PaidStored
      <3>2. CASE Skip(m, i) \/ StoreFails(m, i) \/ Forget(m, i)
        <4>1. delivery[m][i].pc = "held" /\ Goto(m, i, "over") /\ slips' = slips
          BY <3>2 DEF Skip, StoreFails, Forget, Held, AckOver
        <4>2. alerts' = alerts /\ audits' = audits
          BY <3>2 DEF Skip, StoreFails, Forget, storeVars
        <4>3. RowsOf(m)' = RowsOf(m)
          BY <4>2 DEF RowsOf
        <4> QED BY <1>1, <2>1, <2>4, <4>1, <4>2, <4>3, PaidOver
      <3>3. CASE Ack(m, i)
        <4>1. delivery[m][i].pc = "stored" /\ Goto(m, i, "over")
          BY <3>3 DEF Ack
        <4>2. \/ m \in acked' /\ slips' = slips
              \/ slips'[m] = slips[m] + 1
          BY <1>1, <3>3 DEF Ack, AckOver
        <4>3. alerts' = alerts /\ audits' = audits
          BY <3>3 DEF Ack, storeVars
        <4>4. RowsOf(m)' = RowsOf(m)
          BY <4>3 DEF RowsOf
        <4> QED BY <1>1, <2>1, <2>4, <4>1, <4>2, <4>3, <4>4, PaidOver
      <3> QED BY <1>5, <3>1, <3>2, <3>3 DEF Handle
    <2>6. \A n \in Messages : n # m => Paid(n)'
      BY <1>2, <2>2, <2>3, <2>4, <2>5
    <2> QED BY <2>5, <2>6
  <1>6. ASSUME NEW p \in Procs, EndProcess(p)
        PROVE  \A n \in Messages : Paid(n)'
    BY <1>1, <1>6, PaidEnded
  <1>7. ASSUME UNCHANGED <<delivery, slips, acked>>,
               alerts' = alerts, audits' \subseteq audits
        PROVE  \A n \in Messages : Paid(n)'
    <2>1. \A n \in Messages : RowsOf(n)' \subseteq RowsOf(n)
      BY <1>7 DEF RowsOf
    <2> QED BY <1>1, <1>7, <2>1, PaidSame
  <1>8. CASE \/ UNCHANGED vars
             \/ \E m \in Messages, c \in Published : Publish(m, c)
             \/ \E t \in Tenants : DeleteTenant(t)
             \/ \E p \in Procs : ClientNext(p)
    <2>1. /\ UNCHANGED <<delivery, slips, acked>>
          /\ alerts' = alerts /\ audits' \subseteq audits
      BY <1>8 DEF vars, streamVars, storeVars, Publish, DeleteTenant, ClientNext
    <2> QED BY <1>7, <2>1
  <1> QED BY <1>3, <1>4, <1>5, <1>6, <1>8 DEF Next

-----------------------------------------------------------------------------
(* The theorems.                                                           *)

LEMMA InvStep ==
    ASSUME IInv, [Next]_vars
    PROVE  IInv'
  <1>1. TypeOK'
    BY TypeStep DEF IInv
  <1> QED BY <1>1, KnownStep, LinkedStep, StoredStep, EarnedStep DEF IInv

LEMMA InvHolds == Spec => []IInv
  <1>1. IInv /\ [Next]_vars => IInv'
    BY InvStep
  <1> QED BY <1>1, InvInit, PTL DEF Spec

\* The tables, the streams and the client of every process keep their
\* types, whatever is lost, delivered again or restarted.
THEOREM EventsTypes == Spec => []TypeOK
  <1>1. IInv => TypeOK
    BY DEF IInv
  <1> QED BY <1>1, InvHolds, PTL

\* No handler acknowledges an event it did not store, unless it skips an
\* audit event that nobody can read.
THEOREM AcknowledgedIsStored == Spec => []AcksAreEarned
  <1>1. IInv => AcksAreEarned
    BY DEF IInv, AcksAreEarned, Earned, Kept
  <1> QED BY <1>1, InvHolds, PTL

\* However often an event is delivered, each row of it but the first was
\* paid for with an ack wait that ran out or an acknowledgement that was
\* lost, on the line or with its process.
THEOREM DuplicatesAreBounded == Spec => []DuplicatesArePaid
  <1> DEFINE AllPaid == \A m \in Messages : Paid(m)
  <1>1. Init => AllPaid
    <2>1. ASSUME Init, NEW m \in Messages
          PROVE  Paid(m)
      <3>1. RowsOf(m) = {} /\ HeldOf(m) = {} /\ slips[m] = 0
        BY <2>1 DEF Init, RowsOf, HeldOf
      <3>2. Free(m) \in {0, 1}
        BY DEF Free
      <3> QED BY <3>1, <3>2, FS_EmptySet DEF Paid
    <2> QED BY <2>1
  <1>2. IInv /\ AllPaid /\ [Next]_vars => AllPaid'
    BY PaidStep
  <1>3. IInv /\ AllPaid => DuplicatesArePaid
    <2>1. ASSUME IInv, NEW m \in Messages, Paid(m)
          PROVE  Cardinality(RowsOf(m)) <= 1 + slips[m]
      <3>1. Cardinality(RowsOf(m)) \in Nat
        BY <2>1, FS_CardinalityType DEF Paid
      <3>2. Cardinality(HeldOf(m)) \in Nat
        BY AttemptsFinite DEF HeldOf
      <3>3. slips[m] \in Nat
        BY <2>1, TypeParts DEF IInv
      <3>4. Free(m) \in {0, 1}
        BY DEF Free
      <3> QED BY <2>1, <3>1, <3>2, <3>3, <3>4 DEF Paid
    <2> QED BY <2>1 DEF DuplicatesArePaid
  <1> HIDE DEF AllPaid
  <1> QED BY <1>1, <1>2, <1>3, InvHolds, PTL DEF Spec

-----------------------------------------------------------------------------
(* The refinement of Intake.  What IInv says of rows and acknowledgements  *)
(* suffices but for what keeps an attempt from recording twice.            *)

\* An attempt that is past its INSERT, if it came to it at all.
Past(m, i) == delivery[m][i] # Null /\ delivery[m][i].pc # "held"

PastKept == \A m \in Messages, i \in Attempts : Past(m, i) => Past(m, i)'

\* A row was stored by its own attempt, of a message that was understood.
Placed ==
    /\ \A r \in alerts \cup audits :
         Understood(content[r.msg]) /\ Past(r.msg, r.attempt)
    /\ \A r \in alerts : content[r.msg].listener = "alerts"

\* The mapping's variables.
Fates == [m \in Messages |-> Fate(m)]

Takens == [m \in Messages |-> Given(m)]

Records == {<<r.msg, r.attempt>> : r \in alerts \cup audits}

\* What an attempt is given, and whatever a handler does with it.
LEMMA DeliveryMoves ==
    ASSUME TypeOK, NEW m \in Messages, NEW i \in Attempts
    PROVE  /\ LoseDelivery(m, i) \/ (\E p \in Procs : Deliver(m, i, p)) =>
                \E d \in Delivery : Give(m, i, d)
           /\ Handle(m, i) \/ Forget(m, i) =>
                /\ delivery[m][i] # Null
                /\ Goto(m, i, "stored") \/ Goto(m, i, "over")
  BY DEF Deliver, LoseDelivery, Give, Delivery, Handle, Forget, Skip, Store,
         StoreFails, Ack, Held

\* An attempt that is past its INSERT does not come back to it.
LEMMA PastStays ==
    ASSUME TypeOK, [Next]_vars
    PROVE  PastKept
  <1>1. delivery \in Deliveries
    BY TypeParts
  <1>2. CASE UNCHANGED delivery
    BY <1>2 DEF PastKept, Past
  <1>3. ASSUME NEW m \in Messages, NEW i \in Attempts,
               LoseDelivery(m, i) \/ (\E p \in Procs : Deliver(m, i, p))
        PROVE  PastKept
    <2>1. PICK d \in Delivery : Give(m, i, d)
      BY <1>3, DeliveryMoves
    <2>2. Given(m) = 1 .. i - 1
      BY <1>3 DEF Deliver, LoseDelivery
    <2>3. delivery[m][i] = Null
      BY <2>2, DeliverAssumption DEF Given, Attempts
    <2> QED BY <1>1, <2>1, <2>3, GivenGoes DEF PastKept, Past
  <1>4. ASSUME NEW m \in Messages, NEW i \in Attempts, Handle(m, i) \/ Forget(m, i)
        PROVE  PastKept
    <2>1. delivery[m][i] # Null /\ (Goto(m, i, "stored") \/ Goto(m, i, "over"))
      BY <1>4, DeliveryMoves
    <2> QED BY <1>1, <2>1, GotoGoes DEF PastKept, Past
  <1>5. ASSUME NEW p \in Procs, EndProcess(p)
        PROVE  PastKept
    BY <1>1, <1>5, EndGoes DEF PastKept, Past
  <1>6. CASE \/ UNCHANGED vars
             \/ \E m \in Messages, c \in Published : Publish(m, c)
             \/ \E t \in Tenants : DeleteTenant(t)
             \/ \E p \in Procs : ClientNext(p)
    BY <1>2, <1>6 DEF vars, streamVars, Publish, DeleteTenant, ClientNext
  <1> QED BY <1>3, <1>4, <1>5, <1>6 DEF Next

LEMMA PlacedStep ==
    ASSUME IInv, Placed, [Next]_vars
    PROVE  Placed'
  <1>1. TypeOK /\ RowTypes /\ Linked /\ Known /\ delivery \in Deliveries
    BY TypeParts DEF IInv
  <1>2. \A m \in Messages : content[m] # Null => content'[m] = content[m]
    BY <1>1, KeptStays
  <1>3. \A r \in alerts \cup audits :
          /\ content'[r.msg] = content[r.msg]
          /\ Past(r.msg, r.attempt)'
    BY <1>1, <1>2, PastStays DEF Linked, RowTypes, Placed, PastKept
  <1>4. CASE alerts' \subseteq alerts /\ audits' \subseteq audits
    BY <1>3, <1>4 DEF Placed, Understood, TenantOf
  <1>5. ASSUME NEW m \in Messages, NEW i \in Attempts, Store(m, i)
        PROVE  Placed'
    <2>1. content[m] # Null /\ Understood(content[m])
      BY <1>1, <1>5 DEF Store, Held, Known, Given
    <2>2. content'[m] = content[m] /\ Past(m, i)'
      <3>1. PICK pc \in {"stored", "over"} : Goto(m, i, pc)
        BY <1>5 DEF Store
      <3>2. delivery[m][i] # Null
        BY <1>5 DEF Store, Held
      <3> QED BY <1>1, <1>2, <2>1, <3>1, <3>2, GotoGoes DEF PastKept, Past
    <2>3. /\ \A r \in alerts' \cup audits' : r \in alerts \cup audits \/ r = Row(m, i)
          /\ \A r \in alerts' : r \in alerts \/ (content[m].listener = "alerts" /\ r = Row(m, i))
      BY <1>5 DEF Store, SaveAlert, LogAuditEvent
    <2>4. Row(m, i).msg = m /\ Row(m, i).attempt = i
      BY DEF Row
    <2> HIDE DEF PastKept, Past
    <2> QED BY <1>3, <2>1, <2>2, <2>3, <2>4 DEF Placed, Understood, TenantOf
  <1> QED BY <1>4, <1>5, RowsCome

\* What a message says decides what becomes of it, as long as its tenant is
\* there.
LEMMA FateStays ==
    ASSUME NEW m, content'[m] = content[m], tenants' = tenants
    PROVE  Fate(m)' = Fate(m)
  BY DEF Fate, Understood, TenantGone, TenantOf

\* A delivery on its way changes no more than where it is.
LEMMA GivenStays ==
    ASSUME TypeOK, NEW m \in Messages, NEW i \in Attempts, delivery[m][i] # Null,
           NEW pc \in {"stored", "over"}, Goto(m, i, pc)
    PROVE  Takens' = Takens
  <1>1. \A n \in Messages : Given(n)' = Given(n)
    BY TypeParts, GotoGoes DEF Given
  <1> QED BY <1>1 DEF Takens

-----------------------------------------------------------------------------
(* Step by step.                                                           *)

LEMMA PublishStep ==
    ASSUME TypeOK, NEW m \in Messages, NEW c \in Published, Publish(m, c)
    PROVE  Inbox!Publish(m)
  <1>1. c # Null /\ content'[m] = c /\ content[m] = Null
    BY DataAssumption DEF Publish, TypeOK
  <1>2. Fate(m) = "unpublished" /\ Fate(m)' \in {"wanted", "void", "stuck"}
    BY <1>1 DEF Fate
  <1>3. ASSUME NEW n \in Messages, n # m
        PROVE  Fate(n)' = Fate(n)
    BY <1>3, FateStays DEF Publish, storeVars, TypeOK
  <1>4. Fates' = [Fates EXCEPT ![m] = Fate(m)'] /\ Fates[m] = "unpublished"
    BY <1>2, <1>3 DEF Fates
  <1>5. UNCHANGED <<Takens, Records, acked>>
    BY DEF Publish, storeVars, Takens, Given, Records
  <1> QED BY <1>2, <1>4, <1>5 DEF Inbox!Publish, Fates, Takens, Records

LEMMA TakeStep ==
    ASSUME TypeOK, NEW m \in Messages, NEW i \in Attempts,
           LoseDelivery(m, i) \/ (\E p \in Procs : Deliver(m, i, p))
    PROVE  Inbox!Take(m, i)
  <1>1. PICK d \in Delivery : Give(m, i, d)
    BY DeliveryMoves
  <1>2. /\ content[m] # Null /\ m \notin acked /\ Given(m) = 1 .. i - 1
        /\ UNCHANGED <<content, acked, alerts, audits, tenants>>
    BY DEF LoseDelivery, Deliver, storeVars
  <1>3. i \in Nat \ {0} /\ 1 .. i \subseteq Attempts
    BY DeliverAssumption DEF Attempts
  <1>4. Given(m)' = 1 .. i
    <2>1. \A k \in Attempts : k \in Given(m)' <=> k = i \/ k \in Given(m)
      BY <1>1, TypeParts, GivenGoes DEF Given
    <2>2. Given(m)' \subseteq Attempts
      BY DEF Given
    <2>3. \A k \in Attempts : k \in 1 .. i <=> k = i \/ k \in 1 .. i - 1
      BY <1>3 DEF Attempts
    <2>4. \A k \in Attempts : k \in Given(m)' <=> k \in 1 .. i
      BY <1>2, <2>1, <2>3
    <2> QED BY <1>3, <2>2, <2>4
  <1>5. \A n \in Messages : n # m => Given(n)' = Given(n)
    BY <1>1, TypeParts, GivenGoes DEF Given
  <1>6. Takens' = [Takens EXCEPT ![m] = 1 .. i] /\ Takens[m] = 1 .. i - 1
    BY <1>2, <1>4, <1>5 DEF Takens
  <1>7. Fates' = Fates /\ Fates[m] # "unpublished"
    <2>1. \A n \in Messages : Fate(n)' = Fate(n)
      BY <1>2, FateStays
    <2>2. Fate(m) # "unpublished"
      BY <1>2 DEF Fate
    <2> QED BY <2>1, <2>2 DEF Fates
  <1>8. UNCHANGED <<Records, acked>>
    BY <1>2 DEF Records
  <1> QED BY <1>2, <1>6, <1>7, <1>8 DEF Inbox!Take, Fates, Takens, Records

LEMMA RecordStep ==
    ASSUME IInv, Placed, NEW m \in Messages, NEW i \in Attempts, Store(m, i)
    PROVE  Inbox!Record(m, i)
  <1>1. /\ TypeOK /\ delivery[m][i] # Null /\ delivery[m][i].pc = "held"
        /\ Goto(m, i, "stored") \/ Goto(m, i, "over")
        /\ content[m] # Null /\ Understood(content[m])
        /\ UNCHANGED <<content, acked, tenants>>
    BY DEF IInv, Known, Given, Store, Held
  <1>2. Fates[m] = "wanted"
    <2>1. ~ TenantGone(content[m])
      BY DEF Store, SaveAlert, LogAuditEvent, TenantGone
    <2> QED BY <1>1, <2>1 DEF Fate, Fates
  <1>3. i \in Takens[m]
    BY <1>1 DEF Takens, Given
  <1>4. <<m, i>> \notin Records
    BY <1>1 DEF Records, Placed, Past
  <1>5. Records' = Records \cup {<<m, i>>}
    <2>1. (alerts \cup audits)' = (alerts \cup audits) \cup {Row(m, i)}
      BY DEF Store, SaveAlert, LogAuditEvent
    <2>2. Row(m, i).msg = m /\ Row(m, i).attempt = i
      BY DEF Row
    <2> QED BY <2>1, <2>2 DEF Records
  <1>6. Fates' = Fates
    BY <1>1, FateStays DEF Fates
  <1>7. Takens' = Takens
    BY <1>1, GivenStays
  <1> QED BY <1>1, <1>2, <1>3, <1>4, <1>5, <1>6, <1>7
          DEF Inbox!Record, Fates, Takens, Records

\* A handler that ends settles its message or leaves it as it is.
LEMMA SettleStep ==
    ASSUME IInv, Placed, NEW m \in Messages, NEW i \in Attempts,
           Skip(m, i) \/ Ack(m, i) \/ StoreFails(m, i) \/ Forget(m, i)
    PROVE  Inbox!Settle(m) \/ UNCHANGED <<Fates, Takens, Records, acked>>
  <1>1. /\ TypeOK /\ RowTypes /\ delivery[m][i] # Null /\ Goto(m, i, "over")
        /\ content[m] # Null
        /\ UNCHANGED <<content, alerts, audits, tenants>>
        /\ acked' \in {acked, acked \cup {m}}
    BY TypeParts DEF IInv, Known, Given, Skip, Ack, AckOver, StoreFails, Forget,
                     Held, storeVars
  <1>2. UNCHANGED <<Fates, Takens, Records>>
    <2>1. Fates' = Fates
      BY <1>1, FateStays DEF Fates
    <2>2. Takens' = Takens
      BY <1>1, GivenStays
    <2> QED BY <1>1, <2>1, <2>2 DEF Records
  <1>3. ASSUME acked' = acked \cup {m}, m \notin acked
        PROVE  Inbox!Settle(m)
    <2>1. Takens[m] # {}
      BY <1>1 DEF Takens, Given
    <2>2. Fates[m] = "void" \/ \E k \in Takens[m] : <<m, k>> \in Records
      <3>1. CASE Skip(m, i)
        <4>1. ~ Understood(content[m]) /\ content[m].listener = "audit"
          BY <1>3, <3>1 DEF Skip
        <4> QED BY <1>1, <4>1 DEF Fate, Fates
      <3>2. CASE Ack(m, i)
        <4>1. Kept(m)
          BY <3>2 DEF Ack, IInv, StoredKept
        <4>2. CASE TenantGone(content[m])
          BY <4>1, <4>2 DEF Kept, Fate, Fates
        <4>3. ASSUME NEW r \in RowsOf(m)
              PROVE  r.attempt \in Takens[m] /\ <<m, r.attempt>> \in Records
          <5>1. r \in alerts \cup audits /\ r.msg = m
            BY DEF RowsOf
          <5>2. r.attempt \in Attempts /\ delivery[m][r.attempt] # Null
            BY <1>1, <5>1 DEF RowTypes, Placed, Past
          <5> QED BY <5>1, <5>2 DEF Takens, Given, Records
        <4> QED BY <4>1, <4>2, <4>3 DEF Kept
      <3>3. ~ (StoreFails(m, i) \/ Forget(m, i))
        BY <1>3 DEF StoreFails, Forget
      <3> QED BY <3>1, <3>2, <3>3
    <2> QED BY <1>2, <1>3, <2>1, <2>2 DEF Inbox!Settle, Fates, Takens, Records
  <1> QED BY <1>1, <1>2, <1>3

\* The deletion of a tenant is the end of what belongs to it.
LEMMA EraseStep ==
    ASSUME IInv, Placed, NEW t \in Tenants, DeleteTenant(t)
    PROVE  \E gone \in SUBSET Messages : Inbox!Erase(gone)
  <1>0. PICK gone \in SUBSET Messages :
          gone = {m \in Messages : /\ content[m] # Null /\ content[m].listener = "audit"
                                   /\ TenantOf(content[m]) = t
                                   /\ Understood(content[m])}
    OBVIOUS
  <1>1. /\ TypeOK /\ RowTypes /\ Linked
        /\ t \in tenants /\ tenants' = tenants \ {t}
        /\ alerts' = alerts /\ audits' = {r \in audits : r.tenant # t}
        /\ UNCHANGED <<content, acked, delivery>>
    BY TypeParts DEF IInv, DeleteTenant, streamVars
  <1>2. ASSUME NEW m \in gone
        PROVE  Fate(m) = "wanted" /\ Fate(m)' = "void"
    BY <1>0, <1>1 DEF Fate, TenantGone, Understood, TenantOf
  <1>3. ASSUME NEW m \in Messages, m \notin gone
        PROVE  Fate(m)' = Fate(m)
    BY <1>0, <1>1, <1>3 DEF Fate, TenantGone, Understood, TenantOf
  <1>4. /\ \A m \in gone : Fates[m] = "wanted"
        /\ Fates' = [m \in Messages |-> IF m \in gone THEN "void" ELSE Fates[m]]
    BY <1>2, <1>3 DEF Fates
  <1>5. Records' = {r \in Records : r[1] \notin gone}
    <2>1. ASSUME NEW r \in alerts \cup audits
          PROVE  r \in (alerts \cup audits)' <=> r.msg \notin gone
      <3>1. /\ r.msg \in Messages /\ content[r.msg] # Null
            /\ Understood(content[r.msg]) /\ r.tenant = TenantOf(content[r.msg])
        BY <1>1 DEF RowTypes, Linked, Placed
      <3>2. r \in alerts => content[r.msg].listener = "alerts"
        BY DEF Placed
      <3>3. r \in audits => content[r.msg].listener = "audit"
        BY <1>1 DEF Linked
      <3> QED BY <1>0, <1>1, <3>1, <3>2, <3>3
    <2>2. (alerts \cup audits)' \subseteq alerts \cup audits
      BY <1>1
    <2> QED BY <2>1, <2>2 DEF Records
  <1>6. UNCHANGED <<Takens, acked>>
    BY <1>1 DEF Takens, Given
  <1>7. Inbox!Erase(gone)
    BY <1>4, <1>5, <1>6 DEF Inbox!Erase, Fates, Takens, Records
  <1> QED BY <1>7

\* Every step is a step of the intake or changes nothing of it.
LEMMA IntakeStep ==
    ASSUME IInv, Placed, [Next]_vars
    PROVE  Inbox!Next \/ UNCHANGED <<Fates, Takens, Records, acked>>
  <1>0. TypeOK
    BY DEF IInv
  <1>1. ASSUME NEW m \in Messages, NEW c \in Published, Publish(m, c)
        PROVE  Inbox!Next
    BY <1>0, <1>1, PublishStep DEF Inbox!Next
  <1>2. ASSUME NEW m \in Messages, NEW i \in Attempts,
               LoseDelivery(m, i) \/ (\E p \in Procs : Deliver(m, i, p))
        PROVE  Inbox!Next
    BY <1>0, <1>2, TakeStep DEF Inbox!Next
  <1>3. ASSUME NEW m \in Messages, NEW i \in Attempts, Handle(m, i) \/ Forget(m, i)
        PROVE  Inbox!Next \/ UNCHANGED <<Fates, Takens, Records, acked>>
    BY <1>3, RecordStep, SettleStep DEF Handle, Inbox!Next
  <1>4. ASSUME NEW t \in Tenants, DeleteTenant(t)
        PROVE  Inbox!Next
    BY <1>4, EraseStep DEF Inbox!Next
  <1>5. ASSUME UNCHANGED <<content, tenants, alerts, audits, acked>>,
               \A m \in Messages : Given(m)' = Given(m)
        PROVE  UNCHANGED <<Fates, Takens, Records, acked>>
    <2>1. Fates' = Fates
      BY <1>5, FateStays DEF Fates
    <2> QED BY <1>5, <2>1 DEF Takens, Records
  <1>6. ASSUME NEW p \in Procs, EndProcess(p)
        PROVE  UNCHANGED <<Fates, Takens, Records, acked>>
    <2>1. \A m \in Messages : Given(m)' = Given(m)
      BY <1>0, <1>6, TypeParts, EndGoes DEF Given
    <2> QED BY <1>5, <1>6, <2>1 DEF EndProcess, storeVars
  <1>7. CASE UNCHANGED vars \/ \E p \in Procs : ClientNext(p)
    <2>1. UNCHANGED <<content, tenants, alerts, audits, acked, delivery>>
      BY <1>7 DEF vars, ClientNext, storeVars, streamVars
    <2>2. \A m \in Messages : Given(m)' = Given(m)
      BY <2>1 DEF Given
    <2> QED BY <1>5, <2>1, <2>2
  <1> QED BY <1>1, <1>2, <1>3, <1>4, <1>6, <1>7 DEF Next

\* Refinement: for any number of processes, messages, attempts and failures,
\* the durable consumers, their handlers and the tables behave as the intake
\* (consumeJetStreamMessages, AlertsNatsService, ProvisioningAuditConsumer).
THEOREM EventsAreTakenIn == Spec => IntakePromise
  <1>1. Init => IInv /\ Placed /\ Inbox!Init
    <2> SUFFICES ASSUME Init
                 PROVE  Placed /\ Inbox!Init
      BY InvInit
    <2>1. Placed
      BY DEF Init, Placed
    <2>2. \A m \in Messages : Fate(m) = "unpublished" /\ Given(m) = {}
      BY DEF Init, Fate, Given
    <2>3. {<<r.msg, r.attempt>> : r \in alerts \cup audits} = {} /\ acked = {}
      BY DEF Init
    <2> QED BY <2>1, <2>2, <2>3 DEF Inbox!Init
  <1>2. IInv /\ Placed /\ [Next]_vars => (IInv /\ Placed)'
    BY InvStep, PlacedStep
  <1>3. IInv /\ Placed /\ [Next]_vars
          => [Inbox!Next]_<<[m \in Messages |-> Fate(m)], [m \in Messages |-> Given(m)],
                            {<<r.msg, r.attempt>> : r \in alerts \cup audits}, acked>>
    BY IntakeStep DEF Fates, Takens, Records
  <1> QED BY <1>1, <1>2, <1>3, PTL DEF Spec, IntakePromise, Inbox!Spec

=============================================================================
