------------------------------- MODULE Events -------------------------------
(***************************************************************************)
(* Gateway-offline alerts (AlertsNatsService) and provisioning audit       *)
(* events (ProvisioningAuditConsumer): what the durable consumers deliver  *)
(* to the processes of NatsClient, and what the handlers store of it.  A   *)
(* message that is not acknowledged within the ack wait, however busy its  *)
(* handler is, is delivered again, to any process, MaxDeliver times in     *)
(* all.  Every await of a handler is a boundary between two actions.       *)
(***************************************************************************)
EXTENDS NatsClient, FiniteSets

CONSTANTS
    Messages,    \* messages that publishers put on the two streams
    Published,   \* what these messages say
    Tenants,     \* ids of tenants, all of them created before
    MaxDeliver,  \* max_deliver of the durable consumers
    Null         \* an absent message, delivery or tenant

ASSUME DeliverAssumption == MaxDeliver \in Nat \ {0}

Attempts == 1 .. MaxDeliver

\* What a message says.  "junk" stands for every body that a handler cannot
\* use: no JSON, fields that are missing or malformed.  A tenant is Null
\* where subject or body name no UUID.
Contents == [listener : Listeners, body : {"good", "junk"},
             subject : Tenants \cup {Null}, details : Tenants \cup {Null}]

\* "held": buffered or waiting for the INSERT; "stored": before the ack.
Delivery == [proc : Procs, pc : {"held", "stored", "over"}]

ASSUME DataAssumption ==
    /\ Published \subseteq Contents
    /\ Listeners = {"alerts", "audit"}
    /\ Null \notin Contents /\ Null \notin Delivery /\ Null \notin Tenants

VARIABLES
    tenants,    \* rows of table tenants
    content,    \* per message, what was published, or Null
    missed,     \* messages published before their durable consumer existed
    acked,      \* messages whose acknowledgement reached the server
    delivery,   \* per message and attempt, the delivery, or Null
    alerts,     \* rows of table alerts: message, attempt, tenant
    audits,     \* rows of table audits: message, attempt, tenant
    slips       \* history: per message, ack waits that ran out under a
                \* handler, answers of the database and acknowledgements
                \* that got lost

storeVars == <<tenants, alerts, audits>>

streamVars == <<content, missed, acked, delivery, slips>>

vars == <<clientVars, storeVars, streamVars>>

Init ==
    /\ ClientInit
    /\ tenants = Tenants
    /\ content = [m \in Messages |-> Null]
    /\ missed = {}
    /\ acked = {}
    /\ delivery = [m \in Messages |-> [i \in Attempts |-> Null]]
    /\ alerts = {}
    /\ audits = {}
    /\ slips = [m \in Messages |-> 0]

-----------------------------------------------------------------------------
(* The streams (external).                                                 *)

\* deliver_policy "new": a durable consumer that does not exist yet will
\* not look back.
Publish(m, c) ==
    /\ content[m] = Null
    /\ content' = [content EXCEPT ![m] = c]
    /\ missed' = IF c.listener \in durables THEN missed ELSE missed \cup {m}
    /\ UNCHANGED <<clientVars, storeVars, acked, delivery, slips>>

Given(m) == {i \in Attempts : delivery[m][i] # Null}

UnderWay(m) == {i \in Given(m) : delivery[m][i].pc # "over"}

\* A mutant: a message is delivered once, as without max_deliver.
DeliverOnce(m, i, p) ==
    /\ content[m] # Null /\ m \notin missed \cup acked
    /\ Hears(p, content[m].listener)
    /\ i = 1 /\ Given(m) = {}
    /\ delivery' = [delivery EXCEPT ![m][i] = [proc |-> p, pc |-> "held"]]
    /\ UNCHANGED <<clientVars, storeVars, content, missed, acked, slips>>

Deliver(m, i, p) ==
    /\ content[m] # Null /\ m \notin missed \cup acked
    /\ Hears(p, content[m].listener)
    /\ Given(m) = 1 .. i - 1
    /\ \/ /\ UnderWay(m) = {}
          /\ UNCHANGED <<mishaps, slips>>
       \/ /\ UnderWay(m) # {}
          /\ Mishap
          /\ slips' = [slips EXCEPT ![m] = @ + 1]
    /\ delivery' = [delivery EXCEPT ![m][i] = [proc |-> p, pc |-> "held"]]
    /\ UNCHANGED <<proc, link, loop, durables, storeVars, content, missed, acked>>

\* Delivered to a connection that has just gone.
LoseDelivery(m, i) ==
    /\ content[m] # Null /\ m \notin missed \cup acked
    /\ content[m].listener \in durables
    /\ Given(m) = 1 .. i - 1
    /\ UnderWay(m) = {}
    /\ Mishap
    /\ \E p \in Procs :
         delivery' = [delivery EXCEPT ![m][i] = [proc |-> p, pc |-> "over"]]
    /\ UNCHANGED <<proc, link, loop, durables, storeVars, content, missed,
                   acked, slips>>

-----------------------------------------------------------------------------
(* The handlers.                                                           *)

\* saveAlert asks the body first, resolveTenantId the subject.
TenantOf(c) ==
    LET first  == IF c.listener = "alerts" THEN c.details ELSE c.subject
        second == IF c.listener = "alerts" THEN c.subject ELSE c.details
    IN  IF first # Null THEN first ELSE second

\* A mutant: a tenant is not asked for.
UnderstoodBody(c) == c.body = "good"

Understood(c) == c.body = "good" /\ TenantOf(c) # Null

Held(m, i) == delivery[m][i] # Null /\ delivery[m][i].pc = "held"

Goto(m, i, pc) == delivery' = [delivery EXCEPT ![m][i].pc = pc]

\* The acknowledgement is sent and forgotten: it may be lost, and is on a
\* connection that is gone.  nats.js may keep it until it reconnects.
AckOver(m, i, wasStored) ==
    \/ /\ link[delivery[m][i].proc] \in {"up", "lost"}
       /\ acked' = acked \cup {m}
       /\ UNCHANGED <<mishaps, slips>>
    \/ /\ \/ link[delivery[m][i].proc] # "up" /\ UNCHANGED mishaps
          \/ Mishap
       /\ slips' = IF wasStored THEN [slips EXCEPT ![m] = @ + 1] ELSE slips
       /\ UNCHANGED acked

\* A message that cannot be understood: the audit consumer acknowledges
\* and skips it, the alert handler throws or returns before its ack.
Skip(m, i) ==
    /\ Held(m, i)
    /\ ~Understood(content[m])
    /\ Goto(m, i, "over")
    /\ \/ /\ content[m].listener = "audit"
          /\ AckOver(m, i, FALSE)
       \/ /\ content[m].listener = "alerts"
          /\ UNCHANGED <<acked, mishaps, slips>>
    /\ UNCHANGED <<proc, link, loop, durables, storeVars, content, missed>>

Row(m, i) == [msg |-> m, attempt |-> i, tenant |-> TenantOf(content[m])]

\* AlertsPersistenceService.saveAlert: the table has no foreign key.
SaveAlert(m, i) ==
    /\ content[m].listener = "alerts"
    /\ alerts' = alerts \cup {Row(m, i)}
    /\ UNCHANGED audits

\* AuditLogService.logAuditEvent: the row needs its tenant's.
LogAuditEvent(m, i) ==
    /\ content[m].listener = "audit"
    /\ TenantOf(content[m]) \in tenants
    /\ audits' = audits \cup {Row(m, i)}
    /\ UNCHANGED alerts

\* The INSERT commits.  When the database's answer gets lost it has failed
\* for all the handler knows, which logs and does not acknowledge.
Store(m, i) ==
    /\ Held(m, i)
    /\ Understood(content[m])
    /\ SaveAlert(m, i) \/ LogAuditEvent(m, i)
    /\ \/ /\ Goto(m, i, "stored")
          /\ UNCHANGED <<mishaps, slips>>
       \/ /\ Goto(m, i, "over")
          /\ Mishap
          /\ slips' = [slips EXCEPT ![m] = @ + 1]
    /\ UNCHANGED <<proc, link, loop, durables, tenants, content, missed, acked>>

\* A mutant: the message is acknowledged whether it was stored or not.
StoreFailsAcked(m, i) ==
    /\ Held(m, i)
    /\ Understood(content[m])
    /\ \/ Mishap
       \/ /\ content[m].listener = "audit"
          /\ TenantOf(content[m]) \notin tenants
          /\ UNCHANGED mishaps
    /\ Goto(m, i, "over")
    /\ acked' = acked \cup {m}
    /\ UNCHANGED <<proc, link, loop, durables, storeVars, content, missed, slips>>

\* The INSERT is refused, or never gets there: logged, not acknowledged.
StoreFails(m, i) ==
    /\ Held(m, i)
    /\ Understood(content[m])
    /\ \/ Mishap
       \/ /\ content[m].listener = "audit"
          /\ TenantOf(content[m]) \notin tenants
          /\ UNCHANGED mishaps
    /\ Goto(m, i, "over")
    /\ UNCHANGED <<proc, link, loop, durables, storeVars, content, missed,
                   acked, slips>>

\* A mutant: the handler returns without acknowledging what it stored.
AckForgotten(m, i) ==
    /\ delivery[m][i] # Null /\ delivery[m][i].pc = "stored"
    /\ Goto(m, i, "over")
    /\ UNCHANGED <<clientVars, storeVars, content, missed, acked, slips>>

Ack(m, i) ==
    /\ delivery[m][i] # Null /\ delivery[m][i].pc = "stored"
    /\ Goto(m, i, "over")
    /\ AckOver(m, i, TRUE)
    /\ UNCHANGED <<proc, link, loop, durables, storeVars, content, missed>>

\* A message that was buffered in a loop that has ended.
Forget(m, i) ==
    /\ Held(m, i)
    /\ Deaf(delivery[m][i].proc, content[m].listener)
    /\ Goto(m, i, "over")
    /\ UNCHANGED <<clientVars, storeVars, content, missed, acked, slips>>

Handle(m, i) == Skip(m, i) \/ Store(m, i) \/ StoreFails(m, i) \/ Ack(m, i)

-----------------------------------------------------------------------------
(* Around them.                                                            *)

\* TenantsService.deleteTenant: audit rows go with the tenant, alerts stay.
DeleteTenant(t) ==
    /\ t \in tenants
    /\ tenants' = tenants \ {t}
    /\ audits' = {r \in audits : r.tenant # t}
    /\ UNCHANGED <<clientVars, streamVars, alerts>>

\* The handlers of a process end with it, between two of their steps.
EndProcess(p) ==
    /\ ProcessEnds(p)
    /\ LET cut(m) == {i \in UnderWay(m) : delivery[m][i].proc = p}
           stored(m) == {i \in cut(m) : delivery[m][i].pc = "stored"}
       IN  /\ delivery' = [m \in Messages |-> [i \in Attempts |->
                             IF i \in cut(m)
                             THEN [delivery[m][i] EXCEPT !.pc = "over"]
                             ELSE delivery[m][i]]]
           /\ slips' = [m \in Messages |-> slips[m] + Cardinality(stored(m))]
    /\ UNCHANGED <<storeVars, content, missed, acked>>

ClientNext(p) == ClientStep(p) /\ UNCHANGED <<storeVars, streamVars>>

Next ==
    \/ \E m \in Messages, c \in Published : Publish(m, c)
    \/ \E m \in Messages, i \in Attempts :
         \/ \E p \in Procs : Deliver(m, i, p)
         \/ LoseDelivery(m, i)
         \/ Handle(m, i) \/ Forget(m, i)
    \/ \E t \in Tenants : DeleteTenant(t)
    \/ \E p \in Procs : EndProcess(p) \/ ClientNext(p)

Spec == Init /\ [][Next]_vars

\* A stopped process is started again, hooks get an answer or an error,
\* nats.js tries to reconnect until it has a connection or gives up, the
\* server delivers, the event loop serves every handler.
Fairness ==
    /\ \A p \in Procs :
         /\ WF_vars(Boot(p) /\ UNCHANGED <<storeVars, streamVars>>)
         /\ WF_vars(EndProcess(p) /\ proc[p] = "booting" /\ link[p] = "closed")
         /\ WF_vars((Reconnect(p) \/ GiveUp(p)) /\ UNCHANGED <<storeVars, streamVars>>)
         /\ \A l \in Listeners :
              WF_vars(Subscribe(p, l) /\ UNCHANGED <<storeVars, streamVars>>)
    /\ \A m \in Messages, i \in Attempts :
         /\ WF_vars(\E p \in Procs : Deliver(m, i, p))
         /\ WF_vars(Handle(m, i))

FairSpec == Spec /\ Fairness

-----------------------------------------------------------------------------
(* Properties.                                                             *)

\* Every variable keeps its shape, and attempts are made one by one.
TypeOK ==
    /\ ClientTypeOK
    /\ tenants \subseteq Tenants
    /\ content \in [Messages -> Published \cup {Null}]
    /\ missed \subseteq Messages /\ acked \subseteq Messages
    /\ delivery \in [Messages -> [Attempts -> Delivery \cup {Null}]]
    /\ \A m \in Messages, i, k \in Attempts :
         k < i /\ i \in Given(m) => k \in Given(m)
    /\ \A r \in alerts \cup audits :
         /\ r.msg \in Messages /\ r.attempt \in Attempts
         /\ r.tenant \in Tenants
    /\ slips \in [Messages -> Nat]

TenantGone(c) == c.listener = "audit" /\ TenantOf(c) \notin tenants

RowsOf(m) == {r \in alerts \cup audits : r.msg = m}

\* Neither handler keeps a key of the message, so what is delivered again is
\* stored again.  But a message is stored once and only once more for each
\* ack wait that ran out under a handler, each answer to an INSERT that got
\* lost after its commit, each acknowledgement that got lost and each process
\* that ended in between: what failed before the commit, what was skipped and
\* what was never handled adds no row.
DuplicatesArePaid ==
    \A m \in Messages : Cardinality(RowsOf(m)) <= 1 + slips[m]

\* A message that the server will not deliver again is stored, unless
\* nobody could understand it or its tenant is deleted; and a broken alert
\* is never acknowledged.
AcksAreEarned ==
    \A m \in acked :
        LET c == content[m]
        IN  IF Understood(c)
            THEN RowsOf(m) # {} \/ TenantGone(c)
            ELSE c.listener = "audit"

\* What becomes of a message: saveAlert stores and acknowledges nothing of an
\* alert it does not understand, the audit consumer skips such a message.
Fate(m) ==
    LET c == content[m]
    IN  CASE c = Null -> "unpublished"
          [] c # Null /\ ~Understood(c) ->
                IF c.listener = "audit" THEN "void" ELSE "stuck"
          [] c # Null /\ Understood(c) ->
                IF TenantGone(c) THEN "void" ELSE "wanted"

Inbox == INSTANCE Intake WITH
    fate    <- [m \in Messages |-> Fate(m)],
    taken   <- [m \in Messages |-> Given(m)],
    records <- {<<r.msg, r.attempt>> : r \in alerts \cup audits},
    settled <- acked

\* Refinement: whatever fails, is redelivered or restarted, and in whatever
\* order the attempts at a message go on, each step is a step of the intake
\* or changes nothing of it: what was acknowledged is in its table and stays
\* there until its tenant goes, is not taken again, and no attempt records
\* it twice (consumeJetStreamMessages, AlertsNatsService and
\* ProvisioningAuditConsumer with what they store).
IntakePromise == Inbox!Spec

Awaited(m) ==
    content[m] # Null /\ m \notin missed /\ Understood(content[m])

Settled(m) ==
    content[m] # Null /\ (\/ m \in acked
                          \/ TenantGone(content[m])
                          \/ \A p \in Procs : Deaf(p, content[m].listener))

\* As long as there are fewer failures than attempts, every message that is
\* published after its durable consumer was made and that can be understood
\* is stored and acknowledged in the end, unless its tenant goes or the
\* loops of all processes have ended: such a process serves HTTP, connects
\* nothing again and stays deaf until it is restarted.
EventsSettle ==
    \A m \in Messages : Awaited(m) ~> Settled(m)

=============================================================================
