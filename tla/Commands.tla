------------------------------ MODULE Commands ------------------------------
(***************************************************************************)
(* Gateway commands: an HTTP request queues a command and publishes it on  *)
(* JetStream; the gateway executes it and reports on stream COMMAND_ACKS;  *)
(* the durable acknowledgement consumer writes the reported status into    *)
(* the command's row and, for an "ack", the requested configuration into   *)
(* the gateway's row.  Every await of the code is a boundary between two   *)
(* actions.  TypeORM's save() writes every column of the loaded entity and *)
(* inserts the row again when it has gone meanwhile, so a snapshot taken   *)
(* by a findOne lives in the state of its process until it is saved.       *)
(***************************************************************************)
EXTENDS Naturals, FiniteSets

CONSTANTS
    Gateways,      \* ids of gateways
    CommandIds,    \* ids of command rows, one fresh id per HTTP request
    Requests,      \* bodies of the config and firmware requests
    Workers,       \* processes that pull from the durable consumer
    Editors,       \* other request handlers that load and save a gateway
    Freqs,         \* send frequencies
    DefaultFreq,   \* DEFAULT_GATEWAY_SEND_FREQUENCY_MS
    Firmwares,     \* firmware versions
    FactoryFw,     \* the version a gateway has before any command
    Declarations,  \* what completions of provisioning declare of a gateway
    SeenStatuses,  \* gateway statuses that update-status requests carry
    RawStatuses,   \* status strings that a gateway's report may carry
    MaxDeliver,    \* max_deliver of the durable consumer
    MaxReports,    \* bound: reports that gateways publish
    MaxFailures,   \* bound: rejected database calls, crashes, lost messages
    Null           \* an absent row, column or snapshot

\* "blank" stands for every string that trim() empties.
Blank == "blank"

GatewayStatuses ==
    {"gateway_online", "gateway_offline", "gateway_suspended"}

\* mapCommandGatewayStatus on trimmed lower-case names.
StatusAliases ==
    [online            |-> "gateway_online",
     gateway_online    |-> "gateway_online",
     paused            |-> "gateway_suspended",
     suspended         |-> "gateway_suspended",
     gateway_suspended |-> "gateway_suspended",
     offline           |-> "gateway_offline",
     gateway_offline   |-> "gateway_offline"]

\* A mutant: the request's word goes into the row's enum column as it is.
MapCommandGatewayStatusVerbatim(s) == IF s \in {Null, Blank} THEN Null ELSE s

MapCommandGatewayStatus(s) ==
    IF s \in DOMAIN StatusAliases THEN StatusAliases[s] ELSE Null

CommandStatuses == {"QUEUED", "ACK", "NACK", "EXPIRED", "TIMEOUT"}

StatusNormalizationMap ==
    [ack |-> "ACK", nack |-> "NACK", queued |-> "QUEUED",
     expired |-> "EXPIRED", timeout |-> "TIMEOUT"]

NormalizeStatus(raw) ==
    IF raw \in DOMAIN StatusNormalizationMap
    THEN StatusNormalizationMap[raw] ELSE Null

Reports == 1 .. MaxReports

Metadata == [freq : Freqs, status : GatewayStatuses]

GatewayRow == [fw : Firmwares, meta : Metadata \cup {Null}]

Message == [cmd : CommandIds, raw : RawStatuses,
            deliveries : 0 .. MaxDeliver,
            state : {"stored", "acked", "expired"}]

Dispatch == [pc : {"checked", "queued", "closed"},
             gateway : Gateways, request : Requests]

WorkerPC == {"idle", "received", "found", "saved", "loaded", "acking"}

WorkerState == [pc : WorkerPC, msg : Reports \cup {Null},
                gw : GatewayRow \cup {Null}]

EditorState == [gateway : Gateways, gw : GatewayRow]

ASSUME BoundsAssumption ==
    /\ MaxDeliver \in Nat \ {0}
    /\ MaxReports \in Nat
    /\ MaxFailures \in Nat

ASSUME DataAssumption ==
    /\ DefaultFreq \in Freqs
    /\ FactoryFw \in Firmwares
    /\ SeenStatuses \subseteq GatewayStatuses
    /\ \A d \in Declarations : d.freq \in Freqs /\ d.fw \in Firmwares \cup {Blank}
    /\ \A r \in Requests :
         /\ r.type \in {"CONFIG", "FIRMWARE"}
         /\ r.type = "CONFIG"   => r.freq \in Freqs \cup {Null}
         /\ r.type = "FIRMWARE" => r.fw \in Firmwares \cup {Blank}

ASSUME NullAssumption ==
    /\ Null \notin Metadata /\ Null \notin GatewayRow
    /\ Null \notin Message /\ Null \notin Dispatch /\ Null \notin EditorState
    /\ Null \notin CommandStatuses /\ Null \notin GatewayStatuses
    /\ Null \notin Freqs /\ Null \notin CommandIds /\ Null \notin Reports
    /\ Blank \notin Firmwares

VARIABLES
    gateways,   \* table gateways joined with gateways_metadata
    commands,   \* table commands: the status column, Null for no row
    dispatch,   \* per command id, its HTTP request and immutable columns
    published,  \* ids on stream COMMANDS, which gateways receive
    stream,     \* stream COMMAND_ACKS, Null where nothing is stored yet
    worker,     \* acknowledgement consumers
    editor,     \* Null, or the gateway snapshot another handler holds
    installed,  \* the firmware each device runs (external)
    applied,    \* history: commands whose effect has been saved
    deleted,    \* history: gateways that have been deleted
    declared,   \* history: per gateway, what its completions declared
    deaf,       \* consumer processes whose loop has ended
    failures    \* failures so far, bounded by MaxFailures

vars == <<gateways, commands, dispatch, published, stream, worker, editor,
          installed, applied, deleted, declared, deaf, failures>>

Idle == [pc |-> "idle", msg |-> Null, gw |-> Null]

FactoryRow ==
    [fw |-> FactoryFw, meta |-> [freq |-> DefaultFreq, status |-> "gateway_offline"]]

\* A gateway may still lack its metadata row: addGateway saves it after the
\* gateway, outside a transaction.
Init ==
    /\ gateways \in [Gateways -> {FactoryRow, [FactoryRow EXCEPT !.meta = Null]}]
    /\ commands = [c \in CommandIds |-> Null]
    /\ dispatch = [c \in CommandIds |-> Null]
    /\ published = {}
    /\ stream = [m \in Reports |-> Null]
    /\ worker = [w \in Workers |-> Idle]
    /\ editor = [e \in Editors |-> Null]
    /\ installed = [g \in Gateways |-> FactoryFw]
    /\ applied = {}
    /\ deleted = {}
    /\ declared = [g \in Gateways |-> {}]
    /\ deaf = {}
    /\ failures = 0

-----------------------------------------------------------------------------
(* CommandService: one HTTP request per command id.                        *)

ValidRequest(r) ==
    r.type = "CONFIG" => r.freq # Null \/ r.status \notin {Null, Blank}

\* sendConfig and sendFirmware up to the ownership check.  A gateway of
\* another tenant is as absent as a deleted one: both answer 404.
SendCommand(c, g, r) ==
    /\ dispatch[c] = Null
    /\ ValidRequest(r)
    /\ gateways[g] # Null
    /\ dispatch' = [dispatch EXCEPT
                      ![c] = [pc |-> "checked", gateway |-> g, request |-> r]]
    /\ UNCHANGED <<gateways, commands, published, stream, worker, editor,
                   installed, applied, deleted, declared, deaf, failures>>

\* queueCommand: the INSERT fails on its foreign key when the gateway has
\* been deleted since the check.
QueueCommand(c) ==
    /\ dispatch[c] # Null /\ dispatch[c].pc = "checked"
    /\ \/ /\ gateways[dispatch[c].gateway] # Null
          /\ commands' = [commands EXCEPT ![c] = "QUEUED"]
          /\ dispatch' = [dispatch EXCEPT ![c].pc = "queued"]
       \/ /\ gateways[dispatch[c].gateway] = Null
          /\ dispatch' = [dispatch EXCEPT ![c].pc = "closed"]
          /\ UNCHANGED commands
    /\ UNCHANGED <<gateways, published, stream, worker, editor,
                   installed, applied, deleted, declared, deaf, failures>>

\* A mutant: a command that could not be published counts as refused.
PublishOrNack(c) ==
    /\ dispatch[c] # Null /\ dispatch[c].pc = "queued"
    /\ dispatch' = [dispatch EXCEPT ![c].pc = "closed"]
    /\ \/ published' = published \cup {c} /\ UNCHANGED commands
       \/ commands' = [commands EXCEPT ![c] = "NACK"] /\ UNCHANGED published
    /\ UNCHANGED <<gateways, stream, worker, editor, installed, applied,
                   deleted, declared, deaf, failures>>

\* publishToNats: the request succeeds either way, a rejected publish is
\* logged and nothing publishes the command again.  A process that dies
\* here leaves the same state.
PublishToNats(c) ==
    /\ dispatch[c] # Null /\ dispatch[c].pc = "queued"
    /\ dispatch' = [dispatch EXCEPT ![c].pc = "closed"]
    /\ \/ published' = published \cup {c}
       \/ UNCHANGED published
    /\ UNCHANGED <<gateways, commands, stream, worker, editor,
                   installed, applied, deleted, declared, deaf, failures>>

-----------------------------------------------------------------------------
(* The gateway and stream COMMAND_ACKS (external).                         *)

NextReport(m) ==
    /\ stream[m] = Null
    /\ \A k \in Reports : k < m => stream[k] # Null

Stored(cmd, raw) ==
    [cmd |-> cmd, raw |-> raw, deliveries |-> 0, state |-> "stored"]

\* The device executes or refuses a command it received, maybe more than
\* once (it receives at least once too), and reports the outcome.  A status
\* that NormalizeStatus does not know stands for every report the consumer
\* skips: no JSON, no command id, an unknown status, an invalid timestamp.
ReportOutcome(c, raw) ==
    /\ c \in published
    /\ \E m \in Reports :
         /\ NextReport(m)
         /\ stream' = [stream EXCEPT ![m] = Stored(c, raw)]
    /\ LET r == dispatch[c].request
       IN  installed' = IF raw = "ack" /\ r.type = "FIRMWARE" /\ r.fw # Blank
                        THEN [installed EXCEPT ![dispatch[c].gateway] = r.fw]
                        ELSE installed
    /\ UNCHANGED <<gateways, commands, dispatch, published, worker, editor,
                   applied, deleted, declared, deaf, failures>>

IsStored(m) == stream[m] # Null /\ stream[m].state = "stored"

\* A mutant: a message is never delivered again.
DeliverableOnce(m) ==
    /\ IsStored(m)
    /\ stream[m].deliveries = 0
    /\ \A k \in Reports : k < m /\ IsStored(k) => stream[k].deliveries > 0

\* First deliveries come in stream order; an unacknowledged message comes
\* again, after its ack wait, until it has been delivered MaxDeliver times.
Deliverable(m) ==
    /\ IsStored(m)
    /\ stream[m].deliveries < MaxDeliver
    /\ \A k \in Reports : k < m /\ IsStored(k) => stream[k].deliveries > 0

\* consumeJetStreamMessages: a process handles one message at a time, as long
\* as its loop goes on.
Deliver(w, m) ==
    /\ Deliverable(m)
    /\ worker[w].pc = "idle" /\ w \notin deaf
    /\ stream' = [stream EXCEPT ![m].deliveries = @ + 1]
    /\ worker' = [worker EXCEPT ![w] = [Idle EXCEPT !.pc = "received", !.msg = m]]
    /\ UNCHANGED <<gateways, commands, dispatch, published, editor,
                   installed, applied, deleted, declared, deaf, failures>>

\* A delivery to a connection that drops, or to the buffer of a process
\* that dies or whose loop ends, counts against max_deliver and is never handled.
LoseDelivery(m) ==
    /\ Deliverable(m)
    /\ failures < MaxFailures
    /\ failures' = failures + 1
    /\ stream' = [stream EXCEPT ![m].deliveries = @ + 1]
    /\ UNCHANGED <<gateways, commands, dispatch, published, worker, editor,
                   installed, applied, deleted, declared, deaf>>

\* The stream drops a message that reaches its max_age.
ExpireMessage(m) ==
    /\ IsStored(m)
    /\ failures < MaxFailures
    /\ failures' = failures + 1
    /\ stream' = [stream EXCEPT ![m].state = "expired"]
    /\ UNCHANGED <<gateways, commands, dispatch, published, worker, editor,
                   installed, applied, deleted, declared, deaf>>

\* consumeJetStreamMessages: consume() or the iteration rejects, the error is
\* logged, the loop ends and nothing in the process starts it again; or the
\* process stops.
LoopEnds(w) ==
    /\ worker[w].pc = "idle" /\ w \notin deaf
    /\ failures < MaxFailures
    /\ failures' = failures + 1
    /\ deaf' = deaf \cup {w}
    /\ UNCHANGED <<gateways, commands, dispatch, published, stream, worker,
                   editor, installed, applied, deleted, declared>>

\* The process is started again and subscribes (external).
Restart(w) ==
    /\ w \in deaf
    /\ deaf' = deaf \ {w}
    /\ UNCHANGED <<gateways, commands, dispatch, published, stream, worker,
                   editor, installed, applied, deleted, declared, failures>>

-----------------------------------------------------------------------------
(* CommandsAckConsumer.processMessage, one action per await.               *)

Got(w) == stream[worker[w].msg]

CommandOf(w) == Got(w).cmd

Goto(w, pc) == worker' = [worker EXCEPT ![w].pc = pc]

Release(w) == worker' = [worker EXCEPT ![w] = Idle]

\* A malformed report is skipped and not acknowledged; for the others
\* updateStatus looks the command up.  A command that is not there is
\* acknowledged.
FindCommand(w) ==
    /\ worker[w].pc = "received"
    /\ \/ /\ NormalizeStatus(Got(w).raw) = Null
          /\ Release(w)
       \/ /\ NormalizeStatus(Got(w).raw) # Null
          /\ Goto(w, IF commands[CommandOf(w)] = Null THEN "acking" ELSE "found")
    /\ UNCHANGED <<gateways, commands, dispatch, published, stream, editor,
                   installed, applied, deleted, declared, deaf, failures>>

\* A mutant: the effects run for every reported status.
AfterStatusAlways(status) == "saved"

\* Only an acknowledged execution goes on to applyAckedCommandEffects.
AfterStatus(status) == IF status = "ACK" THEN "saved" ELSE "acking"

\* updateStatus overwrites whatever status the row has; when the row went
\* with its gateway the save inserts it and fails on the foreign key.
SaveStatus(w) ==
    /\ worker[w].pc = "found"
    /\ LET c == CommandOf(w)
           status == NormalizeStatus(Got(w).raw)
       IN  \/ /\ gateways[dispatch[c].gateway] # Null
              /\ commands' = [commands EXCEPT ![c] = status]
              /\ Goto(w, AfterStatus(status))
           \/ /\ gateways[dispatch[c].gateway] = Null
              /\ Release(w)
              /\ UNCHANGED commands
    /\ UNCHANGED <<gateways, dispatch, published, stream, editor,
                   installed, applied, deleted, declared, deaf, failures>>

EnsureMetadataExists(meta) ==
    IF meta # Null THEN meta
    ELSE [freq |-> DefaultFreq, status |-> "gateway_offline"]

\* applyConfigCommand or applyFirmwareCommand would change the gateway.
HasEffect(r) ==
    IF r.type = "CONFIG"
    THEN r.freq # Null \/ MapCommandGatewayStatus(r.status) # Null
    ELSE r.fw # Blank

WithEffects(row, r) ==
    LET meta == EnsureMetadataExists(row.meta)
        status == MapCommandGatewayStatus(r.status)
    IN  IF r.type = "CONFIG"
        THEN [row EXCEPT !.meta =
                [freq   |-> IF r.freq # Null THEN r.freq ELSE meta.freq,
                 status |-> IF status # Null THEN status ELSE meta.status]]
        ELSE [row EXCEPT !.fw = r.fw, !.meta = meta]

\* applyAckedCommandEffects up to its save: nothing to save for a deleted
\* gateway or a request that changes nothing.
LoadGateway(w) ==
    /\ worker[w].pc = "saved"
    /\ LET d == dispatch[CommandOf(w)]
       IN  IF gateways[d.gateway] # Null /\ HasEffect(d.request)
           THEN worker' = [worker EXCEPT ![w].pc = "loaded",
                                         ![w].gw = gateways[d.gateway]]
           ELSE Goto(w, "acking")
    /\ UNCHANGED <<gateways, commands, dispatch, published, stream, editor,
                   installed, applied, deleted, declared, deaf, failures>>

\* Saves the loaded gateway with the requested change, over whatever the
\* row holds by now.
ApplyEffects(w) ==
    /\ worker[w].pc = "loaded"
    /\ LET c == CommandOf(w)
           d == dispatch[c]
       IN  /\ gateways' = [gateways EXCEPT
                             ![d.gateway] = WithEffects(worker[w].gw, d.request)]
           /\ applied' = applied \cup {c}
    /\ worker' = [worker EXCEPT ![w].pc = "acking", ![w].gw = Null]
    /\ UNCHANGED <<commands, dispatch, published, stream, editor,
                   installed, deleted, declared, deaf, failures>>

\* message.ack() sends the acknowledgement and does not wait for the
\* server, so it may be lost.
AckMessage(w) ==
    /\ worker[w].pc = "acking"
    /\ Release(w)
    /\ \/ /\ stream' = [stream EXCEPT ![worker[w].msg].state = "acked"]
          /\ UNCHANGED failures
       \/ /\ failures < MaxFailures
          /\ failures' = failures + 1
          /\ UNCHANGED stream
    /\ UNCHANGED <<gateways, commands, dispatch, published, editor,
                   installed, applied, deleted, declared, deaf>>

\* A mutant: the message is acknowledged whether its handling failed or not.
FailAndAck(w) ==
    /\ worker[w].pc # "idle"
    /\ failures < MaxFailures
    /\ failures' = failures + 1
    /\ Release(w)
    /\ stream' = [stream EXCEPT ![worker[w].msg].state = "acked"]
    /\ UNCHANGED <<gateways, commands, dispatch, published, editor,
                   installed, applied, deleted, declared, deaf>>

\* A database call rejects: the catch block logs, and what was saved before
\* stays saved; so it is when a save commits and its answer gets lost.  Or the
\* process dies.
Fail(w) ==
    /\ worker[w].pc # "idle"
    /\ failures < MaxFailures
    /\ failures' = failures + 1
    /\ Release(w)
    /\ deaf' \in {deaf, deaf \cup {w}}
    /\ UNCHANGED <<gateways, commands, dispatch, published, stream, editor,
                   installed, applied, deleted, declared>>

-----------------------------------------------------------------------------
(* Other handlers that save a whole gateway, and deletion.                 *)

\* updateGatewayRuntimeStatus and updateGateway: the findOne ...
EditorLoad(e, g) ==
    /\ editor[e] = Null
    /\ gateways[g] # Null
    /\ editor' = [editor EXCEPT ![e] = [gateway |-> g, gw |-> gateways[g]]]
    /\ UNCHANGED <<gateways, commands, dispatch, published, stream, worker,
                   installed, applied, deleted, declared, deaf, failures>>

\* ... and the save of the loaded entity: with the reported status, or with
\* a name (not modelled) and the columns as they were loaded.
EditorSave(e) ==
    /\ editor[e] # Null
    /\ LET row == editor[e].gw
           meta == EnsureMetadataExists(row.meta)
       IN  \/ \E s \in SeenStatuses :
                gateways' = [gateways EXCEPT ![editor[e].gateway] =
                               [row EXCEPT !.meta = [meta EXCEPT !.status = s]]]
           \/ gateways' = [gateways EXCEPT ![editor[e].gateway] =
                             [row EXCEPT !.meta = meta]]
    /\ editor' = [editor EXCEPT ![e] = Null]
    /\ UNCHANGED <<commands, dispatch, published, stream, worker,
                   installed, applied, deleted, declared, deaf, failures>>

\* What the transaction of completeProvisioning writes into a gateway.
WithDeclaration(row, d) ==
    [fw   |-> IF d.fw = Blank THEN row.fw ELSE d.fw,
     meta |-> [freq |-> d.freq, status |-> "gateway_online"]]

\* completeProvisioning commits: when, and how often, is in Provisioning.
\* The device declares the firmware it runs, or none.
CompleteProvisioning(g, d) ==
    /\ gateways[g] # Null
    /\ gateways' = [gateways EXCEPT ![g] = WithDeclaration(gateways[g], d)]
    /\ installed' = [installed EXCEPT ![g] = IF d.fw = Blank THEN @ ELSE d.fw]
    /\ declared' = [declared EXCEPT ![g] = @ \cup {d}]
    /\ UNCHANGED <<commands, dispatch, published, stream, worker, editor,
                   applied, deleted, deaf, failures>>

\* A mutant: the deletion does not cascade.
DeleteWithoutCascade(g) ==
    /\ gateways[g] # Null
    /\ gateways' = [gateways EXCEPT ![g] = Null]
    /\ deleted' = deleted \cup {g}
    /\ UNCHANGED <<commands, dispatch, published, stream, worker, editor,
                   installed, applied, declared, deaf, failures>>

\* deleteGateway: the row and, by ON DELETE CASCADE, its commands.
DeleteGateway(g) ==
    /\ gateways[g] # Null
    /\ gateways' = [gateways EXCEPT ![g] = Null]
    /\ commands' = [c \in CommandIds |->
                      IF dispatch[c] # Null /\ dispatch[c].gateway = g
                      THEN Null ELSE commands[c]]
    /\ deleted' = deleted \cup {g}
    /\ UNCHANGED <<dispatch, published, stream, worker, editor,
                   installed, applied, declared, deaf, failures>>

-----------------------------------------------------------------------------

DispatchStep == \E c \in CommandIds :
    \/ \E g \in Gateways, r \in Requests : SendCommand(c, g, r)
    \/ QueueCommand(c)
    \/ PublishToNats(c)

DeviceStep == \E c \in CommandIds, raw \in RawStatuses : ReportOutcome(c, raw)

StreamStep == \E m \in Reports :
    \/ \E w \in Workers : Deliver(w, m)
    \/ LoseDelivery(m)
    \/ ExpireMessage(m)

LoopStep == \E w \in Workers : LoopEnds(w) \/ Restart(w)

Handle(w) ==
    \/ FindCommand(w)
    \/ SaveStatus(w)
    \/ LoadGateway(w)
    \/ ApplyEffects(w)
    \/ AckMessage(w)

EditorStep == \E e \in Editors :
    \/ \E g \in Gateways : EditorLoad(e, g)
    \/ EditorSave(e)

Next ==
    \/ DispatchStep
    \/ DeviceStep
    \/ StreamStep
    \/ LoopStep
    \/ \E w \in Workers : Handle(w) \/ Fail(w)
    \/ EditorStep
    \/ \E g \in Gateways : DeleteGateway(g)
    \/ \E g \in Gateways, d \in Declarations : CompleteProvisioning(g, d)

Spec == Init /\ [][Next]_vars

\* JetStream keeps delivering what it may deliver to a process that listens,
\* and a handler whose awaits settle goes on.  Requests, devices, failures and
\* restarts owe nothing.
Fairness ==
    /\ \A m \in Reports : WF_vars(\E w \in Workers : Deliver(w, m))
    /\ \A w \in Workers : WF_vars(Handle(w))

FairSpec == Spec /\ Fairness

-----------------------------------------------------------------------------
(* Properties.                                                             *)

\* The report m, seen as the status of its command.
Reported(m, c, status) ==
    /\ stream[m] # Null
    /\ stream[m].cmd = c
    /\ NormalizeStatus(stream[m].raw) = status

\* The requests to gateway g whose execution the gateway has confirmed.
ConfirmedRequests(g) ==
    {dispatch[c].request : c \in
        {d \in CommandIds : /\ dispatch[d] # Null
                            /\ dispatch[d].gateway = g
                            /\ \E m \in Reports : Reported(m, d, "ACK")}}

ConfirmedConfiguration(confirmed, told, row) ==
    /\ \/ row.fw = FactoryFw
       \/ \E d \in told : d.fw = row.fw
       \/ \E r \in confirmed : r.type = "FIRMWARE" /\ r.fw = row.fw
    /\ \/ row.meta = Null
       \/ row.meta.freq = DefaultFreq
       \/ \E d \in told : d.freq = row.meta.freq
       \/ \E r \in confirmed : r.type = "CONFIG" /\ r.freq = row.meta.freq

TypeOK ==
    /\ gateways \in [Gateways -> GatewayRow \cup {Null}]
    /\ commands \in [CommandIds -> CommandStatuses \cup {Null}]
    /\ dispatch \in [CommandIds -> Dispatch \cup {Null}]
    /\ published \in SUBSET CommandIds
    /\ stream \in [Reports -> Message \cup {Null}]
    /\ worker \in [Workers -> WorkerState]
    /\ editor \in [Editors -> EditorState \cup {Null}]
    /\ installed \in [Gateways -> Firmwares]
    /\ applied \in SUBSET CommandIds
    /\ deleted \in SUBSET Gateways
    /\ declared \in [Gateways -> SUBSET Declarations]
    /\ deaf \in SUBSET Workers
    /\ failures \in 0 .. MaxFailures

\* Safety: the firmware and the frequency that a gateway's row shows are its
\* factory ones, were declared when it was provisioned, or were asked of it by
\* a command whose execution it confirmed, however deliveries, retries,
\* completions, stale saves and re-inserted rows interleave
\* (command-writing.persistence applyAckedCommandEffects, gateways.persistence
\* updateGatewayRuntimeStatus, completeProvisioning).
ConfigurationIsConfirmed ==
    \A g \in Gateways :
        gateways[g] # Null =>
            ConfirmedConfiguration(ConfirmedRequests(g), declared[g], gateways[g])

\* Safety: an acknowledged message was understood, and if it confirmed an
\* execution the effect has been saved, unless the gateway was deleted: the
\* consumer acknowledges last (commands-ack.consumer processMessage).
AckedMeansApplied ==
    \A m \in Reports :
        stream[m] # Null /\ stream[m].state = "acked" =>
            LET c == stream[m].cmd
            IN  /\ NormalizeStatus(stream[m].raw) # Null
                /\ NormalizeStatus(stream[m].raw) = "ACK"
                     /\ HasEffect(dispatch[c].request)
                       => \/ c \in applied
                          \/ dispatch[c].gateway \in deleted

\* Safety: a command's status was reported for that very command, or it is
\* the QUEUED of its insertion, and then no report of it was acknowledged.  A
\* command whose publish was rejected stays QUEUED, a malformed report never
\* invents a status, and no outcome is acknowledged unseen (command.service
\* publishToNats, commands-ack.consumer normalizeStatus, updateStatus).
StatusIsReported ==
    \A c \in CommandIds : commands[c] # Null =>
        \/ \E m \in Reports : Reported(m, c, commands[c])
        \/ /\ commands[c] = "QUEUED"
           /\ \A m \in Reports :
                stream[m] # Null /\ stream[m].cmd = c => stream[m].state # "acked"

\* Safety: a command's row never outlives its gateway's, also when a save
\* inserts either of them again after a deletion (command.entity onDelete,
\* queueCommand and updateStatus against deleteGateway).
NoOrphanCommand ==
    \A c \in CommandIds :
        commands[c] # Null => gateways[dispatch[c].gateway] # Null

Understood(m) == stream[m] # Null /\ NormalizeStatus(stream[m].raw) # Null

Concluded(m) ==
    /\ stream[m] # Null
    /\ stream[m].state \in {"acked", "expired"} \/ Workers \subseteq deaf

\* Liveness: with MaxFailures + Cardinality(Workers) < MaxDeliver (a deletion
\* may cost each process one more delivery), every report the consumer
\* understands is acknowledged, or expires, in the end, unless the loops of
\* all processes have ended: such a process serves HTTP, connects nothing
\* again and stays deaf until it is restarted (consumeJetStreamMessages,
\* commands-ack.consumer processMessage).
UnderstoodReportsSettle ==
    \A m \in Reports : Understood(m) ~> Concluded(m)

\* Nothing under way: reports handled or dropped, no snapshot held.
Quiet ==
    /\ \A m \in Reports : stream[m] # Null => stream[m].state # "stored"
    /\ \A w \in Workers : worker[w] = Idle
    /\ \A e \in Editors : editor[e] = Null

\* The "current firmware version installed on the device" of openapi.yaml:
\* once nothing is under way, the row of a gateway that was never deleted
\* shows the version its device runs (applyFirmwareCommand against
\* updateGatewayRuntimeStatus).  The save of a snapshot that is older than an
\* acknowledgement breaks it, so no run states it.
FirmwareShownIsInstalled ==
    Quiet => \A g \in Gateways \ deleted : gateways[g].fw = installed[g]

=============================================================================
