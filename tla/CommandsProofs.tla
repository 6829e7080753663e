--------------------------- MODULE CommandsProofs ---------------------------
(***************************************************************************)
(* Proofs about Commands for every value of its constants: its type        *)
(* invariant and the four safety invariants that TLC checks on small       *)
(* instances.                                                              *)
(***************************************************************************)
EXTENDS Commands, TLAPS

\* The immutable columns of a command are written before its row exists,
\* before it is published and before anything reports on it.
DispatchedFirst ==
    /\ \A c \in CommandIds : commands[c] # Null => dispatch[c] # Null
    /\ \A c \in published : dispatch[c] # Null
    /\ \A m \in Reports : stream[m] # Null => stream[m].cmd \in published

\* What a consumer holds at each await.
Holding(w) ==
    /\ worker[w].pc # "idle" => /\ worker[w].msg \in Reports
                                /\ stream[worker[w].msg] # Null
    /\ worker[w].pc \in {"found", "saved", "loaded", "acking"} =>
         NormalizeStatus(Got(w).raw) # Null
    /\ worker[w].pc \in {"saved", "loaded"} => NormalizeStatus(Got(w).raw) = "ACK"
    /\ worker[w].pc = "loaded" => /\ worker[w].gw # Null
                                  /\ HasEffect(dispatch[CommandOf(w)].request)

Structure ==
    /\ TypeOK
    /\ DispatchedFirst
    /\ \A w \in Workers : Holding(w)

-----------------------------------------------------------------------------
(* The two conversions, and what they are applied to.                      *)

\* normalizeStatus yields a command status or null.
LEMMA NormalizeStatusType ==
    ASSUME NEW raw
    PROVE  NormalizeStatus(raw) \in CommandStatuses \cup {Null}
BY DEF NormalizeStatus, StatusNormalizationMap, CommandStatuses

\* mapCommandGatewayStatus yields a gateway status or null.
LEMMA MapStatusType ==
    ASSUME NEW s
    PROVE  MapCommandGatewayStatus(s) \in GatewayStatuses \cup {Null}
BY DEF MapCommandGatewayStatus, StatusAliases, GatewayStatuses

\* Applying an effective request to a gateway row gives a gateway row.
LEMMA WithEffectsType ==
    ASSUME NEW row \in GatewayRow, NEW r \in Requests, HasEffect(r)
    PROVE  WithEffects(row, r) \in GatewayRow
<1>1. EnsureMetadataExists(row.meta) \in Metadata
  BY DataAssumption DEF EnsureMetadataExists, GatewayRow, Metadata, GatewayStatuses
<1>2. CASE r.type = "CONFIG"
  <2>1. r.freq \in Freqs \cup {Null}
    BY <1>2, DataAssumption
  <2> DEFINE freq == IF r.freq # Null THEN r.freq ELSE EnsureMetadataExists(row.meta).freq
             st == MapCommandGatewayStatus(r.status)
             status == IF st # Null THEN st ELSE EnsureMetadataExists(row.meta).status
  <2>2. freq \in Freqs
    BY <1>1, <2>1 DEF Metadata
  <2>3. status \in GatewayStatuses
    BY <1>1, MapStatusType DEF Metadata
  <2>4. WithEffects(row, r) = [row EXCEPT !.meta = [freq |-> freq, status |-> status]]
    BY <1>2 DEF WithEffects
  <2>5. [freq |-> freq, status |-> status] \in Metadata
    BY <2>2, <2>3 DEF Metadata
  <2> QED
    BY <2>4, <2>5 DEF GatewayRow
<1>3. CASE r.type # "CONFIG"
  <2>1. r.type = "FIRMWARE" /\ r.fw \in Firmwares
    BY <1>3, DataAssumption DEF HasEffect
  <2>2. WithEffects(row, r)
          = [row EXCEPT !.fw = r.fw, !.meta = EnsureMetadataExists(row.meta)]
    BY <1>3 DEF WithEffects
  <2> QED
    BY <1>1, <2>1, <2>2 DEF GatewayRow
<1> QED
  BY <1>2, <1>3

\* A gateway row stays one when a completion writes into it.
LEMMA WithDeclarationType ==
    ASSUME NEW row \in GatewayRow, NEW d \in Declarations
    PROVE  /\ WithDeclaration(row, d) \in GatewayRow
           /\ WithDeclaration(row, d).meta # Null
           /\ WithDeclaration(row, d).meta.freq = d.freq
           /\ WithDeclaration(row, d).fw = IF d.fw = Blank THEN row.fw ELSE d.fw
<1>1. [freq |-> d.freq, status |-> "gateway_online"] \in Metadata
  BY DataAssumption DEF Metadata, GatewayStatuses
<1> QED
  BY <1>1, DataAssumption, NullAssumption DEF WithDeclaration, GatewayRow

-----------------------------------------------------------------------------
(* Updates of one field or one entry.                                      *)

\* Goto changes the pc of one consumer.
LEMMA GotoEffect ==
    ASSUME TypeOK, NEW w \in Workers, NEW p \in WorkerPC, Goto(w, p)
    PROVE  /\ worker' \in [Workers -> WorkerState]
           /\ worker'[w].pc = p
           /\ worker'[w].msg = worker[w].msg
           /\ worker'[w].gw = worker[w].gw
           /\ \A v \in Workers \ {w} : worker'[v] = worker[v]
<1>1. worker[w] \in WorkerState
  BY DEF TypeOK
<1>2. [worker[w] EXCEPT !.pc = p] \in WorkerState
  BY <1>1 DEF WorkerState
<1> QED
  BY <1>1, <1>2 DEF TypeOK, Goto, WorkerState

\* Release makes one consumer idle.
LEMMA ReleaseEffect ==
    ASSUME TypeOK, NEW w \in Workers, Release(w)
    PROVE  /\ worker' \in [Workers -> WorkerState]
           /\ worker'[w] = Idle
           /\ \A v \in Workers \ {w} : worker'[v] = worker[v]
<1>1. Idle \in WorkerState
  BY DEF Idle, WorkerState, WorkerPC
<1> QED
  BY <1>1 DEF TypeOK, Release

-----------------------------------------------------------------------------
(* Requests and reports are never changed nor forgotten.                   *)

Kept ==
    /\ \A c \in CommandIds : dispatch[c] # Null =>
         /\ dispatch'[c] # Null
         /\ dispatch'[c].gateway = dispatch[c].gateway
         /\ dispatch'[c].request = dispatch[c].request
    /\ \A m \in Reports : stream[m] # Null =>
         /\ stream'[m] # Null
         /\ stream'[m].cmd = stream[m].cmd
         /\ stream'[m].raw = stream[m].raw
    /\ published \subseteq published'

\* Every step keeps the requests, what is published and the reports.
LEMMA StepKeeps ==
    Structure /\ [Next]_vars => /\ Kept
                               /\ dispatch' \in [CommandIds -> Dispatch \cup {Null}]
                               /\ stream' \in [Reports -> Message \cup {Null}]
<1> SUFFICES ASSUME TypeOK, \A w \in Workers : Holding(w), [Next]_vars
             PROVE  /\ Kept
                    /\ dispatch' \in [CommandIds -> Dispatch \cup {Null}]
                    /\ stream' \in [Reports -> Message \cup {Null}]
  BY DEF Structure
<1>1. ASSUME NEW c \in CommandIds, NEW p \in {"checked", "queued", "closed"},
             dispatch[c] # Null, dispatch' = [dispatch EXCEPT ![c].pc = p]
      PROVE  /\ dispatch' \in [CommandIds -> Dispatch \cup {Null}]
             /\ \A d \in CommandIds : dispatch[d] # Null =>
                  /\ dispatch'[d] # Null
                  /\ dispatch'[d].gateway = dispatch[d].gateway
                  /\ dispatch'[d].request = dispatch[d].request
  <2>1. dispatch[c] \in Dispatch
    BY <1>1 DEF TypeOK
  <2>2. dispatch'[c] = [dispatch[c] EXCEPT !.pc = p]
    BY <1>1 DEF TypeOK
  <2>3. /\ dispatch'[c] \in Dispatch
        /\ dispatch'[c].gateway = dispatch[c].gateway
        /\ dispatch'[c].request = dispatch[c].request
    BY <2>1, <2>2 DEF Dispatch
  <2>4. \A d \in CommandIds \ {c} : dispatch'[d] = dispatch[d]
    BY <1>1 DEF TypeOK
  <2>5. dispatch' = [d \in CommandIds |-> dispatch'[d]]
    BY <1>1 DEF TypeOK
  <2> QED
    BY <2>3, <2>4, <2>5, NullAssumption DEF TypeOK
<1>2. ASSUME NEW m \in Reports, stream[m] # Null,
             \/ stream[m].deliveries < MaxDeliver /\ stream' = [stream EXCEPT ![m].deliveries = @ + 1]
             \/ stream' = [stream EXCEPT ![m].state = "acked"]
             \/ stream' = [stream EXCEPT ![m].state = "expired"]
      PROVE  /\ stream' \in [Reports -> Message \cup {Null}]
             /\ \A k \in Reports : stream[k] # Null =>
                  /\ stream'[k] # Null
                  /\ stream'[k].cmd = stream[k].cmd
                  /\ stream'[k].raw = stream[k].raw
  <2>1. stream[m] \in Message
    BY <1>2 DEF TypeOK
  <2>2. stream'[m] \in Message /\ stream'[m].cmd = stream[m].cmd /\ stream'[m].raw = stream[m].raw
    <3>1. \/ /\ stream[m].deliveries < MaxDeliver
             /\ stream'[m] = [stream[m] EXCEPT !.deliveries = @ + 1]
          \/ stream'[m] = [stream[m] EXCEPT !.state = "acked"]
          \/ stream'[m] = [stream[m] EXCEPT !.state = "expired"]
      BY <1>2 DEF TypeOK
    <3> QED
      BY <2>1, <3>1, BoundsAssumption DEF Message
  <2>3. \A k \in Reports \ {m} : stream'[k] = stream[k]
    BY <1>2 DEF TypeOK
  <2>4. stream' = [k \in Reports |-> stream'[k]]
    BY <1>2 DEF TypeOK
  <2> QED
    BY <2>2, <2>3, <2>4, NullAssumption DEF TypeOK
<1>3. ASSUME NEW c \in CommandIds, NEW g \in Gateways, NEW r \in Requests, SendCommand(c, g, r)
      PROVE  Kept /\ dispatch' \in [CommandIds -> Dispatch \cup {Null}]
  <2>1. [pc |-> "checked", gateway |-> g, request |-> r] \in Dispatch
    BY DEF Dispatch
  <2> QED
    BY <1>3, <2>1 DEF SendCommand, TypeOK, Kept
<1>4. ASSUME NEW c \in CommandIds, QueueCommand(c) \/ PublishToNats(c)
      PROVE  Kept /\ dispatch' \in [CommandIds -> Dispatch \cup {Null}]
  <2>1. PICK p \in {"queued", "closed"} : dispatch' = [dispatch EXCEPT ![c].pc = p]
    BY <1>4 DEF QueueCommand, PublishToNats
  <2> QED
    BY <1>1, <1>4, <2>1 DEF QueueCommand, PublishToNats, Kept
<1>5. ASSUME NEW c \in CommandIds, NEW raw \in RawStatuses, ReportOutcome(c, raw)
      PROVE  Kept /\ stream' \in [Reports -> Message \cup {Null}]
  <2>1. Stored(c, raw) \in Message
    BY BoundsAssumption DEF Stored, Message
  <2> QED
    BY <1>5, <2>1 DEF ReportOutcome, NextReport, TypeOK, Kept
<1>6. ASSUME NEW m \in Reports,
             (\E w \in Workers : Deliver(w, m)) \/ LoseDelivery(m) \/ ExpireMessage(m)
      PROVE  Kept /\ stream' \in [Reports -> Message \cup {Null}]
  BY <1>2, <1>6 DEF Deliver, LoseDelivery, ExpireMessage, Deliverable, IsStored, Kept
<1>7. CASE dispatch' = dispatch /\ stream' = stream /\ published' = published
  BY <1>7 DEF TypeOK, Kept
<1>8. ASSUME NEW w \in Workers, AckMessage(w), Holding(w)
      PROVE  Kept /\ stream' \in [Reports -> Message \cup {Null}]
  BY <1>2, <1>7, <1>8 DEF AckMessage, Holding, Kept, TypeOK
<1>9. CASE \E c \in CommandIds : \/ \E g \in Gateways, r \in Requests : SendCommand(c, g, r)
                                 \/ QueueCommand(c) \/ PublishToNats(c)
  <2>1. stream' = stream
    BY <1>9 DEF SendCommand, QueueCommand, PublishToNats
  <2> QED
    BY <1>3, <1>4, <1>9, <2>1 DEF TypeOK
<1>10. CASE DeviceStep \/ StreamStep \/ \E w \in Workers : AckMessage(w)
  <2>1. dispatch' = dispatch
    BY <1>10 DEF DeviceStep, StreamStep, ReportOutcome, Deliver, LoseDelivery, ExpireMessage, AckMessage
  <2> QED
    BY <1>5, <1>6, <1>8, <1>10, <2>1 DEF DeviceStep, StreamStep, TypeOK
<1>11. CASE \/ \E w \in Workers : \/ FindCommand(w) \/ SaveStatus(w) \/ LoadGateway(w)
                                \/ ApplyEffects(w) \/ Fail(w)
            \/ EditorStep \/ LoopStep \/ \E g \in Gateways : DeleteGateway(g)
            \/ \E g \in Gateways, d \in Declarations : CompleteProvisioning(g, d)
            \/ UNCHANGED vars
  <2>1. dispatch' = dispatch /\ stream' = stream /\ published' = published
    BY <1>11 DEF LoopStep, LoopEnds, Restart, FindCommand, SaveStatus, LoadGateway, ApplyEffects, Fail, EditorStep,
                 EditorLoad, EditorSave, DeleteGateway, CompleteProvisioning, vars
  <2> QED
    BY <1>7, <2>1 DEF TypeOK
<1> QED
  BY <1>9, <1>10, <1>11 DEF Next, DispatchStep, Handle

-----------------------------------------------------------------------------
(* Structure is inductive.                                                 *)

\* A consumer that does not move keeps what it holds.
LEMMA HoldingKept ==
    ASSUME Structure, Kept, NEW v \in Workers, worker'[v] = worker[v]
    PROVE  Holding(v)'
<1>1. CASE worker[v].pc = "idle"
  BY <1>1 DEF Holding
<1>2. CASE worker[v].pc # "idle"
  <2> DEFINE m == worker[v].msg
  <2>1. m \in Reports /\ stream[m] # Null /\ stream[m].cmd \in published
    BY <1>2 DEF Structure, Holding, DispatchedFirst
  <2>2. stream[m].cmd \in CommandIds /\ dispatch[stream[m].cmd] # Null
    BY <2>1 DEF Structure, TypeOK, DispatchedFirst
  <2>3. /\ stream'[m] # Null
        /\ stream'[m].cmd = stream[m].cmd
        /\ stream'[m].raw = stream[m].raw
        /\ dispatch'[stream[m].cmd].request = dispatch[stream[m].cmd].request
    BY <2>1, <2>2 DEF Kept
  <2> QED
    BY <2>1, <2>3 DEF Structure, Holding, Got, CommandOf
<1> QED
  BY <1>1, <1>2

\* Initially nothing is stored and everybody is idle.
LEMMA StructureInit == Init => Structure
<1> SUFFICES ASSUME Init PROVE Structure
  OBVIOUS
<1>1. FactoryRow \in GatewayRow /\ [FactoryRow EXCEPT !.meta = Null] \in GatewayRow
  BY DataAssumption DEF FactoryRow, GatewayRow, Metadata, GatewayStatuses
<1>2. Idle \in WorkerState
  BY DEF Idle, WorkerState, WorkerPC
<1>3. TypeOK
  BY <1>1, <1>2, DataAssumption, BoundsAssumption DEF Init, TypeOK
<1>4. DispatchedFirst
  BY DEF Init, DispatchedFirst
<1>5. \A w \in Workers : Holding(w)
  BY DEF Init, Idle, Holding
<1> QED
  BY <1>3, <1>4, <1>5 DEF Structure

\* Only consumer processes turn deaf.
LEMMA DeafStep == TypeOK /\ [Next]_vars => deaf' \in SUBSET Workers
BY DEF TypeOK, Next, DispatchStep, SendCommand, QueueCommand, PublishToNats, DeviceStep,
       ReportOutcome, StreamStep, Deliver, LoseDelivery, ExpireMessage, LoopStep, LoopEnds,
       Restart, Handle, FindCommand, SaveStatus, LoadGateway, ApplyEffects, AckMessage, Fail,
       EditorStep, EditorLoad, EditorSave, DeleteGateway, CompleteProvisioning, vars

\* Structure is preserved by a step that leaves the consumers alone, given
\* the types of the tables it writes.
LEMMA StructureAside ==
    ASSUME Structure, [Next]_vars, UNCHANGED worker, DispatchedFirst',
           gateways' \in [Gateways -> GatewayRow \cup {Null}],
           commands' \in [CommandIds -> CommandStatuses \cup {Null}],
           published' \in SUBSET CommandIds,
           editor' \in [Editors -> EditorState \cup {Null}],
           installed' \in [Gateways -> Firmwares],
           applied' = applied,
           deleted' \in SUBSET Gateways,
           declared' \in [Gateways -> SUBSET Declarations],
           failures' \in 0 .. MaxFailures
    PROVE  Structure'
BY StepKeeps, HoldingKept, DeafStep DEF Structure, TypeOK

\* Structure is preserved by a step of consumer w, given the types of the
\* tables it writes.
LEMMA StructureHandled ==
    ASSUME Structure, [Next]_vars, NEW w \in Workers,
           worker' \in [Workers -> WorkerState],
           \A v \in Workers \ {w} : worker'[v] = worker[v],
           Holding(w)',
           gateways' \in [Gateways -> GatewayRow \cup {Null}],
           commands' \in [CommandIds -> CommandStatuses \cup {Null}],
           \A c \in CommandIds : commands'[c] # Null => commands[c] # Null \/ c \in published,
           \A m \in Reports : stream[m] = Null => stream'[m] = Null,
           applied' \in SUBSET CommandIds,
           failures' \in 0 .. MaxFailures,
           UNCHANGED <<dispatch, published, editor, installed, deleted, declared>>
    PROVE  Structure'
<1>1. Kept /\ stream' \in [Reports -> Message \cup {Null}]
  BY StepKeeps
<1>2. TypeOK'
  BY <1>1, DeafStep DEF Structure, TypeOK
<1>3. \A m \in Reports : stream'[m] # Null => stream'[m].cmd \in published'
  BY <1>1 DEF Structure, DispatchedFirst, Kept
<1>4. DispatchedFirst'
  BY <1>3 DEF Structure, DispatchedFirst, TypeOK
<1>5. \A v \in Workers : Holding(v)'
  BY <1>1, HoldingKept
<1> QED
  BY <1>2, <1>4, <1>5 DEF Structure

\* Structure is an inductive invariant.
LEMMA StructureStep == Structure /\ [Next]_vars => Structure'
<1> SUFFICES ASSUME Structure, [Next]_vars PROVE Structure'
  OBVIOUS
<1> USE NullAssumption
<1>0. TypeOK /\ DispatchedFirst /\ Kept
  BY StepKeeps DEF Structure
<1>1. ASSUME NEW c \in CommandIds, NEW g \in Gateways, NEW r \in Requests, SendCommand(c, g, r)
      PROVE  Structure'
  <2>1. DispatchedFirst'
    BY <1>0, <1>1 DEF SendCommand, DispatchedFirst, Kept, TypeOK
  <2> QED
    BY <1>0, <1>1, <2>1, StructureAside DEF SendCommand, TypeOK
<1>2. ASSUME NEW c \in CommandIds, QueueCommand(c)
      PROVE  Structure'
  <2>1. DispatchedFirst'
    BY <1>0, <1>2 DEF QueueCommand, DispatchedFirst, Kept, TypeOK
  <2> QED
    BY <1>0, <1>2, <2>1, StructureAside DEF QueueCommand, TypeOK, CommandStatuses
<1>3. ASSUME NEW c \in CommandIds, PublishToNats(c)
      PROVE  Structure'
  <2>1. DispatchedFirst'
    BY <1>0, <1>3 DEF PublishToNats, DispatchedFirst, Kept, TypeOK
  <2> QED
    BY <1>0, <1>3, <2>1, StructureAside DEF PublishToNats, TypeOK
<1>4. ASSUME NEW c \in CommandIds, NEW raw \in RawStatuses, ReportOutcome(c, raw)
      PROVE  Structure'
  <2>1. DispatchedFirst'
    BY <1>0, <1>4 DEF ReportOutcome, Stored, NextReport, DispatchedFirst, TypeOK
  <2>2. installed' \in [Gateways -> Firmwares]
    <3>1. dispatch[c] \in Dispatch
      BY <1>0, <1>4 DEF ReportOutcome, DispatchedFirst, TypeOK
    <3>2. dispatch[c].request \in Requests
      BY <3>1 DEF Dispatch
    <3> QED
      BY <1>0, <1>4, <3>2, DataAssumption DEF ReportOutcome, TypeOK
  <2> QED
    BY <1>0, <1>4, <2>1, <2>2, StructureAside DEF ReportOutcome, TypeOK
<1>5. ASSUME NEW w \in Workers, NEW m \in Reports, Deliver(w, m)
      PROVE  Structure'
  <2> DEFINE new == [Idle EXCEPT !.pc = "received", !.msg = m]
  <2>1. new \in WorkerState /\ new.pc = "received" /\ new.msg = m
    BY DEF Idle, WorkerState, WorkerPC
  <2>2. worker' \in [Workers -> WorkerState] /\ worker'[w] = new
        /\ \A v \in Workers \ {w} : worker'[v] = worker[v]
    BY <1>0, <1>5, <2>1 DEF Deliver, TypeOK
  <2>3. Holding(w)'
    BY <1>0, <1>5, <2>1, <2>2 DEF Deliver, Deliverable, IsStored, Holding, Kept
  <2>4. \A k \in Reports : stream[k] = Null => stream'[k] = Null
    BY <1>0, <1>5 DEF Deliver, Deliverable, IsStored, TypeOK
  <2> QED
    BY <1>0, <1>5, <2>2, <2>3, <2>4, StructureHandled DEF Deliver, TypeOK
<1>6. ASSUME NEW m \in Reports, LoseDelivery(m) \/ ExpireMessage(m)
      PROVE  Structure'
  <2>1. \A k \in Reports : stream[k] = Null => stream'[k] = Null
    BY <1>0, <1>6 DEF LoseDelivery, ExpireMessage, Deliverable, IsStored, TypeOK
  <2>2. DispatchedFirst'
    BY <1>0, <1>6, <2>1 DEF LoseDelivery, ExpireMessage, DispatchedFirst, Kept, TypeOK
  <2>3. failures' \in 0 .. MaxFailures
    BY <1>0, <1>6, BoundsAssumption DEF LoseDelivery, ExpireMessage, TypeOK
  <2> QED
    BY <1>0, <1>6, <2>2, <2>3, StructureAside DEF LoseDelivery, ExpireMessage, TypeOK
<1>7. ASSUME NEW w \in Workers, FindCommand(w)
      PROVE  Structure'
  <2>1. worker[w].msg \in Reports /\ stream[worker[w].msg] # Null
    BY <1>7 DEF FindCommand, Structure, Holding
  <2>2. CASE Release(w)
    <3>1. Holding(w)'
      BY <1>0, <2>2, ReleaseEffect DEF Holding, Idle
    <3> QED
      BY <1>0, <1>7, <2>2, <3>1, ReleaseEffect, StructureHandled DEF FindCommand, TypeOK
  <2>3. CASE NormalizeStatus(Got(w).raw) # Null /\ \E p \in {"acking", "found"} : Goto(w, p)
    <3>1. PICK p \in {"acking", "found"} : Goto(w, p)
      BY <2>3
    <3>2. /\ worker' \in [Workers -> WorkerState]
          /\ worker'[w].pc = p
          /\ worker'[w].msg = worker[w].msg
          /\ \A v \in Workers \ {w} : worker'[v] = worker[v]
      BY <1>0, <3>1, GotoEffect DEF WorkerPC
    <3>3. Holding(w)'
      BY <1>0, <2>1, <2>3, <3>2 DEF Holding, Got, Kept
    <3> QED
      BY <1>0, <1>7, <3>2, <3>3, StructureHandled DEF FindCommand, TypeOK
  <2> QED
    BY <1>7, <2>2, <2>3 DEF FindCommand
<1>8. ASSUME NEW w \in Workers, SaveStatus(w)
      PROVE  Structure'
  <2> DEFINE c == CommandOf(w)
             status == NormalizeStatus(Got(w).raw)
  <2>1. worker[w].msg \in Reports /\ stream[worker[w].msg] # Null /\ c \in published
    BY <1>0, <1>8 DEF SaveStatus, Structure, Holding, CommandOf, Got, DispatchedFirst
  <2>2. status \in CommandStatuses
    BY <1>8, NormalizeStatusType DEF SaveStatus, Structure, Holding
  <2>3. CASE Release(w) /\ commands' = commands
    <3>1. Holding(w)'
      BY <1>0, <2>3, ReleaseEffect DEF Holding, Idle
    <3> QED
      BY <1>0, <1>8, <2>3, <3>1, ReleaseEffect, StructureHandled DEF SaveStatus, TypeOK
  <2>4. CASE commands' = [commands EXCEPT ![c] = status] /\ Goto(w, AfterStatus(status))
    <3>1. AfterStatus(status) \in WorkerPC
      BY DEF AfterStatus, WorkerPC
    <3>2. /\ worker' \in [Workers -> WorkerState]
          /\ worker'[w].pc = AfterStatus(status)
          /\ worker'[w].msg = worker[w].msg
          /\ \A v \in Workers \ {w} : worker'[v] = worker[v]
      BY <1>0, <2>4, <3>1, GotoEffect
    <3>3. Holding(w)'
      BY <1>0, <2>1, <2>2, <3>2 DEF Holding, Got, Kept, AfterStatus
    <3>4. /\ commands' \in [CommandIds -> CommandStatuses \cup {Null}]
          /\ \A d \in CommandIds : commands'[d] # Null => commands[d] # Null \/ d \in published
      BY <1>0, <2>1, <2>2, <2>4 DEF TypeOK
    <3> QED
      BY <1>0, <1>8, <3>2, <3>3, <3>4, StructureHandled DEF SaveStatus, TypeOK
  <2> QED
    BY <1>8, <2>3, <2>4 DEF SaveStatus
<1>9. ASSUME NEW w \in Workers, LoadGateway(w)
      PROVE  Structure'
  <2> DEFINE d == dispatch[CommandOf(w)]
  <2>1. /\ worker[w].msg \in Reports /\ stream[worker[w].msg] # Null
        /\ NormalizeStatus(Got(w).raw) # Null /\ NormalizeStatus(Got(w).raw) = "ACK"
        /\ CommandOf(w) \in published
    BY <1>0, <1>9 DEF LoadGateway, Structure, Holding, CommandOf, Got, DispatchedFirst
  <2>2. CASE Goto(w, "acking")
    <3>1. /\ worker' \in [Workers -> WorkerState]
          /\ worker'[w].pc = "acking"
          /\ worker'[w].msg = worker[w].msg
          /\ \A v \in Workers \ {w} : worker'[v] = worker[v]
      BY <1>0, <2>2, GotoEffect DEF WorkerPC
    <3>2. Holding(w)'
      BY <1>0, <2>1, <3>1 DEF Holding, Got, Kept
    <3> QED
      BY <1>0, <1>9, <3>1, <3>2, StructureHandled DEF LoadGateway, TypeOK
  <2>3. CASE /\ gateways[d.gateway] # Null /\ HasEffect(d.request)
             /\ worker' = [worker EXCEPT ![w].pc = "loaded", ![w].gw = gateways[d.gateway]]
    <3>1. d \in Dispatch /\ CommandOf(w) \in CommandIds
      BY <1>0, <2>1 DEF DispatchedFirst, TypeOK
    <3>2. gateways[d.gateway] \in GatewayRow
      BY <1>0, <2>3, <3>1 DEF TypeOK, Dispatch
    <3>3. worker[w] \in WorkerState
      BY <1>0 DEF TypeOK
    <3>4. worker'[w] = [worker[w] EXCEPT !.pc = "loaded", !.gw = gateways[d.gateway]]
      BY <1>0, <2>3 DEF TypeOK
    <3>5. /\ worker'[w] \in WorkerState
          /\ worker'[w].pc = "loaded"
          /\ worker'[w].msg = worker[w].msg
          /\ worker'[w].gw # Null
      BY <3>2, <3>3, <3>4 DEF WorkerState, WorkerPC
    <3>6. /\ worker' \in [Workers -> WorkerState]
          /\ \A v \in Workers \ {w} : worker'[v] = worker[v]
      BY <1>0, <2>3, <3>4, <3>5 DEF TypeOK
    <3>7. stream' = stream /\ dispatch' = dispatch
      BY <1>9 DEF LoadGateway
    <3>8. Holding(w)'
      BY <2>1, <2>3, <3>5, <3>7 DEF Holding, Got, CommandOf
    <3> QED
      BY <1>0, <1>9, <3>6, <3>8, StructureHandled DEF LoadGateway, TypeOK
  <2> QED
    BY <1>9, <2>2, <2>3 DEF LoadGateway
<1>10. ASSUME NEW w \in Workers, ApplyEffects(w)
       PROVE  Structure'
  <2> DEFINE d == dispatch[CommandOf(w)]
             row == WithEffects(worker[w].gw, d.request)
  <2>1. /\ worker[w].msg \in Reports /\ stream[worker[w].msg] # Null
        /\ NormalizeStatus(Got(w).raw) # Null
        /\ CommandOf(w) \in published
        /\ worker[w].gw # Null /\ HasEffect(d.request)
    BY <1>0, <1>10 DEF ApplyEffects, Structure, Holding, CommandOf, Got, DispatchedFirst
  <2>2. d \in Dispatch /\ CommandOf(w) \in CommandIds
    BY <1>0, <2>1 DEF DispatchedFirst, TypeOK
  <2>3. worker[w] \in WorkerState
    BY <1>0 DEF TypeOK
  <2>4. worker[w].gw \in GatewayRow /\ d.request \in Requests
    BY <2>1, <2>2, <2>3 DEF WorkerState, Dispatch
  <2>5. row \in GatewayRow
    BY <2>1, <2>4, WithEffectsType
  <2>6. gateways' \in [Gateways -> GatewayRow \cup {Null}]
    BY <1>0, <1>10, <2>5 DEF ApplyEffects, TypeOK
  <2>7. worker'[w] = [worker[w] EXCEPT !.pc = "acking", !.gw = Null]
    BY <1>0, <1>10 DEF ApplyEffects, TypeOK
  <2>8. /\ worker'[w] \in WorkerState
        /\ worker'[w].pc = "acking"
        /\ worker'[w].msg = worker[w].msg
    BY <2>3, <2>7 DEF WorkerState, WorkerPC
  <2>9. /\ worker' \in [Workers -> WorkerState]
        /\ \A v \in Workers \ {w} : worker'[v] = worker[v]
    BY <1>0, <1>10, <2>7, <2>8 DEF ApplyEffects, TypeOK
  <2>10. stream' = stream
    BY <1>10 DEF ApplyEffects
  <2>11. Holding(w)'
    BY <2>1, <2>8, <2>10 DEF Holding, Got
  <2>12. applied' \in SUBSET CommandIds
    BY <1>0, <1>10, <2>2 DEF ApplyEffects, TypeOK
  <2> QED
    BY <1>0, <1>10, <2>6, <2>9, <2>11, <2>12, StructureHandled DEF ApplyEffects, TypeOK
<1>11. ASSUME NEW w \in Workers, AckMessage(w) \/ Fail(w)
       PROVE  Structure'
  <2>1. Release(w) /\ failures' \in 0 .. MaxFailures
    BY <1>0, <1>11, BoundsAssumption DEF AckMessage, Fail, TypeOK
  <2>2. Holding(w)'
    BY <1>0, <2>1, ReleaseEffect DEF Holding, Idle
  <2>3. \A k \in Reports : stream[k] = Null => stream'[k] = Null
    BY <1>0, <1>11 DEF AckMessage, Fail, Structure, Holding, TypeOK
  <2> QED
    BY <1>0, <1>11, <2>1, <2>2, <2>3, ReleaseEffect, StructureHandled
       DEF AckMessage, Fail, TypeOK
<1>12. ASSUME NEW e \in Editors, NEW g \in Gateways, EditorLoad(e, g)
       PROVE  Structure'
  <2>1. [gateway |-> g, gw |-> gateways[g]] \in EditorState
    BY <1>0, <1>12 DEF EditorLoad, EditorState, TypeOK
  <2>2. DispatchedFirst'
    BY <1>0, <1>12 DEF EditorLoad, DispatchedFirst
  <2> QED
    BY <1>0, <1>12, <2>1, <2>2, StructureAside DEF EditorLoad, TypeOK
<1>13. ASSUME NEW e \in Editors, EditorSave(e)
       PROVE  Structure'
  <2> DEFINE row == editor[e].gw
             meta == EnsureMetadataExists(row.meta)
  <2>1. editor[e].gateway \in Gateways /\ row \in GatewayRow
    BY <1>0, <1>13 DEF EditorSave, TypeOK, EditorState
  <2>2. meta \in Metadata
    BY <2>1, DataAssumption DEF EnsureMetadataExists, GatewayRow, Metadata, GatewayStatuses
  <2>3. [row EXCEPT !.meta = meta] \in GatewayRow
    BY <2>1, <2>2 DEF GatewayRow
  <2>4. ASSUME NEW s \in SeenStatuses
        PROVE  [row EXCEPT !.meta = [meta EXCEPT !.status = s]] \in GatewayRow
    <3>1. [meta EXCEPT !.status = s] \in Metadata
      BY <2>2, DataAssumption DEF Metadata
    <3> QED
      BY <2>1, <3>1 DEF GatewayRow
  <2>5. gateways' \in [Gateways -> GatewayRow \cup {Null}]
    <3>1. PICK new \in GatewayRow : gateways' = [gateways EXCEPT ![editor[e].gateway] = new]
      <4>1. \/ \E s \in SeenStatuses : gateways' = [gateways EXCEPT ![editor[e].gateway] =
                                       [row EXCEPT !.meta = [meta EXCEPT !.status = s]]]
            \/ gateways' = [gateways EXCEPT ![editor[e].gateway] = [row EXCEPT !.meta = meta]]
        BY <1>13, Zenon DEF EditorSave
      <4> HIDE DEF row, meta
      <4> QED
        BY <2>3, <2>4, <4>1, Zenon
    <3> QED
      BY <1>0, <3>1 DEF TypeOK
  <2>6. DispatchedFirst'
    BY <1>0, <1>13 DEF EditorSave, DispatchedFirst
  <2> QED
    BY <1>0, <1>13, <2>5, <2>6, StructureAside DEF EditorSave, TypeOK
<1>14. ASSUME NEW g \in Gateways, DeleteGateway(g)
       PROVE  Structure'
  <2>1. DispatchedFirst'
    BY <1>0, <1>14 DEF DeleteGateway, DispatchedFirst
  <2>2. commands' \in [CommandIds -> CommandStatuses \cup {Null}]
    BY <1>0, <1>14 DEF DeleteGateway, TypeOK
  <2> QED
    BY <1>0, <1>14, <2>1, <2>2, StructureAside DEF DeleteGateway, TypeOK
<1>15. CASE UNCHANGED vars
  <2>1. DispatchedFirst'
    BY <1>0, <1>15 DEF vars, DispatchedFirst
  <2> QED
    BY <1>0, <1>15, <2>1, StructureAside DEF vars, TypeOK
<1>16. ASSUME NEW g \in Gateways, NEW d \in Declarations, CompleteProvisioning(g, d)
       PROVE  Structure'
  <2>1. gateways[g] \in GatewayRow
    BY <1>0, <1>16 DEF CompleteProvisioning, TypeOK
  <2>2. gateways' \in [Gateways -> GatewayRow \cup {Null}]
    BY <1>0, <1>16, <2>1, WithDeclarationType DEF CompleteProvisioning, TypeOK
  <2>3. installed' \in [Gateways -> Firmwares]
    BY <1>0, <1>16, DataAssumption DEF CompleteProvisioning, TypeOK
  <2>4. declared' \in [Gateways -> SUBSET Declarations]
    BY <1>0, <1>16 DEF CompleteProvisioning, TypeOK
  <2>5. DispatchedFirst'
    BY <1>0, <1>16 DEF CompleteProvisioning, DispatchedFirst
  <2> QED
    BY <1>0, <1>16, <2>2, <2>3, <2>4, <2>5, StructureAside DEF CompleteProvisioning, TypeOK
<1>17. CASE LoopStep
  <2>1. failures' \in 0 .. MaxFailures
    BY <1>0, <1>17, BoundsAssumption DEF LoopStep, LoopEnds, Restart, TypeOK
  <2>2. UNCHANGED <<gateways, commands, dispatch, published, stream, worker, editor,
                    installed, applied, deleted, declared>>
    BY <1>17 DEF LoopStep, LoopEnds, Restart
  <2>3. DispatchedFirst'
    BY <1>0, <2>2 DEF DispatchedFirst
  <2> QED
    BY <1>0, <2>1, <2>2, <2>3, StructureAside DEF TypeOK
<1> QED
  BY <1>1, <1>2, <1>3, <1>4, <1>5, <1>6, <1>7, <1>8, <1>9, <1>10, <1>11, <1>12, <1>13,
     <1>14, <1>15, <1>16, <1>17
  DEF Next, DispatchStep, DeviceStep, StreamStep, Handle, EditorStep

\* In every reachable state each table, message and process has its type
\* (command.entity, gateway.entity, commands-ack.consumer), and a consumer
\* holds what the await before has established.
THEOREM TypeCorrect == Spec => []TypeOK
<1>1. Init => Structure
  BY StructureInit
<1>2. Structure /\ [Next]_vars => Structure'
  BY StructureStep
<1>3. Structure => TypeOK
  BY DEF Structure
<1> QED
  BY <1>1, <1>2, <1>3, PTL DEF Spec

-----------------------------------------------------------------------------
(* Commands and their gateways.                                            *)

\* A request's gateway does not change once it is dispatched.
LEMMA GatewayKept ==
    ASSUME Structure, [Next]_vars, NEW c \in CommandIds, dispatch[c] # Null
    PROVE  /\ dispatch'[c].gateway = dispatch[c].gateway
           /\ dispatch[c].gateway \in Gateways
<1>1. dispatch[c] \in Dispatch
  BY DEF Structure, TypeOK
<1> QED
  BY <1>1, StepKeeps DEF Kept, Dispatch

\* Only a deletion removes a gateway's row.
LEMMA RowStays ==
    ASSUME Structure, [Next]_vars, NEW g \in Gateways, gateways[g] # Null,
           gateways'[g] = Null
    PROVE  DeleteGateway(g)
<1> USE NullAssumption
<1>0. TypeOK /\ Structure'
  BY StructureStep DEF Structure
<1>1. ASSUME NEW w \in Workers, ApplyEffects(w) PROVE FALSE
  <2> DEFINE d == dispatch[CommandOf(w)]
  <2>1. /\ worker[w].gw # Null /\ HasEffect(d.request)
        /\ CommandOf(w) \in CommandIds /\ d # Null
    BY <1>0, <1>1 DEF ApplyEffects, Structure, Holding, CommandOf, Got, DispatchedFirst, TypeOK
  <2>2. worker[w] \in WorkerState /\ d \in Dispatch
    BY <1>0, <2>1 DEF TypeOK
  <2>3. worker[w].gw \in GatewayRow /\ d.request \in Requests
    BY <2>1, <2>2 DEF WorkerState, Dispatch
  <2>4. WithEffects(worker[w].gw, d.request) \in GatewayRow
    BY <2>1, <2>3, WithEffectsType
  <2> QED
    BY <1>0, <1>1, <2>4 DEF ApplyEffects, TypeOK
<1>2. ASSUME NEW e \in Editors, EditorSave(e) PROVE FALSE
  <2>1. editor[e].gw \in GatewayRow /\ editor[e].gateway \in Gateways
    BY <1>0, <1>2 DEF EditorSave, TypeOK, EditorState
  <2>2. EnsureMetadataExists(editor[e].gw.meta) \in Metadata
    BY <2>1, DataAssumption DEF EnsureMetadataExists, GatewayRow, Metadata, GatewayStatuses
  <2> DEFINE row == editor[e].gw
             meta == EnsureMetadataExists(row.meta)
  <2>3. \A md \in Metadata : [row EXCEPT !.meta = md] \in GatewayRow
    BY <2>1 DEF GatewayRow
  <2>4. \A s \in SeenStatuses : [meta EXCEPT !.status = s] \in Metadata
    BY <2>2, DataAssumption DEF Metadata
  <2>5. \E md \in Metadata : gateways' = [gateways EXCEPT ![editor[e].gateway] = [row EXCEPT !.meta = md]]
    <3>1. \/ \E s \in SeenStatuses : gateways' = [gateways EXCEPT ![editor[e].gateway] =
                                     [row EXCEPT !.meta = [meta EXCEPT !.status = s]]]
          \/ gateways' = [gateways EXCEPT ![editor[e].gateway] = [row EXCEPT !.meta = meta]]
      BY <1>2, Zenon DEF EditorSave
    <3> HIDE DEF row, meta
    <3>2. meta \in Metadata
      BY <2>2 DEF meta, row
    <3> QED
      BY <2>4, <3>1, <3>2, Zenon
  <2> QED
    BY <1>0, <2>1, <2>3, <2>5 DEF TypeOK
<1>3. CASE gateways' = gateways
  BY <1>3
<1>4. ASSUME NEW h \in Gateways, DeleteGateway(h) PROVE DeleteGateway(g)
  <2>1. g = h
    BY <1>0, <1>4 DEF DeleteGateway, TypeOK
  <2> QED
    BY <1>4, <2>1
<1>5. CASE DispatchStep \/ DeviceStep \/ StreamStep \/ LoopStep \/ UNCHANGED vars
  BY <1>3, <1>5 DEF DispatchStep, SendCommand, QueueCommand, PublishToNats, DeviceStep,
     ReportOutcome, StreamStep, LoopStep, LoopEnds, Restart, Deliver, LoseDelivery, ExpireMessage, vars
<1>6. ASSUME NEW w \in Workers, Handle(w) \/ Fail(w) PROVE DeleteGateway(g)
  BY <1>1, <1>3, <1>6 DEF Handle, FindCommand, SaveStatus, LoadGateway, AckMessage, Fail
<1>7. CASE EditorStep
  BY <1>2, <1>3, <1>7 DEF EditorStep, EditorLoad
<1>8. ASSUME NEW h \in Gateways, NEW d \in Declarations, CompleteProvisioning(h, d)
      PROVE  FALSE
  <2>1. gateways[h] \in GatewayRow
    BY <1>0, <1>8 DEF CompleteProvisioning, TypeOK
  <2>2. WithDeclaration(gateways[h], d) # Null
    BY <2>1, WithDeclarationType
  <2> QED
    BY <1>0, <1>8, <2>2 DEF CompleteProvisioning, TypeOK
<1> QED
  BY <1>4, <1>5, <1>6, <1>7, <1>8 DEF Next

\* A command's row is inserted, or inserted again, only while its gateway
\* has one.
LEMMA NoOrphanStep == Structure /\ NoOrphanCommand /\ [Next]_vars => NoOrphanCommand'
<1> SUFFICES ASSUME Structure, NoOrphanCommand, [Next]_vars,
                    NEW c \in CommandIds, commands'[c] # Null
             PROVE  gateways'[dispatch'[c].gateway] # Null
  BY DEF NoOrphanCommand
<1> USE NullAssumption
<1>0. TypeOK /\ Structure'
  BY StructureStep DEF Structure
<1>1. CASE commands[c] # Null
  <2>1. dispatch[c] # Null /\ gateways[dispatch[c].gateway] # Null
    BY <1>1 DEF Structure, DispatchedFirst, NoOrphanCommand
  <2>2. dispatch'[c].gateway = dispatch[c].gateway /\ dispatch[c].gateway \in Gateways
    BY <2>1, GatewayKept
  <2>3. ~ DeleteGateway(dispatch[c].gateway)
    BY <2>1 DEF DeleteGateway
  <2> QED
    BY <2>1, <2>2, <2>3, RowStays
<1>2. CASE commands[c] = Null
  <2>1. gateways' = gateways /\ dispatch[c] # Null /\ gateways[dispatch[c].gateway] # Null
    <3>1. ASSUME NEW w \in Workers, SaveStatus(w)
          PROVE  gateways' = gateways /\ dispatch[c] # Null /\ gateways[dispatch[c].gateway] # Null
      <4>1. CommandOf(w) \in CommandIds /\ dispatch[CommandOf(w)] # Null
        BY <1>0, <3>1 DEF SaveStatus, Structure, Holding, CommandOf, Got, DispatchedFirst, TypeOK
      <4> QED
        BY <1>0, <1>2, <3>1, <4>1 DEF SaveStatus, TypeOK
    <3>2. ASSUME NEW d \in CommandIds, QueueCommand(d)
          PROVE  gateways' = gateways /\ dispatch[c] # Null /\ gateways[dispatch[c].gateway] # Null
      BY <1>0, <1>2, <3>2 DEF QueueCommand, TypeOK
    <3>3. CASE \E g \in Gateways : DeleteGateway(g)
      BY <1>0, <1>2, <3>3 DEF DeleteGateway, TypeOK
    <3> QED
      BY <1>0, <1>2, <3>1, <3>2, <3>3
      DEF Next, DispatchStep, SendCommand, PublishToNats, DeviceStep, ReportOutcome,
          StreamStep, LoopStep, LoopEnds, Restart, Deliver, LoseDelivery, ExpireMessage, Handle, FindCommand,
          LoadGateway, ApplyEffects, AckMessage, Fail, EditorStep, EditorLoad, EditorSave,
          CompleteProvisioning, vars
  <2> QED
    BY <2>1, GatewayKept
<1> QED
  BY <1>1, <1>2

\* No command's row outlives its gateway's, for any number of gateways,
\* commands, consumers and handlers (command.entity onDelete, queueCommand
\* and updateStatus against deleteGateway).
THEOREM CommandsHaveGateways == Spec => []NoOrphanCommand
<1>1. Init => Structure /\ NoOrphanCommand
  BY StructureInit DEF Init, NoOrphanCommand
<1>2. Structure /\ NoOrphanCommand /\ [Next]_vars => Structure' /\ NoOrphanCommand'
  BY StructureStep, NoOrphanStep
<1> QED
  BY <1>1, <1>2, PTL DEF Spec

-----------------------------------------------------------------------------
(* Statuses and reports.                                                   *)

\* A report that turns acknowledged was held by a consumer about to
\* acknowledge it.
LEMMA OnlyAcked ==
    ASSUME Structure, [Next]_vars, NEW m \in Reports, stream'[m] # Null,
           stream'[m].state = "acked"
    PROVE  \/ stream[m] # Null /\ stream[m].state = "acked"
           \/ \E w \in Workers : worker[w].pc = "acking" /\ worker[w].msg = m
<1> USE NullAssumption
<1>0. TypeOK
  BY DEF Structure
<1>1. ASSUME NEW c \in CommandIds, NEW raw \in RawStatuses, ReportOutcome(c, raw)
      PROVE  stream'[m] = stream[m]
  BY <1>0, <1>1 DEF ReportOutcome, Stored, TypeOK
<1>2. ASSUME NEW k \in Reports, stream[k] # Null,
             \/ stream' = [stream EXCEPT ![k].deliveries = @ + 1]
             \/ stream' = [stream EXCEPT ![k].state = "expired"]
      PROVE  stream[m] # Null /\ stream[m].state = "acked"
  <2>1. stream[k] \in Message
    BY <1>0, <1>2 DEF TypeOK
  <2>2. CASE m = k
    <3>1. \/ stream'[m] = [stream[m] EXCEPT !.deliveries = @ + 1]
          \/ stream'[m] = [stream[m] EXCEPT !.state = "expired"]
      BY <1>0, <1>2, <2>2 DEF TypeOK
    <3> QED
      BY <1>2, <2>1, <2>2, <3>1 DEF Message
  <2>3. CASE m # k
    BY <1>0, <1>2, <2>3 DEF TypeOK
  <2> QED
    BY <2>2, <2>3
<1>3. ASSUME NEW k \in Reports, (\E w \in Workers : Deliver(w, k)) \/ LoseDelivery(k) \/ ExpireMessage(k)
      PROVE  stream[m] # Null /\ stream[m].state = "acked"
  BY <1>2, <1>3 DEF Deliver, LoseDelivery, ExpireMessage, Deliverable, IsStored
<1>4. ASSUME NEW w \in Workers, AckMessage(w)
      PROVE  stream'[m] = stream[m] \/ (worker[w].pc = "acking" /\ worker[w].msg = m)
  BY <1>0, <1>4 DEF AckMessage, TypeOK
<1>5. CASE UNCHANGED stream
  BY <1>5
<1>6. ASSUME NEW w \in Workers, Handle(w) \/ Fail(w)
      PROVE  UNCHANGED stream \/ AckMessage(w)
  BY <1>6 DEF Handle, FindCommand, SaveStatus, LoadGateway, ApplyEffects, Fail
<1>7. CASE \/ DispatchStep \/ EditorStep \/ LoopStep \/ UNCHANGED vars
           \/ \E g \in Gateways : \/ DeleteGateway(g)
                                 \/ \E d \in Declarations : CompleteProvisioning(g, d)
  BY <1>5, <1>7 DEF LoopStep, LoopEnds, Restart, DispatchStep, SendCommand, QueueCommand, PublishToNats, EditorStep,
     EditorLoad, EditorSave, DeleteGateway, CompleteProvisioning, vars
<1> QED
  BY <1>1, <1>3, <1>4, <1>5, <1>6, <1>7 DEF Next, DeviceStep, StreamStep


\* Commands whose row is gone or shows the status of one of their reports.
Shown ==
    {c \in CommandIds :
        commands[c] # Null => \E m \in Reports : Reported(m, c, commands[c])}

PublishedClosed == \A c \in published : dispatch[c].pc = "closed"

\* A row that is not as it was inserted shows a report; so does the row of a
\* report that is acknowledged, or that a consumer has seen to.
SeenInRow ==
    /\ PublishedClosed
    /\ \A c \in CommandIds : commands[c] \notin {Null, "QUEUED"} => c \in Shown
    /\ \A m \in Reports :
         stream[m] # Null /\ stream[m].state = "acked" => stream[m].cmd \in Shown
    /\ \A w \in Workers :
         worker[w].pc \in {"saved", "loaded", "acking"} => CommandOf(w) \in Shown

\* Publishing is the last thing a request does.
LEMMA PublishedClosedStep ==
    Structure /\ PublishedClosed /\ [Next]_vars => PublishedClosed'
<1> SUFFICES ASSUME Structure, PublishedClosed, [Next]_vars, NEW c \in published'
             PROVE  dispatch'[c].pc = "closed"
  BY DEF PublishedClosed
<1> USE NullAssumption
<1>0. TypeOK /\ published \subseteq CommandIds
  BY DEF Structure, TypeOK
<1>1. ASSUME NEW d \in CommandIds, NEW g \in Gateways, NEW r \in Requests, SendCommand(d, g, r)
      PROVE  dispatch'[c].pc = "closed"
  BY <1>0, <1>1 DEF SendCommand, Structure, DispatchedFirst, PublishedClosed, TypeOK
<1>2. ASSUME NEW d \in CommandIds, QueueCommand(d)
      PROVE  dispatch'[c].pc = "closed"
  <2>1. c \in published /\ d # c
    BY <1>2 DEF QueueCommand, PublishedClosed
  <2>2. dispatch'[c] = dispatch[c]
    BY <1>0, <1>2, <2>1 DEF QueueCommand, TypeOK
  <2> QED
    BY <2>1, <2>2 DEF PublishedClosed
<1>3. ASSUME NEW d \in CommandIds, PublishToNats(d)
      PROVE  dispatch'[c].pc = "closed"
  <2>1. CASE c = d
    <3>1. dispatch'[c] = [dispatch[c] EXCEPT !.pc = "closed"] /\ dispatch[c] \in Dispatch
      BY <1>0, <1>3, <2>1 DEF PublishToNats, TypeOK
    <3> QED
      BY <3>1 DEF Dispatch
  <2>2. CASE c # d
    BY <1>0, <1>3, <2>2 DEF PublishToNats, PublishedClosed, TypeOK
  <2> QED
    BY <2>1, <2>2
<1>4. CASE dispatch' = dispatch /\ published' = published
  BY <1>4 DEF PublishedClosed
<1> QED
  BY <1>1, <1>2, <1>3, <1>4
  DEF Next, DispatchStep, DeviceStep, ReportOutcome, StreamStep, LoopStep, LoopEnds, Restart, Deliver, LoseDelivery,
      ExpireMessage, Handle, FindCommand, SaveStatus, LoadGateway, ApplyEffects, AckMessage,
      Fail, EditorStep, EditorLoad, EditorSave, DeleteGateway, CompleteProvisioning, vars

\* A status is written from a stored report of the same command ...
LEMMA SavedIsShown ==
    ASSUME Structure, [Next]_vars, NEW w \in Workers, SaveStatus(w), commands' # commands
    PROVE  CommandOf(w) \in CommandIds /\ CommandOf(w) \in Shown'
<1>0. TypeOK
  BY DEF Structure
<1>1. /\ worker[w].msg \in Reports /\ stream[worker[w].msg] # Null
      /\ CommandOf(w) \in CommandIds
  BY <1>0 DEF SaveStatus, Structure, Holding, CommandOf, Got, DispatchedFirst, TypeOK
<1>2. PICK c \in CommandIds : c = CommandOf(w)
  BY <1>1
<1>3. commands'[c] = NormalizeStatus(Got(w).raw) /\ stream' = stream
  BY <1>0, <1>2 DEF SaveStatus, TypeOK
<1>4. \E m \in Reports : /\ stream'[m] # Null /\ stream'[m].cmd = c
                         /\ NormalizeStatus(stream'[m].raw) = commands'[c]
  BY <1>1, <1>2, <1>3 DEF CommandOf, Got
<1>5. c \in Shown'
  BY <1>4 DEF Shown, Reported
<1> QED
  BY <1>2, <1>5

\* ... and only the insertion of the row writes another.
LEMMA StatusWritten ==
    ASSUME Structure, [Next]_vars, NEW c \in CommandIds,
           commands'[c] # commands[c], commands'[c] # Null
    PROVE  c \in Shown' \/ (commands'[c] = "QUEUED" /\ QueueCommand(c))
<1>0. TypeOK
  BY DEF Structure
<1>1. ASSUME NEW w \in Workers, SaveStatus(w) PROVE c \in Shown'
  <2>1. c = CommandOf(w)
    BY <1>0, <1>1 DEF SaveStatus, TypeOK
  <2> QED
    BY <1>1, <2>1, SavedIsShown
<1>2. ASSUME NEW d \in CommandIds, QueueCommand(d)
      PROVE  commands'[c] = "QUEUED" /\ QueueCommand(c)
  BY <1>0, <1>2 DEF QueueCommand, TypeOK
<1>3. ASSUME NEW g \in Gateways, DeleteGateway(g) PROVE FALSE
  BY <1>0, <1>3 DEF DeleteGateway, TypeOK
<1>4. CASE UNCHANGED commands
  BY <1>4
<1> QED
  BY <1>1, <1>2, <1>3, <1>4
  DEF Next, DispatchStep, SendCommand, PublishToNats, DeviceStep, ReportOutcome, StreamStep, LoopStep, LoopEnds, Restart,
      Deliver, LoseDelivery, ExpireMessage, Handle, FindCommand, LoadGateway, ApplyEffects,
      AckMessage, Fail, EditorStep, EditorLoad, EditorSave, CompleteProvisioning, vars

\* A command that was published, and shows a report or nothing, goes on so.
LEMMA ShownStays ==
    ASSUME Structure, PublishedClosed, [Next]_vars, NEW c \in published, c \in Shown
    PROVE  c \in Shown'
<1>0. TypeOK /\ Kept /\ c \in CommandIds
  BY StepKeeps DEF Structure, TypeOK
<1>1. CASE commands'[c] = commands[c]
  BY <1>0, <1>1 DEF Shown, Reported, Kept
<1>2. CASE commands'[c] = Null
  BY <1>0, <1>2 DEF Shown
<1>3. CASE commands'[c] # commands[c] /\ commands'[c] # Null
  BY <1>0, <1>3, StatusWritten DEF PublishedClosed, QueueCommand
<1> QED
  BY <1>1, <1>2, <1>3

\* What a consumer has in hand was published, and stays the same.
LEMMA HeldReport ==
    ASSUME Structure, [Next]_vars, NEW w \in Workers, worker[w].pc # "idle"
    PROVE  /\ worker[w].msg \in Reports /\ stream[worker[w].msg] # Null
           /\ CommandOf(w) \in published
           /\ worker'[w].msg = worker[w].msg => CommandOf(w)' = CommandOf(w)
BY StepKeeps DEF Structure, Holding, DispatchedFirst, CommandOf, Got, Kept

\* A consumer has seen to a report when the row shows it, or has gone.
LEMMA ConsumerShown ==
    ASSUME Structure, SeenInRow, [Next]_vars, NEW w \in Workers,
           worker'[w].pc \in {"saved", "loaded", "acking"}
    PROVE  CommandOf(w)' \in Shown'
<1> USE NullAssumption
<1>0. TypeOK /\ worker[w] \in WorkerState /\ PublishedClosed
  BY DEF Structure, TypeOK, SeenInRow
<1>1. CASE /\ worker[w].pc # "idle" /\ worker'[w].msg = worker[w].msg
           /\ CommandOf(w) \in Shown \/ CommandOf(w) \in Shown'
  <2>1. PICK c : c = CommandOf(w)
    OBVIOUS
  <2>2. c \in published /\ CommandOf(w)' = c
    BY <1>1, <2>1, HeldReport
  <2>3. c \in Shown'
    BY <1>0, <1>1, <2>1, <2>2, ShownStays
  <2> QED
    BY <2>2, <2>3
<1>2. CASE worker'[w] = worker[w]
  BY <1>1, <1>2 DEF SeenInRow
<1>3. ASSUME NEW q \in WorkerPC, Goto(w, q)
      PROVE  worker'[w].pc = q /\ worker'[w].msg = worker[w].msg
  BY <1>0, <1>3, GotoEffect
<1>4. ASSUME Release(w) PROVE FALSE
  BY <1>0, <1>4, ReleaseEffect DEF Idle
<1>5. CASE FindCommand(w)
  <2>1. commands[CommandOf(w)] = Null /\ Goto(w, "acking")
    BY <1>3, <1>4, <1>5 DEF FindCommand, WorkerPC
  <2>2. CommandOf(w) \in CommandIds
    BY <1>0, <1>5, HeldReport DEF FindCommand, TypeOK
  <2>3. CommandOf(w) \in Shown
    BY <2>1, <2>2 DEF Shown
  <2> QED
    BY <1>1, <1>3, <1>5, <2>1, <2>3 DEF FindCommand, WorkerPC
<1>6. CASE SaveStatus(w)
  <2>1. Goto(w, AfterStatus(NormalizeStatus(Got(w).raw)))
        /\ commands' = [commands EXCEPT ![CommandOf(w)] = NormalizeStatus(Got(w).raw)]
    BY <1>4, <1>6 DEF SaveStatus
  <2>2. worker'[w].msg = worker[w].msg
    BY <1>3, <2>1 DEF AfterStatus, WorkerPC
  <2>3. CommandOf(w) \in Shown \/ CommandOf(w) \in Shown'
    <3>1. CASE commands' # commands
      BY <1>6, <3>1, SavedIsShown
    <3>2. CASE commands' = commands
      <4>1. /\ worker[w].msg \in Reports /\ stream[worker[w].msg] # Null
            /\ CommandOf(w) \in CommandIds
        BY <1>0, <1>6, HeldReport DEF SaveStatus, TypeOK
      <4>2. commands[CommandOf(w)] = NormalizeStatus(Got(w).raw)
        BY <1>0, <2>1, <3>2, <4>1 DEF TypeOK
      <4> QED
        BY <4>1, <4>2 DEF Shown, Reported, CommandOf, Got
    <3> QED
      BY <3>1, <3>2
  <2> QED
    BY <1>1, <1>6, <2>2, <2>3 DEF SaveStatus
<1>7. CASE LoadGateway(w) \/ ApplyEffects(w)
  <2>1. worker[w].pc \in {"saved", "loaded"}
    BY <1>7 DEF LoadGateway, ApplyEffects
  <2>2. worker'[w].msg = worker[w].msg
    <3>1. CASE LoadGateway(w)
      <4>1. CASE Goto(w, "acking")
        BY <1>3, <4>1 DEF WorkerPC
      <4>2. ASSUME NEW gw, worker' = [worker EXCEPT ![w].pc = "loaded", ![w].gw = gw]
            PROVE  worker'[w].msg = worker[w].msg
        <5>1. worker'[w] = [worker[w] EXCEPT !.pc = "loaded", !.gw = gw]
          BY <1>0, <4>2 DEF TypeOK
        <5> QED
          BY <1>0, <5>1 DEF WorkerState
      <4> QED
        BY <3>1, <4>1, <4>2 DEF LoadGateway
    <3>2. CASE ApplyEffects(w)
      <4>1. worker'[w] = [worker[w] EXCEPT !.pc = "acking", !.gw = Null]
        BY <1>0, <3>2 DEF ApplyEffects, TypeOK
      <4> QED
        BY <1>0, <4>1 DEF WorkerState
    <3> QED
      BY <1>7, <3>1, <3>2
  <2> QED
    BY <1>1, <2>1, <2>2 DEF SeenInRow
<1>8. CASE AckMessage(w) \/ Fail(w)
  BY <1>4, <1>8 DEF AckMessage, Fail
<1>9. ASSUME NEW v \in Workers, v # w, Handle(v) \/ Fail(v)
      PROVE  worker'[w] = worker[w]
  BY <1>0, <1>9 DEF Handle, FindCommand, SaveStatus, LoadGateway, ApplyEffects,
     AckMessage, Fail, Goto, Release, TypeOK
<1>10. ASSUME NEW v \in Workers, NEW k \in Reports, Deliver(v, k)
       PROVE  worker'[w] = worker[w]
  BY <1>0, <1>10 DEF Deliver, Idle, TypeOK
<1>11. CASE UNCHANGED worker
  BY <1>2, <1>11
<1>12. CASE \E v \in Workers : Handle(v) \/ Fail(v)
  BY <1>2, <1>5, <1>6, <1>7, <1>8, <1>9, <1>12 DEF Handle
<1> QED
  BY <1>2, <1>10, <1>11, <1>12
  DEF Next, DispatchStep, SendCommand, QueueCommand, PublishToNats, DeviceStep, ReportOutcome,
      StreamStep, LoopStep, LoopEnds, Restart, LoseDelivery, ExpireMessage, EditorStep, EditorLoad, EditorSave,
      DeleteGateway, CompleteProvisioning, vars

\* SeenInRow is an inductive invariant.
LEMMA SeenInRowStep == Structure /\ SeenInRow /\ [Next]_vars => SeenInRow'
<1> SUFFICES ASSUME Structure, SeenInRow, [Next]_vars PROVE SeenInRow'
  OBVIOUS
<1>0. TypeOK /\ Kept /\ PublishedClosed
  BY StepKeeps DEF Structure, SeenInRow
<1>1. PublishedClosed'
  BY <1>0, PublishedClosedStep
<1>2. ASSUME NEW c \in CommandIds, commands'[c] \notin {Null, "QUEUED"}
      PROVE  c \in Shown'
  <2>1. CASE commands'[c] = commands[c]
    BY <1>0, <1>2, <2>1 DEF SeenInRow, Shown, Reported, Kept
  <2>2. CASE commands'[c] # commands[c]
    BY <1>2, <2>2, StatusWritten
  <2> QED
    BY <2>1, <2>2
<1>3. ASSUME NEW m \in Reports, stream'[m] # Null, stream'[m].state = "acked"
      PROVE  stream'[m].cmd \in Shown'
  <2>1. stream[m] # Null /\ stream[m].cmd \in Shown
    <3>1. ASSUME NEW w \in Workers, worker[w].pc = "acking", worker[w].msg = m
          PROVE  stream[m] # Null /\ stream[m].cmd \in Shown
      BY <3>1 DEF SeenInRow, Structure, Holding, CommandOf, Got
    <3> QED
      BY <1>3, <3>1, OnlyAcked DEF SeenInRow
  <2>2. stream[m].cmd \in published /\ stream'[m].cmd = stream[m].cmd
    BY <1>0, <2>1 DEF Structure, DispatchedFirst, Kept
  <2> QED
    BY <1>0, <2>1, <2>2, ShownStays
<1>4. ASSUME NEW w \in Workers, worker'[w].pc \in {"saved", "loaded", "acking"}
      PROVE  CommandOf(w)' \in Shown'
  BY <1>4, ConsumerShown
<1> QED
  BY <1>1, <1>2, <1>3, <1>4 DEF SeenInRow

\* Every status was reported for that very command or is the QUEUED of its
\* insertion, and then none of its reports was acknowledged
\* (command.service publishToNats, commands-ack.consumer normalizeStatus).
THEOREM StatusesAreReported == Spec => []StatusIsReported
<1>1. Init => Structure /\ SeenInRow
  BY StructureInit DEF Init, Idle, SeenInRow, PublishedClosed
<1>2. Structure /\ SeenInRow /\ [Next]_vars => Structure' /\ SeenInRow'
  BY StructureStep, SeenInRowStep
<1>3. SeenInRow => StatusIsReported
  BY DEF SeenInRow, StatusIsReported, Shown
<1> QED
  BY <1>1, <1>2, <1>3, PTL DEF Spec

-----------------------------------------------------------------------------
(* Configurations.                                                         *)

\* Every copy of a gateway's row, in the table or held by a process, shows
\* a configuration that the gateway confirmed.
Confirmed ==
    /\ ConfigurationIsConfirmed
    /\ \A w \in Workers : worker[w].pc = "loaded" =>
         LET g == dispatch[CommandOf(w)].gateway
         IN  ConfirmedConfiguration(ConfirmedRequests(g), declared[g], worker[w].gw)
    /\ \A e \in Editors : editor[e] # Null =>
         LET g == editor[e].gateway
         IN  ConfirmedConfiguration(ConfirmedRequests(g), declared[g], editor[e].gw)

\* More confirmations and declarations confirm no less.
LEMMA MoreConfirmed ==
    ASSUME NEW few, NEW many, few \subseteq many, NEW less, NEW more, less \subseteq more,
           NEW row, ConfirmedConfiguration(few, less, row)
    PROVE  ConfirmedConfiguration(many, more, row)
BY DEF ConfirmedConfiguration

\* Writing the metadata of a row without touching its frequency, or
\* creating it with the default one, confirms the same configuration.
LEMMA SameConfiguration ==
    ASSUME NEW reqs, NEW told, NEW row \in GatewayRow,
           ConfirmedConfiguration(reqs, told, row),
           NEW new \in GatewayRow, new.fw = row.fw, new.meta # Null,
           new.meta.freq = EnsureMetadataExists(row.meta).freq
    PROVE  ConfirmedConfiguration(reqs, told, new)
BY DEF ConfirmedConfiguration, EnsureMetadataExists

\* Applying a confirmed request gives a confirmed configuration.
LEMMA EffectsConfirmed ==
    ASSUME NEW reqs, NEW told, NEW row \in GatewayRow,
           ConfirmedConfiguration(reqs, told, row),
           NEW r \in Requests, r \in reqs, HasEffect(r)
    PROVE  ConfirmedConfiguration(reqs, told, WithEffects(row, r))
<1> DEFINE new == WithEffects(row, r)
           meta == EnsureMetadataExists(row.meta)
<1>1. new \in GatewayRow /\ meta \in Metadata
  BY WithEffectsType, DataAssumption
  DEF EnsureMetadataExists, GatewayRow, Metadata, GatewayStatuses
<1>2. \/ meta.freq = DefaultFreq
      \/ \E d \in told : d.freq = meta.freq
      \/ \E q \in reqs : q.type = "CONFIG" /\ q.freq = meta.freq
  BY DEF ConfirmedConfiguration, EnsureMetadataExists
<1>3. CASE r.type = "CONFIG"
  <2>1. new.fw = row.fw
    BY <1>3 DEF WithEffects, GatewayRow
  <2>2. new.meta.freq = IF r.freq # Null THEN r.freq ELSE meta.freq
    BY <1>3 DEF WithEffects, GatewayRow
  <2> QED
    BY <1>2, <1>3, <2>1, <2>2 DEF ConfirmedConfiguration
<1>4. CASE r.type # "CONFIG"
  <2>1. r.type = "FIRMWARE"
    BY <1>4, DataAssumption
  <2>2. new.fw = r.fw /\ new.meta = meta
    BY <1>4 DEF WithEffects, GatewayRow
  <2> QED
    BY <1>2, <2>1, <2>2 DEF ConfirmedConfiguration
<1> QED
  BY <1>3, <1>4

\* A gateway's confirmations are never withdrawn.
LEMMA ConfirmationsKept ==
    ASSUME Structure, [Next]_vars, NEW g \in Gateways
    PROVE  ConfirmedRequests(g) \subseteq ConfirmedRequests(g)'
<1> SUFFICES ASSUME NEW c \in CommandIds, dispatch[c] # Null, dispatch[c].gateway = g,
                    NEW m \in Reports, Reported(m, c, "ACK")
             PROVE  dispatch[c].request \in ConfirmedRequests(g)'
  BY DEF ConfirmedRequests
<1>1. /\ dispatch'[c] # Null /\ dispatch'[c].gateway = g
      /\ dispatch'[c].request = dispatch[c].request
  BY StepKeeps DEF Kept
<1>2. Reported(m, c, "ACK")'
  BY StepKeeps DEF Kept, Reported
<1> QED
  BY <1>1, <1>2 DEF ConfirmedRequests

\* Nor are its declarations.
LEMMA DeclarationsKept ==
    ASSUME TypeOK, [Next]_vars, NEW g \in Gateways
    PROVE  declared[g] \subseteq declared'[g]
<1>1. ASSUME NEW h \in Gateways, NEW d \in Declarations, CompleteProvisioning(h, d)
      PROVE  declared[g] \subseteq declared'[g]
  BY <1>1 DEF CompleteProvisioning, TypeOK
<1> QED
  BY <1>1 DEF Next, DispatchStep, SendCommand, QueueCommand, PublishToNats, DeviceStep,
     ReportOutcome, StreamStep, LoopStep, LoopEnds, Restart, Deliver, LoseDelivery, ExpireMessage, Handle, FindCommand,
     SaveStatus, LoadGateway, ApplyEffects, AckMessage, Fail, EditorStep, EditorLoad,
     EditorSave, DeleteGateway, vars

\* The row of g after a step is confirmed.
LEMMA RowConfirmed ==
    ASSUME Structure, Confirmed, [Next]_vars, NEW g \in Gateways, gateways'[g] # Null
    PROVE  ConfirmedConfiguration(ConfirmedRequests(g), declared'[g], gateways'[g])
<1> USE NullAssumption
<1>0. TypeOK
  BY DEF Structure
<1>1. ASSUME gateways'[g] = gateways[g]
      PROVE  ConfirmedConfiguration(ConfirmedRequests(g), declared[g], gateways'[g])
  BY <1>1 DEF Confirmed, ConfigurationIsConfirmed
<1>2. ASSUME NEW w \in Workers, ApplyEffects(w), gateways'[g] # gateways[g]
      PROVE  ConfirmedConfiguration(ConfirmedRequests(g), declared[g], gateways'[g])
  <2> DEFINE c == CommandOf(w)
             r == dispatch[c].request
             row == worker[w].gw
  <2>1. /\ worker[w].msg \in Reports /\ stream[worker[w].msg] # Null
        /\ NormalizeStatus(Got(w).raw) = "ACK"
        /\ row # Null /\ HasEffect(r)
        /\ c \in CommandIds /\ dispatch[c] # Null
    BY <1>0, <1>2 DEF ApplyEffects, Structure, Holding, CommandOf, Got, DispatchedFirst, TypeOK
  <2>2. worker[w] \in WorkerState /\ dispatch[c] \in Dispatch
    BY <1>0, <2>1 DEF TypeOK
  <2>3. row \in GatewayRow /\ r \in Requests
    BY <2>1, <2>2 DEF WorkerState, Dispatch
  <2>4. dispatch[c].gateway = g /\ gateways'[g] = WithEffects(row, r)
    BY <1>0, <1>2 DEF ApplyEffects, TypeOK
  <2>5. r \in ConfirmedRequests(g)
    BY <2>1, <2>4 DEF ConfirmedRequests, Reported, CommandOf, Got
  <2>6. ConfirmedConfiguration(ConfirmedRequests(g), declared[g], row)
    BY <1>2, <2>4 DEF Confirmed, ApplyEffects
  <2> QED
    BY <2>1, <2>3, <2>4, <2>5, <2>6, EffectsConfirmed
<1>3. ASSUME NEW e \in Editors, EditorSave(e), gateways'[g] # gateways[g]
      PROVE  ConfirmedConfiguration(ConfirmedRequests(g), declared[g], gateways'[g])
  <2> DEFINE row == editor[e].gw
             meta == EnsureMetadataExists(row.meta)
  <2>1. row \in GatewayRow
    BY <1>0, <1>3 DEF EditorSave, TypeOK, EditorState
  <2>2. meta \in Metadata
    BY <2>1, DataAssumption DEF EnsureMetadataExists, GatewayRow, Metadata, GatewayStatuses
  <2>3. PICK new \in GatewayRow :
          /\ gateways' = [gateways EXCEPT ![editor[e].gateway] = new]
          /\ new.fw = row.fw /\ new.meta # Null /\ new.meta.freq = meta.freq
    <3>1. \/ \E s \in SeenStatuses : gateways' = [gateways EXCEPT ![editor[e].gateway] =
                                     [row EXCEPT !.meta = [meta EXCEPT !.status = s]]]
          \/ gateways' = [gateways EXCEPT ![editor[e].gateway] = [row EXCEPT !.meta = meta]]
      BY <1>3, Zenon DEF EditorSave
    <3>2. ASSUME NEW s \in SeenStatuses
          PROVE  LET md == [meta EXCEPT !.status = s]
                 IN  md \in Metadata /\ md.freq = meta.freq
      BY <2>2, DataAssumption DEF Metadata
    <3>3. ASSUME NEW md \in Metadata
          PROVE  LET new == [row EXCEPT !.meta = md]
                 IN  new \in GatewayRow /\ new.fw = row.fw /\ new.meta = md /\ md # Null
      BY <2>1 DEF GatewayRow
    <3> HIDE DEF row, meta
    <3>4. meta \in Metadata
      BY <2>2 DEF meta, row
    <3>5. PICK md \in Metadata : /\ md.freq = meta.freq
                                 /\ gateways' = [gateways EXCEPT ![editor[e].gateway] =
                                                   [row EXCEPT !.meta = md]]
      BY <3>1, <3>2, <3>4, Zenon
    <3> QED
      BY <3>3, <3>5, Zenon
  <2>4. editor[e].gateway = g /\ gateways'[g] = new
    BY <1>0, <1>3, <2>3 DEF TypeOK
  <2>5. ConfirmedConfiguration(ConfirmedRequests(g), declared[g], row)
    BY <1>3, <2>4 DEF Confirmed, EditorSave
  <2> QED
    BY <2>1, <2>3, <2>4, <2>5, SameConfiguration
<1>4. ASSUME NEW h \in Gateways, DeleteGateway(h)
      PROVE  gateways'[g] = gateways[g]
  BY <1>0, <1>4 DEF DeleteGateway, TypeOK
<1>5. ASSUME DispatchStep \/ DeviceStep \/ StreamStep \/ LoopStep \/ UNCHANGED vars
      PROVE  ConfirmedConfiguration(ConfirmedRequests(g), declared[g], gateways'[g])
  BY <1>1, <1>5 DEF DispatchStep, SendCommand, QueueCommand, PublishToNats, DeviceStep,
     ReportOutcome, StreamStep, LoopStep, LoopEnds, Restart, Deliver, LoseDelivery, ExpireMessage, vars
<1>6. ASSUME NEW w \in Workers, Handle(w) \/ Fail(w)
      PROVE  ConfirmedConfiguration(ConfirmedRequests(g), declared[g], gateways'[g])
  BY <1>1, <1>2, <1>6 DEF Handle, FindCommand, SaveStatus, LoadGateway, AckMessage, Fail
<1>7. ASSUME EditorStep
      PROVE  ConfirmedConfiguration(ConfirmedRequests(g), declared[g], gateways'[g])
  BY <1>1, <1>3, <1>7 DEF EditorStep, EditorLoad
<1>8. ASSUME NEW h \in Gateways, NEW d \in Declarations, CompleteProvisioning(h, d),
             gateways'[g] # gateways[g]
      PROVE  ConfirmedConfiguration(ConfirmedRequests(g), declared'[g], gateways'[g])
  <2>1. h = g /\ gateways[g] # Null /\ gateways[g] \in GatewayRow
    BY <1>0, <1>8 DEF CompleteProvisioning, TypeOK
  <2>2. gateways'[g] = WithDeclaration(gateways[g], d)
    BY <1>0, <1>8, <2>1 DEF CompleteProvisioning, TypeOK
  <2>3. d \in declared'[g] /\ declared[g] \subseteq declared'[g]
    BY <1>0, <1>8, <2>1 DEF CompleteProvisioning, TypeOK
  <2>4. ConfirmedConfiguration(ConfirmedRequests(g), declared[g], gateways[g])
    BY <2>1 DEF Confirmed, ConfigurationIsConfirmed
  <2>5. /\ gateways'[g].meta # Null /\ gateways'[g].meta.freq = d.freq
        /\ gateways'[g].fw = gateways[g].fw \/ gateways'[g].fw = d.fw
    BY <2>1, <2>2, WithDeclarationType
  <2> QED
    BY <2>3, <2>4, <2>5 DEF ConfirmedConfiguration
<1>9. \/ ConfirmedConfiguration(ConfirmedRequests(g), declared[g], gateways'[g])
      \/ \E h \in Gateways, d \in Declarations :
           CompleteProvisioning(h, d) /\ gateways'[g] # gateways[g]
  BY <1>1, <1>4, <1>5, <1>6, <1>7 DEF Next
<1> QED
  BY <1>0, <1>8, <1>9, DeclarationsKept, MoreConfirmed

\* What consumer v has loaded after a step is confirmed.
LEMMA LoadedConfirmed ==
    ASSUME Structure, Confirmed, [Next]_vars, NEW v \in Workers, worker'[v].pc = "loaded"
    PROVE  LET g == dispatch'[CommandOf(v)'].gateway
           IN  /\ g \in Gateways
               /\ ConfirmedConfiguration(ConfirmedRequests(g), declared[g], worker'[v].gw)
<1> USE NullAssumption
<1>0. TypeOK /\ Kept
  BY StepKeeps DEF Structure
<1>1. /\ worker[v].pc \in {"saved", "loaded"} /\ worker'[v].msg = worker[v].msg
      /\ \/ worker'[v] = worker[v] /\ worker[v].pc = "loaded"
         \/ /\ gateways[dispatch[CommandOf(v)].gateway] # Null
            /\ worker'[v].gw = gateways[dispatch[CommandOf(v)].gateway]
  <2>1. CASE worker'[v] = worker[v]
    BY <2>1
  <2>2. CASE LoadGateway(v)
    <3>1. worker[v] \in WorkerState
      BY <1>0 DEF TypeOK
    <3>2. CASE Goto(v, "acking")
      BY <1>0, <3>2, GotoEffect DEF WorkerPC
    <3>3. CASE /\ gateways[dispatch[CommandOf(v)].gateway] # Null
               /\ worker' = [worker EXCEPT ![v].pc = "loaded",
                               ![v].gw = gateways[dispatch[CommandOf(v)].gateway]]
      <4>1. worker'[v] = [worker[v] EXCEPT !.pc = "loaded",
                               !.gw = gateways[dispatch[CommandOf(v)].gateway]]
        BY <1>0, <3>3 DEF TypeOK
      <4> QED
        BY <2>2, <3>1, <3>3, <4>1 DEF LoadGateway, WorkerState
    <3> QED
      BY <2>2, <3>2, <3>3 DEF LoadGateway
  <2>3. ASSUME NEW w \in Workers, Handle(w) \/ Fail(w)
        PROVE  worker'[v] = worker[v] \/ LoadGateway(v)
    <3>1. CASE w # v
      BY <1>0, <2>3, <3>1 DEF Handle, FindCommand, SaveStatus, LoadGateway, ApplyEffects,
         AckMessage, Fail, Goto, Release, TypeOK
    <3>2. CASE w = v
      <4>1. CASE Release(v)
        BY <1>0, <4>1, ReleaseEffect DEF Idle
      <4>2. ASSUME NEW p \in {"acking", "found", "saved"}, Goto(v, p) PROVE FALSE
        BY <1>0, <4>2, GotoEffect DEF WorkerPC
      <4>3. CASE ApplyEffects(v)
        <5>1. worker'[v] = [worker[v] EXCEPT !.pc = "acking", !.gw = Null]
          BY <1>0, <4>3 DEF ApplyEffects, TypeOK
        <5>2. worker[v] \in WorkerState
          BY <1>0 DEF TypeOK
        <5> QED
          BY <5>1, <5>2 DEF WorkerState
      <4> QED
        BY <2>3, <3>2, <4>1, <4>2, <4>3
        DEF Handle, FindCommand, SaveStatus, AfterStatus, AckMessage, Fail
    <3> QED
      BY <3>1, <3>2
  <2>4. ASSUME NEW w \in Workers, NEW m \in Reports, Deliver(w, m)
        PROVE  worker'[v] = worker[v]
    BY <1>0, <2>4 DEF Deliver, Idle, TypeOK
  <2>5. CASE UNCHANGED worker
    BY <2>1, <2>5
  <2> QED
    BY <2>1, <2>2, <2>3, <2>4, <2>5
    DEF Next, DispatchStep, SendCommand, QueueCommand, PublishToNats, DeviceStep, ReportOutcome,
        StreamStep, LoopStep, LoopEnds, Restart, LoseDelivery, ExpireMessage, EditorStep, EditorLoad, EditorSave,
        DeleteGateway, CompleteProvisioning, vars
<1> DEFINE c == CommandOf(v)
           g == dispatch[c].gateway
<1>2. /\ worker[v].msg \in Reports /\ stream[worker[v].msg] # Null
      /\ c \in CommandIds /\ dispatch[c] # Null
  BY <1>0, <1>1 DEF Structure, Holding, CommandOf, Got, DispatchedFirst, TypeOK
<1>3. CommandOf(v)' = c
  BY <1>0, <1>1, <1>2 DEF CommandOf, Got, Kept
<1>4. dispatch'[c].gateway = g /\ g \in Gateways
  BY <1>2, GatewayKept
<1>5. ConfirmedConfiguration(ConfirmedRequests(g), declared[g], worker'[v].gw)
  BY <1>1, <1>4 DEF Confirmed, ConfigurationIsConfirmed
<1> QED
  BY <1>3, <1>4, <1>5

\* Confirmed is an inductive invariant.
LEMMA ConfirmedStep == Structure /\ Confirmed /\ [Next]_vars => Confirmed'
<1> SUFFICES ASSUME Structure, Confirmed, [Next]_vars
             PROVE  Confirmed'
  OBVIOUS
<1>0. TypeOK
  BY DEF Structure
<1>1. ASSUME NEW g \in Gateways, gateways'[g] # Null
      PROVE  ConfirmedConfiguration(ConfirmedRequests(g)', declared'[g], gateways'[g])
  BY <1>0, <1>1, RowConfirmed, ConfirmationsKept, MoreConfirmed
<1>2. ASSUME NEW w \in Workers, worker'[w].pc = "loaded"
      PROVE  ConfirmedConfiguration(ConfirmedRequests(dispatch[CommandOf(w)].gateway)',
                                    declared[dispatch[CommandOf(w)].gateway]', worker'[w].gw)
  <2> DEFINE g == dispatch'[CommandOf(w)'].gateway
  <2>1. g \in Gateways /\ ConfirmedConfiguration(ConfirmedRequests(g), declared[g], worker'[w].gw)
    BY <1>2, LoadedConfirmed
  <2>2. PICK h \in Gateways : h = g
    BY <2>1
  <2>3. ConfirmedConfiguration(ConfirmedRequests(h)', declared'[h], worker'[w].gw)
    BY <1>0, <2>1, <2>2, ConfirmationsKept, DeclarationsKept, MoreConfirmed
  <2> QED
    BY <2>2, <2>3 DEF ConfirmedRequests
<1>3. ASSUME NEW e \in Editors, editor'[e] # Null
      PROVE  ConfirmedConfiguration(ConfirmedRequests(editor[e].gateway)',
                                    declared[editor[e].gateway]', editor'[e].gw)
  <2>1. PICK g \in Gateways :
          /\ editor'[e].gateway = g
          /\ ConfirmedConfiguration(ConfirmedRequests(g), declared[g], editor'[e].gw)
    <3>1. CASE editor'[e] = editor[e]
      BY <1>0, <1>3, <3>1 DEF Confirmed, TypeOK, EditorState
    <3>2. ASSUME NEW g \in Gateways, EditorLoad(e, g)
          PROVE  /\ editor'[e].gateway = g
                 /\ ConfirmedConfiguration(ConfirmedRequests(g), declared[g], editor'[e].gw)
      BY <1>0, <3>2 DEF EditorLoad, Confirmed, ConfigurationIsConfirmed, TypeOK
    <3>3. CASE EditorStep
      BY <1>0, <1>3, <3>1, <3>2, <3>3 DEF EditorStep, EditorLoad, EditorSave, TypeOK
    <3>4. CASE UNCHANGED editor
      BY <3>1, <3>4
    <3> QED
      BY <3>3, <3>4
      DEF Next, DispatchStep, SendCommand, QueueCommand, PublishToNats, DeviceStep, ReportOutcome,
          StreamStep, LoopStep, LoopEnds, Restart, Deliver, LoseDelivery, ExpireMessage, Handle, FindCommand, SaveStatus,
          LoadGateway, ApplyEffects, AckMessage, Fail, DeleteGateway, CompleteProvisioning, vars
  <2>2. ConfirmedConfiguration(ConfirmedRequests(g)', declared'[g], editor'[e].gw)
    BY <1>0, <2>1, ConfirmationsKept, DeclarationsKept, MoreConfirmed
  <2> QED
    BY <2>1, <2>2 DEF ConfirmedRequests
<1> QED
  BY <1>1, <1>2, <1>3 DEF Confirmed, ConfigurationIsConfirmed

\* The configuration a gateway's row shows was confirmed by that gateway, or
\* is the factory one (command-writing.persistence applyAckedCommandEffects,
\* gateways.persistence updateGatewayRuntimeStatus).
THEOREM ConfigurationsConfirmed == Spec => []ConfigurationIsConfirmed
<1>1. Init => Structure /\ Confirmed
  <2> SUFFICES ASSUME Init PROVE Confirmed
    BY StructureInit
  <2>1. \A g \in Gateways : ConfirmedConfiguration(ConfirmedRequests(g), declared[g], gateways[g])
    BY DEF Init, FactoryRow, ConfirmedConfiguration
  <2> QED
    BY <2>1 DEF Init, Idle, Confirmed, ConfigurationIsConfirmed
<1>2. Structure /\ Confirmed /\ [Next]_vars => Structure' /\ Confirmed'
  BY StructureStep, ConfirmedStep
<1>3. Confirmed => ConfigurationIsConfirmed
  BY DEF Confirmed
<1> QED
  BY <1>1, <1>2, <1>3, PTL DEF Spec

-----------------------------------------------------------------------------
(* Acknowledgements.                                                       *)

\* A gateway or a queued command whose row is gone went by a deletion.
GoneMeansDeleted ==
    /\ \A g \in Gateways : gateways[g] = Null => g \in deleted
    /\ \A c \in CommandIds :
         dispatch[c] # Null /\ (dispatch[c].pc = "queued" \/ c \in published) =>
             commands[c] # Null \/ dispatch[c].gateway \in deleted

\* The effect that report m confirmed is saved, or its gateway was deleted.
Settled(m) ==
    LET c == stream[m].cmd
    IN  NormalizeStatus(stream[m].raw) = "ACK" /\ HasEffect(dispatch[c].request) =>
            c \in applied \/ dispatch[c].gateway \in deleted

\* Every report that is acknowledged, or is about to be, is settled.
AckOrder ==
    /\ GoneMeansDeleted
    /\ AckedMeansApplied
    /\ \A w \in Workers : worker[w].pc = "acking" => Settled(worker[w].msg)

\* Histories only grow.
LEMMA HistoriesGrow ==
    [Next]_vars => applied \subseteq applied' /\ deleted \subseteq deleted'
BY DEF Next, DispatchStep, SendCommand, QueueCommand, PublishToNats, DeviceStep, ReportOutcome,
       StreamStep, LoopStep, LoopEnds, Restart, Deliver, LoseDelivery, ExpireMessage, Handle, FindCommand, SaveStatus,
       LoadGateway, ApplyEffects, AckMessage, Fail, EditorStep, EditorLoad, EditorSave,
       DeleteGateway, CompleteProvisioning, vars

\* A settled report stays settled.
LEMMA SettledKept ==
    ASSUME Structure, [Next]_vars, NEW m \in Reports, stream[m] # Null, Settled(m)
    PROVE  Settled(m)'
<1>1. stream[m].cmd \in CommandIds /\ dispatch[stream[m].cmd] # Null
  BY DEF Structure, TypeOK, DispatchedFirst
<1>2. /\ stream'[m].cmd = stream[m].cmd /\ stream'[m].raw = stream[m].raw
      /\ dispatch'[stream[m].cmd].request = dispatch[stream[m].cmd].request
      /\ dispatch'[stream[m].cmd].gateway = dispatch[stream[m].cmd].gateway
  BY <1>1, StepKeeps DEF Kept
<1> QED
  BY <1>2, HistoriesGrow DEF Settled

\* Rows go only when a gateway is deleted, and commands that are queued have
\* theirs.
LEMMA GoneStep == Structure /\ GoneMeansDeleted /\ [Next]_vars => GoneMeansDeleted'
<1> SUFFICES ASSUME Structure, GoneMeansDeleted, [Next]_vars
             PROVE  GoneMeansDeleted'
  OBVIOUS
<1> USE NullAssumption
<1>0. TypeOK
  BY DEF Structure
<1>1. ASSUME NEW g \in Gateways, gateways'[g] = Null
      PROVE  g \in deleted'
  <2>1. CASE gateways[g] = Null
    BY <2>1, HistoriesGrow DEF GoneMeansDeleted
  <2>2. CASE gateways[g] # Null
    BY <1>1, <2>2, RowStays DEF DeleteGateway
  <2> QED
    BY <2>1, <2>2
<1>2. ASSUME NEW c \in CommandIds, dispatch'[c] # Null,
             dispatch'[c].pc = "queued" \/ c \in published'
      PROVE  commands'[c] # Null \/ dispatch'[c].gateway \in deleted'
  <2>1. CASE dispatch[c] # Null /\ (dispatch[c].pc = "queued" \/ c \in published)
    <3>1. dispatch'[c].gateway = dispatch[c].gateway
      BY <2>1, GatewayKept
    <3>2. CASE dispatch[c].gateway \in deleted
      BY <3>1, <3>2, HistoriesGrow
    <3>3. CASE commands[c] # Null /\ commands'[c] = Null
      <4>1. PICK g \in Gateways : DeleteGateway(g)
        <5>1. ASSUME NEW w \in Workers, SaveStatus(w) PROVE FALSE
          <6>1. NormalizeStatus(Got(w).raw) # Null
            BY <5>1 DEF SaveStatus, Structure, Holding
          <6> QED
            BY <1>0, <3>3, <5>1, <6>1 DEF SaveStatus, TypeOK
        <5>2. ASSUME NEW d \in CommandIds, QueueCommand(d) PROVE FALSE
          BY <1>0, <3>3, <5>2 DEF QueueCommand, TypeOK, CommandStatuses
        <5> QED
          BY <3>3, <5>1, <5>2
          DEF Next, DispatchStep, SendCommand, PublishToNats, DeviceStep, ReportOutcome,
              StreamStep, LoopStep, LoopEnds, Restart, Deliver, LoseDelivery, ExpireMessage, Handle, FindCommand,
              LoadGateway, ApplyEffects, AckMessage, Fail, EditorStep, EditorLoad, EditorSave,
          CompleteProvisioning, vars
      <4>2. dispatch[c].gateway = g
        BY <1>0, <3>3, <4>1 DEF DeleteGateway, TypeOK
      <4> QED
        BY <3>1, <4>1, <4>2 DEF DeleteGateway
    <3> QED
      BY <2>1, <3>2, <3>3 DEF GoneMeansDeleted
  <2>2. CASE ~ (dispatch[c] # Null /\ (dispatch[c].pc = "queued" \/ c \in published))
    <3>1. ASSUME NEW d \in CommandIds, QueueCommand(d) PROVE commands'[c] # Null
      <4>1. dispatch[d] \in Dispatch
        BY <1>0, <3>1 DEF QueueCommand, TypeOK
      <4>2. CASE d # c
        BY <1>0, <1>2, <2>2, <3>1, <4>2 DEF QueueCommand, TypeOK
      <4>3. CASE d = c /\ dispatch' = [dispatch EXCEPT ![d].pc = "closed"]
        <5>1. dispatch'[c] = [dispatch[c] EXCEPT !.pc = "closed"]
          BY <1>0, <4>3 DEF TypeOK
        <5>2. dispatch'[c].pc = "closed" /\ published' = published
          BY <3>1, <4>1, <4>3, <5>1 DEF QueueCommand, Dispatch
        <5>3. dispatch[c] # Null
          BY <3>1, <4>3 DEF QueueCommand
        <5> QED
          BY <1>2, <2>2, <5>2, <5>3
      <4>4. CASE d = c /\ commands' = [commands EXCEPT ![d] = "QUEUED"]
        BY <1>0, <4>4 DEF TypeOK, CommandStatuses
      <4> QED
        BY <3>1, <4>2, <4>3, <4>4 DEF QueueCommand
    <3>2. ASSUME NEW d \in CommandIds, PublishToNats(d) PROVE FALSE
      <4>1. CASE d # c
        BY <1>0, <1>2, <2>2, <3>2, <4>1 DEF PublishToNats, TypeOK
      <4>2. CASE d = c
        BY <2>2, <3>2, <4>2 DEF PublishToNats
      <4> QED
        BY <4>1, <4>2
    <3>3. ASSUME NEW d \in CommandIds, NEW g \in Gateways, NEW r \in Requests, SendCommand(d, g, r)
          PROVE  FALSE
      <4>1. c \notin published
        BY <2>2, <3>3 DEF SendCommand, Structure, DispatchedFirst
      <4>2. c # d
        BY <1>0, <1>2, <3>3, <4>1 DEF SendCommand, TypeOK
      <4> QED
        BY <1>0, <1>2, <2>2, <3>3, <4>1, <4>2 DEF SendCommand, TypeOK
    <3>4. CASE dispatch' = dispatch /\ published' = published
      BY <1>2, <2>2, <3>4
    <3> QED
      BY <3>1, <3>2, <3>3, <3>4
      DEF Next, DispatchStep, DeviceStep, ReportOutcome,
          StreamStep, LoopStep, LoopEnds, Restart, Deliver, LoseDelivery, ExpireMessage, Handle, FindCommand, SaveStatus,
          LoadGateway, ApplyEffects, AckMessage, Fail, EditorStep, EditorLoad, EditorSave,
          DeleteGateway, CompleteProvisioning, vars
  <2> QED
    BY <2>1, <2>2
<1> QED
  BY <1>1, <1>2 DEF GoneMeansDeleted

\* A consumer about to acknowledge holds a settled report: the command's row
\* or gateway was deleted, nothing was to be applied, or it is applied.
LEMMA AckingSettled ==
    ASSUME Structure, AckOrder, [Next]_vars, NEW w \in Workers, worker'[w].pc = "acking"
    PROVE  Settled(worker[w].msg)'
<1> USE NullAssumption
<1> DEFINE m == worker[w].msg
           c == CommandOf(w)
<1>0. TypeOK /\ Kept
  BY StepKeeps DEF Structure
<1>1. CASE worker'[w] = worker[w]
  <2>1. m \in Reports /\ stream[m] # Null /\ Settled(m)
    BY <1>1 DEF Structure, Holding, AckOrder
  <2> QED
    BY <1>1, <2>1, SettledKept DEF Settled
<1>2. CASE worker[w].pc # "idle" /\ worker'[w].msg = m /\ Settled(m)
  <2>1. m \in Reports /\ stream[m] # Null
    BY <1>2 DEF Structure, Holding
  <2> QED
    BY <1>2, <2>1, SettledKept DEF Settled
<1>3. CASE FindCommand(w) \/ SaveStatus(w) \/ LoadGateway(w)
  <2>1. /\ m \in Reports /\ stream[m] # Null /\ c = stream[m].cmd
        /\ c \in published /\ c \in CommandIds /\ dispatch[c] # Null
    BY <1>0, <1>3 DEF FindCommand, SaveStatus, LoadGateway, Structure, Holding, CommandOf, Got,
       DispatchedFirst, TypeOK
  <2>2. dispatch[c].gateway \in Gateways
    BY <2>1, GatewayKept
  <2>3. ASSUME NEW p \in {"found", "acking", "saved"}, Goto(w, p)
        PROVE  p = "acking" /\ worker'[w].msg = m
    BY <1>0, <2>3, GotoEffect DEF WorkerPC
  <2>4. CASE Release(w)
    BY <1>0, <2>4, ReleaseEffect DEF Idle
  <2>5. CASE FindCommand(w)
    <3>1. CASE commands[c] = Null /\ Goto(w, "acking")
      BY <1>2, <2>1, <2>3, <2>5, <3>1 DEF FindCommand, AckOrder, GoneMeansDeleted, Settled
    <3>2. CASE commands[c] # Null /\ Goto(w, "found")
      BY <2>3, <3>2
    <3> QED
      BY <2>4, <2>5, <3>1, <3>2 DEF FindCommand
  <2>6. CASE SaveStatus(w)
    <3>1. CASE Goto(w, AfterStatus(NormalizeStatus(Got(w).raw)))
      BY <1>2, <2>1, <2>3, <2>6, <3>1 DEF SaveStatus, AfterStatus, Got, Settled
    <3> QED
      BY <2>4, <2>6, <3>1 DEF SaveStatus
  <2>7. CASE LoadGateway(w)
    <3>1. CASE Goto(w, "acking") /\ ~ (gateways[dispatch[c].gateway] # Null
                                       /\ HasEffect(dispatch[c].request))
      BY <1>2, <2>1, <2>2, <2>3, <2>7, <3>1 DEF LoadGateway, AckOrder, GoneMeansDeleted, Settled
    <3>2. CASE worker' = [worker EXCEPT ![w].pc = "loaded",
                                        ![w].gw = gateways[dispatch[c].gateway]]
      <4>1. worker'[w] = [worker[w] EXCEPT !.pc = "loaded", !.gw = gateways[dispatch[c].gateway]]
        BY <1>0, <3>2 DEF TypeOK
      <4>2. worker[w] \in WorkerState
        BY <1>0 DEF TypeOK
      <4> QED
        BY <4>1, <4>2 DEF WorkerState
    <3> QED
      BY <2>7, <3>1, <3>2 DEF LoadGateway
  <2> QED
    BY <1>3, <2>5, <2>6, <2>7
<1>4. CASE ApplyEffects(w)
  <2>1. /\ m \in Reports /\ stream[m] # Null
        /\ stream' = stream /\ stream[m].cmd \in applied'
    BY <1>4 DEF ApplyEffects, CommandOf, Got, Structure, Holding
  <2>2. worker'[w] = [worker[w] EXCEPT !.pc = "acking", !.gw = Null]
    BY <1>0, <1>4 DEF ApplyEffects, TypeOK
  <2>3. worker[w] \in WorkerState
    BY <1>0 DEF TypeOK
  <2>4. worker'[w].msg = m
    BY <2>2, <2>3 DEF WorkerState
  <2> QED
    BY <2>1, <2>4 DEF Settled
<1>5. CASE AckMessage(w) \/ Fail(w)
  BY <1>0, <1>5, ReleaseEffect DEF AckMessage, Fail, Idle
<1>6. ASSUME NEW v \in Workers, v # w, Handle(v) \/ Fail(v)
      PROVE  worker'[w] = worker[w]
  BY <1>0, <1>6 DEF Handle, FindCommand, SaveStatus, LoadGateway, ApplyEffects,
     AckMessage, Fail, Goto, Release, TypeOK
<1>7. ASSUME NEW v \in Workers, NEW k \in Reports, Deliver(v, k)
      PROVE  worker'[w] = worker[w]
  BY <1>0, <1>7 DEF Deliver, Idle, TypeOK
<1>8. CASE UNCHANGED worker
  BY <1>1, <1>8
<1>9. CASE \E v \in Workers : Handle(v) \/ Fail(v)
  BY <1>1, <1>3, <1>4, <1>5, <1>6, <1>9 DEF Handle
<1> QED
  BY <1>1, <1>7, <1>8, <1>9
  DEF Next, DispatchStep, SendCommand, QueueCommand, PublishToNats, DeviceStep, ReportOutcome,
      StreamStep, LoopStep, LoopEnds, Restart, LoseDelivery, ExpireMessage, EditorStep, EditorLoad, EditorSave,
      DeleteGateway, CompleteProvisioning, vars

\* AckOrder is an inductive invariant.
LEMMA AckOrderStep == Structure /\ AckOrder /\ [Next]_vars => AckOrder'
<1> SUFFICES ASSUME Structure, AckOrder, [Next]_vars
             PROVE  AckOrder'
  OBVIOUS
<1>1. GoneMeansDeleted'
  BY GoneStep DEF AckOrder
<1>2. \A w \in Workers : (worker[w].pc = "acking" => Settled(worker[w].msg))'
  BY AckingSettled
<1>3. ASSUME NEW m \in Reports, stream'[m] # Null, stream'[m].state = "acked"
      PROVE  NormalizeStatus(stream'[m].raw) # Null /\ Settled(m)'
  <2>1. /\ stream[m] # Null /\ Settled(m)
        /\ NormalizeStatus(stream[m].raw) # Null
    <3>1. CASE stream[m] # Null /\ stream[m].state = "acked"
      BY <3>1 DEF AckOrder, AckedMeansApplied, Settled
    <3>2. CASE \E w \in Workers : worker[w].pc = "acking" /\ worker[w].msg = m
      BY <3>2 DEF AckOrder, Structure, Holding, Got
    <3> QED
      BY <1>3, <3>1, <3>2, OnlyAcked
  <2> QED
    BY <2>1, SettledKept, StepKeeps DEF Kept
<1>4. AckedMeansApplied'
  BY <1>3 DEF AckedMeansApplied, Settled
<1> QED
  BY <1>1, <1>2, <1>4 DEF AckOrder

\* No message is acknowledged before the effect it confirms is saved, for
\* any number of deliveries, consumers, failures and deletions
\* (commands-ack.consumer processMessage).
THEOREM AcksFollowEffects == Spec => []AckedMeansApplied
<1>1. Init => Structure /\ AckOrder
  <2> SUFFICES ASSUME Init PROVE AckOrder
    BY StructureInit
  <2>1. \A g \in Gateways : gateways[g] # Null
    BY NullAssumption, StructureInit, DataAssumption
    DEF Init, FactoryRow, GatewayRow, Metadata, GatewayStatuses
  <2> QED
    BY <2>1 DEF Init, Idle, AckOrder, GoneMeansDeleted, AckedMeansApplied
<1>2. Structure /\ AckOrder /\ [Next]_vars => Structure' /\ AckOrder'
  BY StructureStep, AckOrderStep
<1>3. AckOrder => AckedMeansApplied
  BY DEF AckOrder
<1> QED
  BY <1>1, <1>2, <1>3, PTL DEF Spec

=============================================================================
