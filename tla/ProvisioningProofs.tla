------------------------- MODULE ProvisioningProofs -------------------------
(***************************************************************************)
(* Proofs about Provisioning for every value of its constants.             *)
(***************************************************************************)
EXTENDS Provisioning, TLAPS

\* Initially every table is empty.
LEMMA TypeInit == Init => TypeOK
BY DEF Init, TypeOK

\* Each step leaves every variable in its type.
LEMMA TypeStep == TypeOK /\ [Next]_vars => TypeOK'
<1> SUFFICES ASSUME TypeOK, [Next]_vars PROVE TypeOK'
  OBVIOUS
<1> USE NullAssumption DEF tables, histories
<1>1. ASSUME NEW g \in Gateways, AddGateway(g) PROVE TypeOK'
  <2>1. [provisioned |-> FALSE, hash |-> TRUE, meta |-> FALSE] \in GatewayRow
    BY DEF GatewayRow
  <2> QED
    BY <1>1, <2>1 DEF AddGateway, TypeOK
<1>2. ASSUME NEW g \in Gateways, AddMetadata(g) PROVE TypeOK'
  <2>1. gateways' \in [Gateways -> GatewayRow \cup {Null}]
    <3>1. CASE gateways' = gateways
      BY <3>1 DEF TypeOK
    <3>2. CASE gateways[g] # Null /\ gateways' = [gateways EXCEPT ![g].meta = TRUE]
      <4>1. gateways[g] \in GatewayRow
        BY <3>2 DEF TypeOK
      <4>2. [gateways[g] EXCEPT !.meta = TRUE] \in GatewayRow
        BY <4>1 DEF GatewayRow
      <4> QED
        BY <3>2, <4>2 DEF TypeOK
    <3> QED
      BY <1>2, <3>1, <3>2 DEF AddMetadata
  <2> QED
    BY <1>2, <2>1 DEF AddMetadata, TypeOK
<1>3. ASSUME NEW g \in Gateways, DeleteGateway(g) PROVE TypeOK'
  BY <1>3 DEF DeleteGateway, TypeOK
<1>4. ASSUME NEW v \in Validations, NEW g \in Gateways, FindByFactoryId(v, g) PROVE TypeOK'
  <2> DEFINE refused == IF gateways[g] = Null THEN "INVALID"
                        ELSE IF gateways[g].provisioned THEN "ALREADY_PROVISIONED"
                        ELSE IF ~ gateways[g].hash THEN "INVALID"
                        ELSE "none"
             pc == IF refused = "none" THEN "comparing" ELSE "done"
             late == g \in completed \cup deleted
             new == [pc |-> pc, gateway |-> g, late |-> late, verdict |-> refused]
  <2>1. validation' = [validation EXCEPT ![v] = new]
    BY <1>4 DEF FindByFactoryId
  <2>2. refused \in Verdicts /\ pc \in {"comparing", "done"}
    BY DEF Verdicts
  <2>3. late \in BOOLEAN
    OBVIOUS
  <2> HIDE DEF refused, pc, late
  <2>4. new \in Validation
    BY <2>2, <2>3 DEF Validation
  <2> QED
    BY <1>4, <2>1, <2>4 DEF FindByFactoryId, TypeOK
<1>5. ASSUME NEW v \in Validations, CompareKey(v) PROVE TypeOK'
  <2>1. PICK verdict \in {"valid", "INVALID"} :
          validation' = [validation EXCEPT ![v].pc = "done", ![v].verdict = verdict]
    BY <1>5 DEF CompareKey
  <2>2. validation[v] \in Validation
    BY <1>5 DEF CompareKey, TypeOK
  <2>3. [validation[v] EXCEPT !.pc = "done", !.verdict = verdict] \in Validation
    BY <2>2 DEF Validation, Verdicts
  <2>4. validation' = [validation EXCEPT ![v] = [validation[v] EXCEPT !.pc = "done", !.verdict = verdict]]
    BY <2>1 DEF TypeOK
  <2> QED
    BY <1>5, <2>3, <2>4 DEF CompareKey, TypeOK
<1>6. ASSUME NEW a \in Calls, NEW g \in Gateways, NEW version \in Versions,
             CheckGateway(a, g, version)
      PROVE  TypeOK'
  <2>1. PICK pc \in {"checked", "done"}, reply \in Replies : Started(a, g, version, pc, reply)
    BY <1>6 DEF CheckGateway, ErrorReply, Replies
  <2>2. [pc |-> pc, gateway |-> g, version |-> version, reply |-> reply] \in Call
    BY DEF Call
  <2> QED
    BY <1>6, <2>1, <2>2 DEF CheckGateway, Started, TypeOK
<1>7. ASSUME NEW a \in Calls, NEW reply \in {"success", "lost", "INTERNAL"}, Pending(a),
             call' = [call EXCEPT ![a].pc = "done", ![a].reply = reply]
      PROVE  call' \in [Calls -> Call \cup {Null}]
  <2>1. call[a] \in Call
    BY <1>7 DEF Pending, TypeOK
  <2>2. [call[a] EXCEPT !.pc = "done", !.reply = reply] \in Call
    BY <2>1 DEF Call, Replies
  <2>3. call' = [call EXCEPT ![a] = [call[a] EXCEPT !.pc = "done", !.reply = reply]]
    BY <1>7 DEF TypeOK
  <2> QED
    BY <2>2, <2>3 DEF TypeOK
<1>8. ASSUME NEW a \in Calls, CommitCompletion(a) PROVE TypeOK'
  <2>1. call[a] \in Call /\ Pending(a)
    BY <1>8 DEF CommitCompletion, Pending, TypeOK
  <2> DEFINE g == call[a].gateway
  <2>2. g \in Gateways /\ [gateway |-> g, version |-> call[a].version] \in KeyRow
    BY <2>1 DEF Call, KeyRow
  <2>3. gateways[g] \in GatewayRow
    BY <1>8, <2>2 DEF CommitCompletion, TypeOK
  <2>4. Onboarded(gateways[g]) \in GatewayRow
    BY <2>3 DEF Onboarded, GatewayRow
  <2>5. call' \in [Calls -> Call \cup {Null}]
    BY <1>7, <1>8, <2>1 DEF CommitCompletion
  <2> QED
    BY <1>8, <2>2, <2>4, <2>5 DEF CommitCompletion, TypeOK
<1>9. ASSUME NEW a \in Calls, AbortCompletion(a) PROVE TypeOK'
  <2>1. call' \in [Calls -> Call \cup {Null}]
    BY <1>7, <1>9 DEF AbortCompletion
  <2> QED
    BY <1>9, <2>1 DEF AbortCompletion, TypeOK
<1>10. ASSUME NEW e \in Editors, NEW g \in Gateways, EditorLoad(e, g) PROVE TypeOK'
  <2>1. [gateway |-> g, provisioned |-> gateways[g].provisioned] \in Snapshot
    BY <1>10 DEF EditorLoad, TypeOK, GatewayRow, Snapshot
  <2> QED
    BY <1>10, <2>1 DEF EditorLoad, TypeOK
<1>11. ASSUME NEW e \in Editors, EditorSave(e) PROVE TypeOK'
  <2>1. editor[e].gateway \in Gateways /\ editor[e].provisioned \in BOOLEAN
    BY <1>11 DEF EditorSave, TypeOK, Snapshot
  <2>2. SavedColumns(e) \in GatewayRow
    BY <2>1 DEF SavedColumns, GatewayRow, TypeOK
  <2> QED
    BY <1>11, <2>1, <2>2 DEF EditorSave, TypeOK
<1>12. CASE UNCHANGED vars
  BY <1>12 DEF vars, TypeOK
<1> QED
  BY <1>1, <1>2, <1>3, <1>4, <1>5, <1>6, <1>8, <1>9, <1>10, <1>11, <1>12
  DEF Next, AdminStep, ValidateStep, CompleteStep, EditorStep

\* Every table, call and snapshot has its type (gateway.entity, key.entity,
\* keys.service).
THEOREM ProvisioningTypes == Spec => []TypeOK
BY TypeInit, TypeStep, PTL DEF Spec

-----------------------------------------------------------------------------
(* Updates of a gateway's row.                                             *)

\* What each action that writes gateways leaves in the rows.
LEMMA RowAfter ==
    ASSUME TypeOK, [Next]_vars, NEW g \in Gateways, gateways'[g] # gateways[g]
    PROVE  \/ /\ AddGateway(g)
              /\ gateways'[g] = [provisioned |-> FALSE, hash |-> TRUE, meta |-> FALSE]
           \/ /\ AddMetadata(g)
              /\ gateways[g] # Null
              /\ gateways'[g] = [gateways[g] EXCEPT !.meta = TRUE]
           \/ /\ DeleteGateway(g)
              /\ gateways'[g] = Null
           \/ /\ \E a \in Calls : CommitCompletion(a) /\ call[a].gateway = g
              /\ gateways[g] # Null
              /\ gateways'[g] = Onboarded(gateways[g])
           \/ \E e \in Editors : /\ EditorSave(e) /\ editor[e].gateway = g
                                  /\ gateways'[g] = SavedColumns(e)
<1> USE DEF tables, histories
<1>1. CASE ValidateStep \/ UNCHANGED vars
  BY <1>1 DEF ValidateStep, FindByFactoryId, CompareKey, vars
<1>2. ASSUME NEW h \in Gateways, AddGateway(h)
      PROVE  /\ h = g
             /\ gateways'[g] = [provisioned |-> FALSE, hash |-> TRUE, meta |-> FALSE]
  BY <1>2 DEF AddGateway, TypeOK
<1>3. ASSUME NEW h \in Gateways, AddMetadata(h)
      PROVE  /\ h = g /\ gateways[g] # Null
             /\ gateways'[g] = [gateways[g] EXCEPT !.meta = TRUE]
  BY <1>3 DEF AddMetadata, TypeOK
<1>4. ASSUME NEW h \in Gateways, DeleteGateway(h)
      PROVE  h = g /\ gateways'[g] = Null
  BY <1>4 DEF DeleteGateway, TypeOK
<1>5. CASE AdminStep
  <2>1. PICK h \in Gateways : AddGateway(h) \/ AddMetadata(h) \/ DeleteGateway(h)
    BY <1>5 DEF AdminStep
  <2>2. CASE AddGateway(h)
    BY <1>2, <2>2
  <2>3. CASE AddMetadata(h)
    BY <1>3, <2>3
  <2>4. CASE DeleteGateway(h)
    BY <1>4, <2>4
  <2> QED
    BY <2>1, <2>2, <2>3, <2>4
<1>6. ASSUME NEW a \in Calls, CommitCompletion(a)
      PROVE  /\ call[a].gateway = g /\ gateways[g] # Null
             /\ gateways'[g] = Onboarded(gateways[g])
  BY <1>6 DEF CommitCompletion, TypeOK
<1>7. CASE CompleteStep
  BY <1>6, <1>7 DEF CompleteStep, CheckGateway, AbortCompletion
<1>8. ASSUME NEW e \in Editors, EditorSave(e)
      PROVE  editor[e].gateway = g /\ gateways'[g] = SavedColumns(e)
  BY <1>8 DEF EditorSave, TypeOK
<1>9. CASE EditorStep
  BY <1>8, <1>9 DEF EditorStep, EditorLoad
<1> QED
  BY <1>1, <1>5, <1>7, <1>9 DEF Next

\* The histories only grow.
LEMMA HistoriesGrow ==
    [Next]_vars => completed \subseteq completed' /\ deleted \subseteq deleted'
                   /\ reset \subseteq reset' /\ overlapped \subseteq overlapped'
BY DEF Next, AdminStep, AddGateway, AddMetadata, DeleteGateway, ValidateStep, FindByFactoryId,
       CompareKey, CompleteStep, CheckGateway, Started, CommitCompletion, AbortCompletion,
       EditorStep, EditorLoad, EditorSave, tables, histories, vars

-----------------------------------------------------------------------------
(* The factory key.                                                        *)

\* A gateway that has been onboarded or deleted has no hash, whoever saves
\* its row, and a late validation is refused when it reads the row.
Spent ==
    /\ \A g \in completed : gateways[g] # Null \/ g \in deleted
    /\ \A g \in completed \cup deleted : gateways[g] # Null => ~ gateways[g].hash
    /\ \A v \in Validations : validation[v] # Null /\ validation[v].late =>
         /\ validation[v].pc = "done"
         /\ validation[v].verdict \in {"INVALID", "ALREADY_PROVISIONED"}

\* Spent is inductive.
LEMMA SpentStep == TypeOK /\ Spent /\ [Next]_vars => Spent'
<1> SUFFICES ASSUME TypeOK, Spent, [Next]_vars PROVE Spent'
  OBVIOUS
<1> USE NullAssumption
<1>0. TypeOK'
  BY TypeStep
<1>1. ASSUME NEW g \in Gateways, gateways'[g] = Null, gateways[g] # Null
      PROVE  g \in deleted'
  <2>1. ASSUME NEW row \in GatewayRow PROVE row # Null
    OBVIOUS
  <2>2. CASE DeleteGateway(g)
    BY <2>2 DEF DeleteGateway
  <2>3. CASE gateways'[g] = [gateways[g] EXCEPT !.meta = TRUE] \/ gateways'[g] = Onboarded(gateways[g])
    <3>1. gateways[g] \in GatewayRow
      BY <1>1 DEF TypeOK
    <3> QED
      BY <1>1, <2>1, <2>3, <3>1 DEF GatewayRow, Onboarded
  <2>4. ASSUME NEW e \in Editors, EditorSave(e), gateways'[g] = SavedColumns(e)
        PROVE  FALSE
    <3>1. editor[e].provisioned \in BOOLEAN
      BY <2>4 DEF EditorSave, TypeOK, Snapshot
    <3>2. SavedColumns(e) \in GatewayRow
      BY <3>1, <2>4 DEF SavedColumns, GatewayRow, TypeOK, EditorSave, Snapshot
    <3> QED
      BY <1>1, <2>1, <2>4, <3>2
  <2>5. CASE gateways'[g] = [provisioned |-> FALSE, hash |-> TRUE, meta |-> FALSE]
    BY <1>1, <2>1, <2>5 DEF GatewayRow
  <2> QED
    BY <1>1, <2>2, <2>3, <2>4, <2>5, RowAfter
<1>2. ASSUME NEW g \in completed'
      PROVE  gateways'[g] # Null \/ g \in deleted'
  <2>1. CASE g \in completed
    BY <1>1, <2>1, HistoriesGrow DEF Spent, TypeOK
  <2>2. CASE g \notin completed
    <3>1. PICK a \in Calls : CommitCompletion(a) /\ call[a].gateway = g
      BY <1>2, <2>2 DEF Next, AdminStep, AddGateway, AddMetadata, DeleteGateway, ValidateStep,
         FindByFactoryId, CompareKey, CompleteStep, CheckGateway, Started, CommitCompletion,
         AbortCompletion, EditorStep, EditorLoad, EditorSave, tables, histories, vars
    <3>2. g \in Gateways /\ gateways[g] # Null
      BY <1>0, <1>2, <3>1 DEF CommitCompletion, TypeOK
    <3> QED
      BY <1>1, <3>2
  <2> QED
    BY <2>1, <2>2
<1>3. ASSUME NEW g \in completed' \cup deleted', gateways'[g] # Null
      PROVE  ~ gateways'[g].hash
  <2>0. g \in Gateways
    BY <1>0, <1>3 DEF TypeOK
  <2>1. CASE g \notin completed \cup deleted
    <3>1. (\E a \in Calls : CommitCompletion(a) /\ call[a].gateway = g) \/ DeleteGateway(g)
      BY <1>3, <2>1 DEF Next, AdminStep, AddGateway, AddMetadata, DeleteGateway, ValidateStep,
         FindByFactoryId, CompareKey, CompleteStep, CheckGateway, Started, CommitCompletion,
         AbortCompletion, EditorStep, EditorLoad, EditorSave, tables, histories, vars
    <3>2. ~ DeleteGateway(g)
      BY <1>3, <2>0 DEF DeleteGateway, TypeOK
    <3>3. gateways[g] # Null /\ gateways'[g] = Onboarded(gateways[g])
      <4>1. PICK a \in Calls : CommitCompletion(a) /\ call[a].gateway = g
        BY <3>1, <3>2
      <4>2. gateways' = [gateways EXCEPT ![g] = Onboarded(gateways[g])] /\ gateways[g] # Null
        BY <4>1 DEF CommitCompletion
      <4> QED
        BY <2>0, <4>2 DEF TypeOK
    <3>4. gateways[g] \in GatewayRow
      BY <2>0, <3>3 DEF TypeOK
    <3> QED
      BY <3>3, <3>4 DEF Onboarded, GatewayRow
  <2>2. CASE g \in completed \cup deleted /\ gateways'[g] = gateways[g]
    BY <1>3, <2>2 DEF Spent
  <2>3. CASE g \in completed \cup deleted /\ gateways'[g] # gateways[g]
    <3>1. ~ AddGateway(g)
      BY <2>3 DEF AddGateway, Spent
    <3>2. CASE gateways[g] # Null /\ gateways'[g] = [gateways[g] EXCEPT !.meta = TRUE]
      <4>1. gateways[g] \in GatewayRow /\ ~ gateways[g].hash
        BY <2>0, <2>3, <3>2 DEF TypeOK, Spent
      <4> QED
        BY <3>2, <4>1 DEF GatewayRow
    <3>3. CASE gateways[g] # Null /\ gateways'[g] = Onboarded(gateways[g])
      <4>1. gateways[g] \in GatewayRow
        BY <2>0, <3>3 DEF TypeOK
      <4> QED
        BY <3>3, <4>1 DEF GatewayRow, Onboarded
    <3>4. ASSUME NEW e \in Editors, editor[e].gateway = g, gateways'[g] = SavedColumns(e)
          PROVE  ~ gateways'[g].hash
      <4> DEFINE kept == gateways[g] # Null /\ gateways[g].hash
      <4>1. kept = FALSE
        BY <2>3 DEF Spent
      <4>2. SavedColumns(e) = [provisioned |-> editor[e].provisioned, hash |-> kept, meta |-> TRUE]
        BY <3>4, Zenon DEF SavedColumns
      <4> HIDE DEF kept
      <4> QED
        BY <3>4, <4>1, <4>2
    <3>5. ~ DeleteGateway(g)
      BY <1>3, <2>0 DEF DeleteGateway, TypeOK
    <3>6. \/ gateways[g] # Null /\ gateways'[g] = [gateways[g] EXCEPT !.meta = TRUE]
          \/ gateways[g] # Null /\ gateways'[g] = Onboarded(gateways[g])
          \/ \E e \in Editors : editor[e].gateway = g /\ gateways'[g] = SavedColumns(e)
      BY <2>0, <2>3, <3>1, <3>5, RowAfter
    <3>7. CASE \E e \in Editors : editor[e].gateway = g /\ gateways'[g] = SavedColumns(e)
      <4>1. PICK e \in Editors : editor[e].gateway = g /\ gateways'[g] = SavedColumns(e)
        BY <3>7
      <4> QED
        BY <3>4, <4>1
    <3> QED
      BY <3>2, <3>3, <3>6, <3>7
  <2> QED
    BY <2>1, <2>2, <2>3
<1>4. ASSUME NEW v \in Validations, validation'[v] # Null, validation'[v].late
      PROVE  /\ validation'[v].pc = "done"
             /\ validation'[v].verdict \in {"INVALID", "ALREADY_PROVISIONED"}
  <2>1. CASE validation'[v] = validation[v]
    BY <1>4, <2>1 DEF Spent
  <2>2. ASSUME NEW g \in Gateways, FindByFactoryId(v, g)
        PROVE  /\ validation'[v].pc = "done"
               /\ validation'[v].verdict \in {"INVALID", "ALREADY_PROVISIONED"}
    <3> DEFINE refused == IF gateways[g] = Null THEN "INVALID"
                          ELSE IF gateways[g].provisioned THEN "ALREADY_PROVISIONED"
                          ELSE IF ~ gateways[g].hash THEN "INVALID"
                          ELSE "none"
               late == g \in completed \cup deleted
    <3>1. validation'[v] = [pc |-> IF refused = "none" THEN "comparing" ELSE "done",
                            gateway |-> g, late |-> late, verdict |-> refused]
      BY <2>2 DEF FindByFactoryId, TypeOK
    <3>2. late
      <4> HIDE DEF late, refused
      <4> QED
        BY <1>4, <3>1
    <3>3. refused \in {"INVALID", "ALREADY_PROVISIONED"}
      BY <3>2 DEF Spent
    <3> HIDE DEF late, refused
    <3> QED
      BY <3>1, <3>3
  <2>3. CASE CompareKey(v)
    <3>1. validation[v] # Null /\ validation[v].pc = "comparing"
      BY <2>3 DEF CompareKey
    <3>2. validation[v] \in Validation
      BY <3>1 DEF TypeOK
    <3>3. PICK verdict \in {"valid", "INVALID"} :
            validation' = [validation EXCEPT ![v].pc = "done", ![v].verdict = verdict]
      BY <2>3 DEF CompareKey
    <3>4. validation'[v] = [validation[v] EXCEPT !.pc = "done", !.verdict = verdict]
      BY <3>3 DEF TypeOK
    <3>5. validation'[v].late = validation[v].late
      BY <3>2, <3>4 DEF Validation
    <3> QED
      BY <1>4, <3>1, <3>5 DEF Spent
  <2>4. ASSUME NEW u \in Validations, u # v,
               CompareKey(u) \/ \E g \in Gateways : FindByFactoryId(u, g)
        PROVE  validation'[v] = validation[v]
    BY <2>4 DEF CompareKey, FindByFactoryId, TypeOK
  <2>5. CASE ValidateStep
    BY <2>1, <2>2, <2>3, <2>4, <2>5 DEF ValidateStep
  <2>6. CASE UNCHANGED validation
    BY <2>1, <2>6
  <2> QED
    BY <2>5, <2>6 DEF Next, AdminStep, AddGateway, AddMetadata, DeleteGateway, CompleteStep,
       CheckGateway, CommitCompletion, AbortCompletion, EditorStep, EditorLoad, EditorSave,
       tables, histories, vars
<1> QED
  BY <1>2, <1>3, <1>4 DEF Spent

\* A factory key is good for one onboarding (completeProvisioning's
\* factoryKeyHash: null, gateway.entity's select: false).
THEOREM FactoryKeysAreSpent == Spec => []FactoryKeyIsSpent
<1>1. Init => TypeOK /\ Spent
  BY TypeInit DEF Init, Spent
<1>2. TypeOK /\ Spent /\ [Next]_vars => TypeOK' /\ Spent'
  BY TypeStep, SpentStep
<1>3. Spent => FactoryKeyIsSpent
  BY DEF Spent, FactoryKeyIsSpent
<1> QED
  BY <1>1, <1>2, <1>3, PTL DEF Spec

-----------------------------------------------------------------------------
(* Keys and calls.                                                         *)

\* The row that a call's commit inserts.
Inserted(a) == [gateway |-> call[a].gateway, version |-> call[a].version]

\* A key's row changes when its call commits and when its gateway is deleted.
LEMMA KeysAfter ==
    ASSUME TypeOK, [Next]_vars, NEW a \in Calls, keys'[a] # keys[a]
    PROVE  \/ CommitCompletion(a) /\ keys'[a] = Inserted(a)
           \/ /\ keys[a] # Null /\ DeleteGateway(keys[a].gateway) /\ keys'[a] = Null
              /\ keys[a].gateway \in Gateways
<1> USE DEF tables, histories
<1>1. ASSUME NEW b \in Calls, CommitCompletion(b)
      PROVE  CommitCompletion(a) /\ keys'[a] = Inserted(a)
  BY <1>1 DEF CommitCompletion, Inserted, TypeOK
<1>2. ASSUME NEW g \in Gateways, DeleteGateway(g)
      PROVE  /\ keys[a] # Null /\ DeleteGateway(keys[a].gateway) /\ keys'[a] = Null
             /\ keys[a].gateway \in Gateways
  BY <1>2 DEF DeleteGateway, TypeOK
<1> QED
  BY <1>1, <1>2 DEF Next, AdminStep, AddGateway, AddMetadata, ValidateStep, FindByFactoryId,
     CompareKey, CompleteStep, CheckGateway, AbortCompletion, EditorStep, EditorLoad,
     EditorSave, vars

\* A call's record changes when it is checked, commits or aborts; it keeps
\* its gateway and its version.
LEMMA CallAfter ==
    ASSUME TypeOK, [Next]_vars, NEW a \in Calls, call'[a] # call[a]
    PROVE  \/ /\ call[a] = Null
              /\ call'[a].reply # "success"
              /\ \/ call'[a].pc = "done" /\ UNCHANGED <<tables, reset>>
                 \/ \E g \in Gateways :
                      /\ call'[a].pc = "checked" /\ call'[a].gateway = g
                      /\ gateways[g] # Null /\ ~ gateways[g].provisioned
                      /\ overlapped' = overlapped \cup
                           {<<b, a>> : b \in {d \in Calls : Pending(d) /\ call[d].gateway = g}}
                      /\ UNCHANGED <<tables, reset>>
           \/ /\ CommitCompletion(a) \/ (AbortCompletion(a) /\ call'[a].reply # "success")
              /\ Pending(a)
              /\ call'[a] # Null /\ call'[a].pc = "done"
              /\ call'[a].gateway = call[a].gateway /\ call'[a].version = call[a].version
<1> USE DEF tables, histories
<1>1. ASSUME NEW b \in Calls, NEW g \in Gateways, NEW version \in Versions,
             CheckGateway(b, g, version)
      PROVE  /\ call[a] = Null
             /\ call'[a].reply # "success"
             /\ UNCHANGED <<tables, reset>>
             /\ \/ call'[a].pc = "done"
                \/ /\ call'[a].pc = "checked" /\ call'[a].gateway = g
                   /\ gateways[g] # Null /\ ~ gateways[g].provisioned
                   /\ overlapped' = overlapped \cup
                        {<<d, a>> : d \in {d \in Calls : Pending(d) /\ call[d].gateway = g}}
  <2>1. PICK pc \in {"checked", "done"}, reply \in Replies \ {"success"} :
          /\ Started(b, g, version, pc, reply)
          /\ pc = "checked" => gateways[g] # Null /\ ~ gateways[g].provisioned
    BY <1>1 DEF CheckGateway, ErrorReply, Replies
  <2>2. b = a
    BY <2>1 DEF Started, TypeOK
  <2>3. call'[a] = [pc |-> pc, gateway |-> g, version |-> version, reply |-> reply]
    BY <2>1, <2>2 DEF Started, TypeOK
  <2>4. call[a] = Null /\ UNCHANGED <<tables, reset>>
    BY <1>1, <2>2 DEF CheckGateway, MayStart
  <2>5. pc = "checked" => overlapped' = overlapped \cup
                        {<<d, a>> : d \in {d \in Calls : Pending(d) /\ call[d].gateway = g}}
    BY <2>1, <2>2 DEF Started
  <2> QED
    BY <2>1, <2>3, <2>4, <2>5
<1>2. ASSUME NEW b \in Calls, NEW reply \in {"success", "lost", "INTERNAL"}, Pending(b),
             call' = [call EXCEPT ![b].pc = "done", ![b].reply = reply]
      PROVE  /\ b = a
             /\ call'[a] # Null /\ call'[a].pc = "done"
             /\ call'[a].gateway = call[a].gateway /\ call'[a].version = call[a].version
             /\ call'[a].reply = reply
  <2>1. b = a
    BY <1>2 DEF TypeOK
  <2>2. call'[a] = [call[a] EXCEPT !.pc = "done", !.reply = reply]
    BY <1>2, <2>1 DEF TypeOK
  <2>3. call[a] \in Call
    BY <1>2, <2>1 DEF Pending, TypeOK
  <2>4. /\ call'[a].pc = "done" /\ call'[a].reply = reply
        /\ call'[a].gateway = call[a].gateway /\ call'[a].version = call[a].version
    BY <2>2, <2>3 DEF Call
  <2>5. call'[a] \in Call
    BY <2>2, <2>3 DEF Call, Replies
  <2> QED
    BY <2>1, <2>4, <2>5, NullAssumption
<1>3. CASE \E b \in Calls : CommitCompletion(b)
  <2>1. PICK b \in Calls : CommitCompletion(b)
    BY <1>3
  <2>2. PICK reply \in {"success", "lost", "INTERNAL"} :
          call' = [call EXCEPT ![b].pc = "done", ![b].reply = reply]
    BY <2>1 DEF CommitCompletion
  <2> QED
    BY <1>2, <2>1, <2>2 DEF CommitCompletion
<1>4. CASE \E b \in Calls : AbortCompletion(b)
  <2>1. PICK b \in Calls : AbortCompletion(b)
    BY <1>4
  <2> QED
    BY <1>2, <2>1 DEF AbortCompletion
<1>5. CASE CompleteStep
  BY <1>1, <1>3, <1>4, <1>5 DEF CompleteStep
<1>6. CASE UNCHANGED call
  BY <1>6
<1> QED
  BY <1>5, <1>6 DEF Next, AdminStep, AddGateway, AddMetadata, DeleteGateway, ValidateStep,
     FindByFactoryId, CompareKey, EditorStep, EditorLoad, EditorSave, vars

\* A stored key stays until its gateway is deleted.
LEMMA SuccessStep == TypeOK /\ SuccessIsStored /\ [Next]_vars => SuccessIsStored'
<1> SUFFICES ASSUME TypeOK, SuccessIsStored, [Next]_vars,
                    NEW a \in Calls, call'[a] # Null, call'[a].reply = "success"
             PROVE  \/ keys'[a] = [gateway |-> call'[a].gateway, version |-> call'[a].version]
                    \/ call'[a].gateway \in deleted'
  BY DEF SuccessIsStored
<1>1. CASE call'[a] = call[a]
  <2>1. keys[a] = Inserted(a) \/ call[a].gateway \in deleted
    BY <1>1 DEF SuccessIsStored, Inserted
  <2>2. CASE call[a].gateway \in deleted
    BY <1>1, <2>2, HistoriesGrow
  <2>3. CASE keys[a] = Inserted(a) /\ keys'[a] # keys[a]
    BY <1>1, <2>3, KeysAfter DEF DeleteGateway, Inserted
  <2>4. CASE keys[a] = Inserted(a) /\ keys'[a] = keys[a]
    BY <1>1, <2>4 DEF Inserted
  <2> QED
    BY <2>1, <2>2, <2>3, <2>4
<1>2. CASE call'[a] # call[a]
  <2>1. CommitCompletion(a) /\ call'[a].gateway = call[a].gateway /\ call'[a].version = call[a].version
    BY <1>2, CallAfter
  <2>2. keys'[a] = Inserted(a)
    BY <2>1 DEF CommitCompletion, Inserted, TypeOK
  <2> QED
    BY <2>1, <2>2 DEF Inserted
<1> QED
  BY <1>1, <1>2

\* Who is told "success" has its key stored (completeProvisioning,
\* handleComplete).
THEOREM SuccessesAreStored == Spec => []SuccessIsStored
<1>1. Init => TypeOK /\ SuccessIsStored
  BY TypeInit DEF Init, SuccessIsStored
<1>2. TypeOK /\ SuccessIsStored /\ [Next]_vars => TypeOK' /\ SuccessIsStored'
  BY TypeStep, SuccessStep
<1> QED
  BY <1>1, <1>2, PTL DEF Spec

-----------------------------------------------------------------------------
(* Second keys.                                                            *)

Overlap(a, b) == <<a, b>> \in overlapped \/ <<b, a>> \in overlapped

\* A key belongs to the call that inserted it, which is over, and to an
\* existing gateway that is marked, unless a stale save took the mark back.
KeysMatch == \A a \in Calls : keys[a] # Null =>
    /\ call[a] # Null /\ call[a].pc = "done"
    /\ call[a].gateway = keys[a].gateway
    /\ gateways[keys[a].gateway] # Null
    /\ gateways[keys[a].gateway].provisioned \/ keys[a].gateway \in reset

\* The call that stored a key of gateway g, or is about to.
Claims(a, g) ==
    \/ keys[a] # Null /\ keys[a].gateway = g
    \/ Pending(a) /\ call[a].gateway = g

\* Two calls with a claim on one gateway overlapped, or a stale save took the
\* gateway's mark back.
ClaimsRace == \A a, b \in Calls, g \in Gateways :
    a # b /\ Claims(a, g) /\ Claims(b, g) => Overlap(a, b) \/ g \in reset

\* What happens to a key of a gateway whose row changes.
LEMMA MarkStays ==
    ASSUME TypeOK, KeysMatch, [Next]_vars, NEW a \in Calls, NEW g \in Gateways,
           keys'[a] # Null, keys'[a] = keys[a], keys[a].gateway = g
    PROVE  gateways'[g] # Null /\ (gateways'[g].provisioned \/ g \in reset')
<1> USE NullAssumption
<1>1. /\ gateways[g] # Null /\ gateways[g] \in GatewayRow
      /\ gateways[g].provisioned \/ g \in reset
  BY DEF KeysMatch, TypeOK
<1>2. ASSUME NEW row \in GatewayRow PROVE row # Null
  OBVIOUS
<1>3. CASE gateways'[g] = gateways[g]
  BY <1>1, <1>3, HistoriesGrow
<1>4. ~ AddGateway(g)
  BY <1>1 DEF AddGateway
<1>5. ~ DeleteGateway(g)
  BY DEF DeleteGateway, TypeOK
<1>6. CASE gateways'[g] = [gateways[g] EXCEPT !.meta = TRUE]
  <2>1. gateways'[g] \in GatewayRow /\ gateways'[g].provisioned = gateways[g].provisioned
    BY <1>1, <1>6 DEF GatewayRow
  <2> QED
    BY <1>1, <1>2, <2>1, HistoriesGrow
<1>7. CASE gateways'[g] = Onboarded(gateways[g])
  <2>1. gateways'[g] \in GatewayRow /\ gateways'[g].provisioned = TRUE
    BY <1>1, <1>7 DEF GatewayRow, Onboarded
  <2> QED
    BY <1>2, <2>1
<1>8. ASSUME NEW e \in Editors, EditorSave(e), editor[e].gateway = g, gateways'[g] = SavedColumns(e)
      PROVE  gateways'[g] # Null /\ (gateways'[g].provisioned \/ g \in reset')
  <2>1. editor[e].provisioned \in BOOLEAN
    BY <1>8 DEF EditorSave, TypeOK, Snapshot
  <2>2. gateways'[g] \in GatewayRow /\ gateways'[g].provisioned = editor[e].provisioned
    BY <1>8, <2>1 DEF SavedColumns, GatewayRow, TypeOK
  <2>3. reset' = reset \cup (IF TakesBack(e) THEN {g} ELSE {})
    BY <1>8 DEF EditorSave
  <2>4. editor[e].provisioned \/ g \in reset'
    BY <1>1, <1>8, <2>1, <2>3 DEF TakesBack
  <2> QED
    BY <1>2, <2>2, <2>4
<1>9. \/ gateways'[g] = gateways[g]
      \/ gateways'[g] = [gateways[g] EXCEPT !.meta = TRUE]
      \/ gateways'[g] = Onboarded(gateways[g])
      \/ \E e \in Editors : /\ EditorSave(e) /\ editor[e].gateway = g
                             /\ gateways'[g] = SavedColumns(e)
  BY <1>4, <1>5, RowAfter
<1>10. CASE \E e \in Editors : /\ EditorSave(e) /\ editor[e].gateway = g
                               /\ gateways'[g] = SavedColumns(e)
  <2>1. PICK e \in Editors : /\ EditorSave(e) /\ editor[e].gateway = g
                             /\ gateways'[g] = SavedColumns(e)
    BY <1>10
  <2> QED
    BY <1>8, <2>1
<1> QED
  BY <1>3, <1>6, <1>7, <1>9, <1>10

\* KeysMatch is inductive.
LEMMA KeysMatchStep == TypeOK /\ KeysMatch /\ [Next]_vars => KeysMatch'
<1> SUFFICES ASSUME TypeOK, KeysMatch, [Next]_vars, NEW a \in Calls, keys'[a] # Null
             PROVE  /\ call'[a] # Null /\ call'[a].pc = "done"
                    /\ call'[a].gateway = keys'[a].gateway
                    /\ gateways'[keys'[a].gateway] # Null
                    /\ gateways'[keys'[a].gateway].provisioned \/ keys'[a].gateway \in reset'
  BY DEF KeysMatch
<1> USE NullAssumption
<1>1. CASE keys'[a] = keys[a]
  <2>1. keys[a] \in KeyRow
    BY <1>1 DEF TypeOK
  <2>2. keys[a].gateway \in Gateways
    BY <2>1 DEF KeyRow
  <2>3. call[a] # Null /\ call[a].pc = "done" /\ call[a].gateway = keys[a].gateway
    BY <1>1 DEF KeysMatch
  <2>4. call'[a] = call[a]
    BY <2>3, CallAfter DEF Pending
  <2> QED
    BY <1>1, <2>2, <2>3, <2>4, MarkStays
<1>2. CASE keys'[a] # keys[a]
  <2>1. CommitCompletion(a) /\ keys'[a] = Inserted(a)
    BY <1>2, KeysAfter
  <2> DEFINE g == call[a].gateway
  <2>2. call[a] \in Call
    BY <2>1 DEF CommitCompletion, Pending, TypeOK
  <2>3. g \in Gateways /\ keys'[a].gateway = g
    BY <2>1, <2>2 DEF Call, Inserted
  <2>4. gateways[g] \in GatewayRow /\ gateways'[g] = Onboarded(gateways[g])
    BY <2>1, <2>3 DEF CommitCompletion, TypeOK
  <2>5. gateways'[g] \in GatewayRow /\ gateways'[g].provisioned = TRUE
    BY <2>4 DEF Onboarded, GatewayRow
  <2>6. call'[a] # Null /\ call'[a].pc = "done" /\ call'[a].gateway = g
    <3>1. PICK reply \in {"success", "lost", "INTERNAL"} :
            call' = [call EXCEPT ![a].pc = "done", ![a].reply = reply]
      BY <2>1 DEF CommitCompletion
    <3>2. call'[a] = [call[a] EXCEPT !.pc = "done", !.reply = reply]
      BY <3>1 DEF TypeOK
    <3>3. call'[a] \in Call /\ call'[a].pc = "done" /\ call'[a].gateway = g
      BY <2>2, <3>2 DEF Call, Replies
    <3> QED
      BY <3>3
  <2> QED
    BY <2>3, <2>5, <2>6
<1> QED
  BY <1>1, <1>2

\* A claim after a step is a claim before it, or comes with the check, which
\* found the gateway not marked and records whom it overlaps.
LEMMA ClaimBefore ==
    ASSUME TypeOK, KeysMatch, [Next]_vars, NEW a \in Calls, NEW g \in Gateways, Claims(a, g)'
    PROVE  \/ Claims(a, g)
           \/ /\ gateways[g] # Null /\ ~ gateways[g].provisioned
              /\ overlapped' = overlapped \cup
                   {<<b, a>> : b \in {d \in Calls : Pending(d) /\ call[d].gateway = g}}
              /\ \A b \in Calls \ {a} : Claims(b, g)' => Claims(b, g)
<1> USE NullAssumption DEF tables
<1>1. CASE keys'[a] # Null /\ keys'[a].gateway = g
  <2>1. CASE keys'[a] = keys[a]
    BY <1>1, <2>1 DEF Claims
  <2>2. CASE CommitCompletion(a) /\ keys'[a] = Inserted(a)
    BY <1>1, <2>2 DEF Claims, CommitCompletion, Inserted
  <2> QED
    BY <1>1, <2>1, <2>2, KeysAfter
<1>2. CASE Pending(a)' /\ call'[a].gateway = g
  <2>1. CASE call'[a] = call[a]
    BY <1>2, <2>1 DEF Claims, Pending
  <2>2. CASE call'[a] # call[a]
    <3>1. /\ gateways[g] # Null /\ ~ gateways[g].provisioned
          /\ overlapped' = overlapped \cup
               {<<b, a>> : b \in {d \in Calls : Pending(d) /\ call[d].gateway = g}}
          /\ keys' = keys
          /\ call[a] = Null
      BY <1>2, <2>2, CallAfter DEF Pending
    <3>2. ASSUME NEW b \in Calls \ {a} PROVE call'[b] = call[b]
      <4>1. ~ CommitCompletion(b) /\ ~ AbortCompletion(b)
        BY <2>2 DEF CommitCompletion, AbortCompletion, TypeOK
      <4>2. CASE \E c \in Calls, h \in Gateways, version \in Versions : CheckGateway(c, h, version)
        <5>1. PICK c \in Calls, h \in Gateways, version \in Versions : CheckGateway(c, h, version)
          BY <4>2
        <5>2. PICK pc, reply : Started(c, h, version, pc, reply)
          BY <5>1 DEF CheckGateway
        <5> QED
          BY <2>2, <5>2 DEF Started, TypeOK
      <4>3. CASE \E c \in Calls : CommitCompletion(c) \/ AbortCompletion(c)
        BY <2>2, <3>1, <4>3 DEF CommitCompletion, AbortCompletion, Pending, TypeOK
      <4> QED
        BY <2>2, <4>2, <4>3 DEF Next, AdminStep, AddGateway, AddMetadata, DeleteGateway, ValidateStep,
           FindByFactoryId, CompareKey, CompleteStep, EditorStep, EditorLoad, EditorSave, vars
    <3> QED
      BY <3>1, <3>2 DEF Claims, Pending
  <2> QED
    BY <2>1, <2>2
<1> QED
  BY <1>1, <1>2 DEF Claims

\* ClaimsRace is inductive.
LEMMA ClaimsStep ==
    TypeOK /\ KeysMatch /\ ClaimsRace /\ [Next]_vars => ClaimsRace'
<1> SUFFICES ASSUME TypeOK, KeysMatch, ClaimsRace, [Next]_vars,
                    NEW a \in Calls, NEW b \in Calls, NEW g \in Gateways,
                    a # b, Claims(a, g)', Claims(b, g)'
             PROVE  Overlap(a, b)' \/ g \in reset'
  BY DEF ClaimsRace
<1>1. CASE Claims(a, g) /\ Claims(b, g)
  BY <1>1, HistoriesGrow DEF ClaimsRace, Overlap
<1>2. ASSUME NEW x \in Calls, NEW y \in Calls, x # y, ~ Claims(x, g), Claims(x, g)', Claims(y, g)'
      PROVE  Overlap(x, y)' \/ g \in reset'
  <2>1. /\ gateways[g] # Null /\ ~ gateways[g].provisioned
        /\ overlapped' = overlapped \cup
             {<<d, x>> : d \in {d \in Calls : Pending(d) /\ call[d].gateway = g}}
        /\ Claims(y, g)
    BY <1>2, ClaimBefore
  <2>2. CASE Pending(y) /\ call[y].gateway = g
    BY <2>1, <2>2 DEF Overlap
  <2>3. CASE keys[y] # Null /\ keys[y].gateway = g
    BY <2>1, <2>3, HistoriesGrow DEF KeysMatch
  <2> QED
    BY <2>1, <2>2, <2>3 DEF Claims
<1>3. Overlap(b, a)' => Overlap(a, b)'
  BY DEF Overlap
<1> QED
  BY <1>1, <1>2, <1>3

\* Two keys of one gateway need two calls past their check together, or a
\* stale save (completeProvisioning).
THEOREM SecondKeysNeedRaces == Spec => []SecondKeyNeedsRace
<1> DEFINE IInv == TypeOK /\ KeysMatch /\ ClaimsRace
<1>1. Init => IInv
  BY TypeInit DEF Init, KeysMatch, ClaimsRace, Claims, Pending
<1>2. IInv /\ [Next]_vars => IInv'
  BY TypeStep, KeysMatchStep, ClaimsStep
<1>3. IInv => SecondKeyNeedsRace
  <2> SUFFICES ASSUME TypeOK, ClaimsRace, NEW a \in Calls, NEW b \in Calls, a # b,
                      keys[a] # Null, keys[b] # Null, keys[a].gateway = keys[b].gateway
               PROVE  \/ <<a, b>> \in overlapped \/ <<b, a>> \in overlapped
                      \/ keys[a].gateway \in reset
    BY DEF SecondKeyNeedsRace
  <2>1. keys[a] \in KeyRow
    BY DEF TypeOK
  <2>2. keys[a].gateway \in Gateways
    BY <2>1 DEF KeyRow
  <2> QED
    BY <2>2 DEF ClaimsRace, Claims, Overlap
<1> QED
  BY <1>1, <1>2, <1>3, PTL DEF Spec

-----------------------------------------------------------------------------
(* Marked gateways.                                                        *)

\* A gateway has a key, or had one until it was deleted.
Keyed(g) == (\E a \in Calls : keys[a] # Null /\ keys[a].gateway = g) \/ g \in deleted

\* Whoever shows a gateway as provisioned, its row or a snapshot, has a key
\* behind it.
Marked ==
    /\ \A g \in Gateways : gateways[g] # Null /\ gateways[g].provisioned =>
         gateways[g].meta /\ Keyed(g)
    /\ \A e \in Editors : editor[e] # Null /\ editor[e].provisioned =>
         Keyed(editor[e].gateway)

\* A gateway that has a key keeps it or is deleted.
LEMMA KeyedStays ==
    ASSUME TypeOK, KeysMatch, [Next]_vars, NEW g, Keyed(g)
    PROVE  Keyed(g)'
<1>1. CASE g \in deleted
  BY <1>1, HistoriesGrow DEF Keyed
<1>2. ASSUME NEW a \in Calls, keys[a] # Null, keys[a].gateway = g
      PROVE  Keyed(g)'
  <2>1. CASE keys'[a] = keys[a]
    BY <1>2, <2>1 DEF Keyed
  <2>2. ~ CommitCompletion(a)
    BY <1>2 DEF CommitCompletion, Pending, KeysMatch
  <2>3. CASE DeleteGateway(g)
    BY <2>3 DEF DeleteGateway, Keyed
  <2> QED
    BY <1>2, <2>1, <2>2, <2>3, KeysAfter
<1> QED
  BY <1>1, <1>2 DEF Keyed

\* Marked is inductive: a gateway is marked by its key's transaction and by
\* saves of snapshots that were marked.
LEMMA MarkedStep == TypeOK /\ KeysMatch /\ Marked /\ [Next]_vars => Marked'
<1> SUFFICES ASSUME TypeOK, KeysMatch, Marked, [Next]_vars PROVE Marked'
  OBVIOUS
<1>1. ASSUME NEW g \in Gateways, gateways'[g] # Null, gateways'[g].provisioned
      PROVE  gateways'[g].meta /\ Keyed(g)'
  <2>1. CASE gateways'[g] = gateways[g]
    BY <1>1, <2>1, KeyedStays DEF Marked
  <2>2. CASE /\ gateways[g] # Null
             /\ gateways'[g] = [gateways[g] EXCEPT !.meta = TRUE]
    <3>1. gateways[g] \in GatewayRow
      BY <2>2 DEF TypeOK
    <3>2. gateways'[g].meta = TRUE /\ gateways'[g].provisioned = gateways[g].provisioned
      BY <2>2, <3>1 DEF GatewayRow
    <3> QED
      BY <1>1, <2>2, <3>2, KeyedStays DEF Marked
  <2>3. ASSUME NEW a \in Calls, CommitCompletion(a), call[a].gateway = g, gateways[g] # Null,
               gateways'[g] = Onboarded(gateways[g])
        PROVE  gateways'[g].meta /\ Keyed(g)'
    <3>1. gateways[g] \in GatewayRow /\ call[a] \in Call
      BY <2>3 DEF CommitCompletion, Pending, TypeOK
    <3>2. gateways'[g].meta = TRUE
      BY <2>3, <3>1 DEF Onboarded, GatewayRow
    <3>3. Inserted(a) \in KeyRow /\ Inserted(a).gateway = g
      BY <2>3, <3>1 DEF Inserted, Call, KeyRow
    <3>4. keys'[a] = Inserted(a)
      BY <2>3 DEF CommitCompletion, Inserted, TypeOK
    <3> QED
      BY <3>2, <3>3, <3>4, NullAssumption DEF Keyed
  <2>4. ASSUME NEW e \in Editors, EditorSave(e), editor[e].gateway = g,
               gateways'[g] = SavedColumns(e)
        PROVE  gateways'[g].meta /\ Keyed(g)'
    <3>1. gateways'[g].meta = TRUE /\ gateways'[g].provisioned = editor[e].provisioned
      BY <2>4 DEF SavedColumns
    <3>2. Keyed(g)
      BY <1>1, <2>4, <3>1 DEF EditorSave, Marked
    <3> QED
      BY <3>1, <3>2, KeyedStays
  <2>5. CASE gateways'[g] = [provisioned |-> FALSE, hash |-> TRUE, meta |-> FALSE]
    BY <1>1, <2>5
  <2>6. ~ DeleteGateway(g)
    BY <1>1 DEF DeleteGateway, TypeOK
  <2>7. CASE \E a \in Calls : CommitCompletion(a) /\ call[a].gateway = g /\ gateways[g] # Null
                            /\ gateways'[g] = Onboarded(gateways[g])
    BY <2>3, <2>7
  <2>8. CASE \E e \in Editors : /\ EditorSave(e) /\ editor[e].gateway = g
                                /\ gateways'[g] = SavedColumns(e)
    <3>1. PICK e \in Editors : /\ EditorSave(e) /\ editor[e].gateway = g
                               /\ gateways'[g] = SavedColumns(e)
      BY <2>8
    <3> QED
      BY <2>4, <3>1
  <2>9. CASE gateways'[g] # gateways[g]
    BY <2>2, <2>5, <2>6, <2>7, <2>8, <2>9, RowAfter
  <2> QED
    BY <2>1, <2>9
<1>2. ASSUME NEW e \in Editors, editor'[e] # Null, editor'[e].provisioned
      PROVE  Keyed(editor[e].gateway)'
  <2>1. PICK g \in Gateways : editor'[e].gateway = g /\ Keyed(g)
    <3>1. CASE editor'[e] = editor[e]
      BY <1>2, <3>1 DEF Marked, TypeOK, Snapshot
    <3>2. ASSUME NEW g \in Gateways, EditorLoad(e, g)
          PROVE  editor'[e].gateway = g /\ Keyed(g)
      <4>1. editor'[e] = [gateway |-> g, provisioned |-> gateways[g].provisioned]
        BY <3>2 DEF EditorLoad, TypeOK
      <4> QED
        BY <1>2, <3>2, <4>1 DEF EditorLoad, Marked
    <3>3. ASSUME NEW f \in Editors, EditorSave(f) \/ \E g \in Gateways : EditorLoad(f, g)
          PROVE  editor'[e] = editor[e] \/ \E g \in Gateways : EditorLoad(e, g)
      BY <1>2, <3>3 DEF EditorSave, EditorLoad, TypeOK
    <3>4. CASE UNCHANGED editor
      BY <3>1, <3>4
    <3> QED
      BY <3>1, <3>2, <3>3, <3>4 DEF Next, AdminStep, AddGateway, AddMetadata, DeleteGateway,
         ValidateStep, FindByFactoryId, CompareKey, CompleteStep, CheckGateway, CommitCompletion,
         AbortCompletion, EditorStep, tables, histories, vars
  <2>2. Keyed(g)'
    BY <2>1, KeyedStays
  <2> QED
    BY <2>1, <2>2 DEF Keyed
<1> QED
  BY <1>1, <1>2 DEF Marked

\* A gateway shown as provisioned has a key and its metadata
\* (completeProvisioning against updateGatewayRuntimeStatus, deleteGateway).
THEOREM ProvisionedGatewaysHaveKeys == Spec => []ProvisionedHasKey
<1> DEFINE IInv == TypeOK /\ KeysMatch /\ Marked
<1>1. Init => IInv
  BY TypeInit DEF Init, KeysMatch, Marked
<1>2. IInv /\ [Next]_vars => IInv'
  BY TypeStep, KeysMatchStep, MarkedStep
<1>3. IInv => ProvisionedHasKey
  BY DEF Marked, Keyed, ProvisionedHasKey, KeysOf
<1> QED
  BY <1>1, <1>2, <1>3, PTL DEF Spec

-----------------------------------------------------------------------------
(* The promise.                                                            *)

\* A call that is past its check has not been answered.
Waiting == \A a \in Calls : Pending(a) => call[a].reply = "none"

\* Waiting is inductive.
LEMMA WaitingStep == TypeOK /\ Waiting /\ [Next]_vars => Waiting'
<1> SUFFICES ASSUME TypeOK, Waiting, [Next]_vars, NEW a \in Calls, Pending(a)'
             PROVE  call'[a].reply = "none"
  BY DEF Waiting
<1> USE DEF tables, histories
<1>1. CASE call'[a] = call[a]
  BY <1>1 DEF Pending, Waiting
<1>2. CASE call'[a] # call[a]
  <2>1. call[a] = Null /\ call'[a].pc = "checked"
    BY <1>2, CallAfter DEF Pending
  <2>2. PICK b \in Calls, g \in Gateways, version \in Versions : CheckGateway(b, g, version)
    BY <1>2, <2>1 DEF Next, AdminStep, AddGateway, AddMetadata, DeleteGateway, ValidateStep,
       FindByFactoryId, CompareKey, CompleteStep, CommitCompletion, AbortCompletion, Pending,
       EditorStep, EditorLoad, EditorSave, vars, TypeOK
  <2>3. PICK pc, reply : /\ Started(b, g, version, pc, reply)
                         /\ pc = "checked" => reply = "none"
    BY <2>2 DEF CheckGateway
  <2>4. b = a
    BY <1>2, <2>3 DEF Started, TypeOK
  <2>5. call'[a] = [pc |-> pc, gateway |-> g, version |-> version, reply |-> reply]
    BY <2>3, <2>4 DEF Started, TypeOK
  <2> QED
    BY <2>1, <2>3, <2>5
<1> QED
  BY <1>1, <1>2

\* What the promise is shown from.
PromiseInv == TypeOK /\ KeysMatch /\ Waiting

\* The mapping's variables.
Entered(g) == {a \in Calls : Pending(a) /\ call[a].gateway = g}

Stages == [g \in Gateways |-> Stage(g)]
Keyeds == [g \in Gateways |-> KeysOf(g)]
Entereds == [g \in Gateways |-> Entered(g)]
Confirmed == {a \in Calls : call[a] # Null /\ call[a].reply = "success"}
Helds == [e \in Editors |-> Held(e)]

\* A row is never Null.
LEMMA RowsAreNotNull == \A row \in GatewayRow : row # Null
BY NullAssumption

\* A gateway that is not marked is open.
LEMMA UnmarkedIsOpen ==
    ASSUME PromiseInv, NEW g \in Gateways, gateways[g] # Null, ~ gateways[g].provisioned
    PROVE  Promise!Open(g)
<1>1. KeysOf(g) = {} \/ g \in reset
  BY DEF PromiseInv, KeysMatch, KeysOf
<1>2. Stage(g) = "present"
  BY DEF Stage
<1> QED
  BY <1>1, <1>2 DEF Promise!Open

\* Registration.
LEMMA RegisterStep ==
    ASSUME TypeOK, NEW g \in Gateways, AddGateway(g)
    PROVE  Promise!Register(g)
<1> USE NullAssumption DEF tables, histories
<1>1. gateways'[g] # Null
  <2>1. [provisioned |-> FALSE, hash |-> TRUE, meta |-> FALSE] \in GatewayRow
    BY DEF GatewayRow
  <2> QED
    BY <2>1, RowsAreNotNull DEF AddGateway, TypeOK
<1>2. Stage(g) = "unknown" /\ Stage(g)' = "present"
  BY <1>1 DEF AddGateway, Stage
<1>3. ASSUME NEW h \in Gateways, h # g PROVE Stage(h)' = Stage(h)
  BY <1>3 DEF AddGateway, Stage, TypeOK
<1>4. Stages' = [Stages EXCEPT ![g] = "present"] /\ Stages[g] = "unknown"
  BY <1>2, <1>3 DEF Stages
<1>5. UNCHANGED <<Keyeds, Entereds, Confirmed, Helds, reset>>
  BY DEF Keyeds, KeysOf, Entereds, Entered, Pending, Confirmed, Helds, Held, AddGateway
<1> QED
  BY <1>4, <1>5 DEF Promise!Register, Stages, Keyeds, Entereds, Entered, Confirmed, Helds

\* Deletion.
LEMMA DeleteStep ==
    ASSUME TypeOK, NEW g \in Gateways, DeleteGateway(g)
    PROVE  Promise!Delete(g)
<1> USE DEF tables, histories
<1>1. Stage(g) = "present" /\ Stage(g)' = "deleted"
  BY DEF DeleteGateway, Stage, TypeOK
<1>2. ASSUME NEW h \in Gateways, h # g PROVE Stage(h)' = Stage(h)
  BY <1>2 DEF DeleteGateway, Stage, TypeOK
<1>3. Stages' = [Stages EXCEPT ![g] = "deleted"] /\ Stages[g] = "present"
  BY <1>1, <1>2 DEF Stages
<1>4. KeysOf(g)' = {}
  BY DEF DeleteGateway, KeysOf
<1>5. ASSUME NEW h \in Gateways, h # g PROVE KeysOf(h)' = KeysOf(h)
  BY <1>5 DEF DeleteGateway, KeysOf, TypeOK
<1>6. Keyeds' = [Keyeds EXCEPT ![g] = {}]
  BY <1>4, <1>5 DEF Keyeds
<1>7. UNCHANGED <<Entereds, Confirmed, Helds, reset>>
  BY DEF Entereds, Entered, Pending, Confirmed, Helds, Held, DeleteGateway
<1> QED
  BY <1>3, <1>6, <1>7
  DEF Promise!Delete, Stages, Keyeds, Entereds, Entered, Confirmed, Helds

\* The end of a call that was past its check.
LEMMA EnteredEnds ==
    ASSUME TypeOK, NEW a \in Calls, NEW reply \in {"success", "lost", "INTERNAL"}, Pending(a),
           call' = [call EXCEPT ![a].pc = "done", ![a].reply = reply]
    PROVE  /\ call[a].gateway \in Gateways
           /\ a \in Entereds[call[a].gateway]
           /\ Entereds' = [Entereds EXCEPT ![call[a].gateway] = @ \ {a}]
           /\ call'[a] # Null /\ call'[a].reply = reply
           /\ \A b \in Calls \ {a} : call'[b] = call[b]
<1>g. PICK g : g = call[a].gateway
  OBVIOUS
<1>0. call[a] \in Call
  BY DEF Pending, TypeOK
<1>1. g \in Gateways
  BY <1>0, <1>g DEF Call
<1>2. call'[a] = [call[a] EXCEPT !.pc = "done", !.reply = reply]
  BY DEF TypeOK
<1>3. call'[a] \in Call /\ call'[a].pc = "done" /\ call'[a].reply = reply
  <2>1. call'[a].pc = "done" /\ call'[a].reply = reply
    BY <1>0, <1>2 DEF Call
  <2>2. reply \in Replies
    BY DEF Replies
  <2>3. [call[a] EXCEPT !.pc = "done", !.reply = reply] \in Call
    BY <1>0, <2>2 DEF Call
  <2> QED
    BY <1>2, <2>1, <2>3
<1>4. \A b \in Calls \ {a} : call'[b] = call[b]
  BY DEF TypeOK
<1>5. ASSUME NEW f \in Gateways PROVE Entered(f)' = IF f = g THEN Entered(f) \ {a} ELSE Entered(f)
  <2>1. ASSUME NEW b \in Calls \ {a} PROVE (b \in Entered(f))' <=> b \in Entered(f)
    BY <1>4 DEF Entered, Pending
  <2>2. a \notin Entered(f)' /\ (a \in Entered(f) => f = g)
    BY <1>3, <1>g DEF Entered, Pending
  <2>3. Entered(f) \subseteq Calls /\ Entered(f)' \subseteq Calls
    BY DEF Entered
  <2> QED
    BY <2>1, <2>2, <2>3
<1>6. Entereds' = [Entereds EXCEPT ![g] = @ \ {a}]
  BY <1>1, <1>5 DEF Entereds
<1>7. a \in Entereds[g]
  BY <1>1, <1>g DEF Entereds, Entered
<1> QED
  BY <1>1, <1>g, <1>3, <1>4, <1>6, <1>7, NullAssumption

\* The commit of a completion.
LEMMA OnboardStep ==
    ASSUME PromiseInv, NEW a \in Calls, CommitCompletion(a)
    PROVE  \E g \in Gateways : Promise!Onboard(a, g)
<1> USE NullAssumption DEF tables, histories
<1>g. PICK g : g = call[a].gateway
  OBVIOUS
<1>0. TypeOK /\ KeysMatch /\ Waiting
  BY DEF PromiseInv
<1>p. PICK reply \in {"success", "lost", "INTERNAL"} :
        call' = [call EXCEPT ![a].pc = "done", ![a].reply = reply]
  BY DEF CommitCompletion
<1>1. Pending(a) /\ call[a] \in Call /\ gateways[g] # Null
  BY <1>0, <1>g DEF CommitCompletion, Pending, TypeOK
<1>2. /\ g \in Gateways
      /\ a \in Entereds[g]
      /\ Entereds' = [Entereds EXCEPT ![g] = @ \ {a}]
      /\ call'[a] # Null /\ call'[a].reply = reply
      /\ \A b \in Calls \ {a} : call'[b] = call[b]
  BY <1>0, <1>1, <1>g, <1>p, EnteredEnds
<1>3. keys[a] = Null
  BY <1>0, <1>1 DEF KeysMatch, Pending
<1>4. keys' = [keys EXCEPT ![a] = Inserted(a)]
  BY DEF CommitCompletion, Inserted
<1>5. Inserted(a) \in KeyRow /\ Inserted(a).gateway = g
  BY <1>1, <1>2, <1>g DEF Inserted, Call, KeyRow
<1>6. ASSUME NEW f \in Gateways PROVE KeysOf(f)' = IF f = g THEN KeysOf(f) \cup {a} ELSE KeysOf(f)
  <2>1. \A b \in Calls \ {a} : keys'[b] = keys[b]
    BY <1>0, <1>4 DEF TypeOK
  <2>2. keys'[a] # Null /\ keys'[a].gateway = g
    BY <1>0, <1>4, <1>5 DEF TypeOK
  <2>3. ASSUME NEW b \in Calls \ {a} PROVE (b \in KeysOf(f))' <=> b \in KeysOf(f)
    BY <2>1 DEF KeysOf
  <2>4. (a \in KeysOf(f)' <=> f = g) /\ a \notin KeysOf(f)
    BY <1>3, <2>2 DEF KeysOf
  <2>5. KeysOf(f) \subseteq Calls /\ KeysOf(f)' \subseteq Calls
    BY DEF KeysOf
  <2> QED
    BY <2>3, <2>4, <2>5
<1>7. Keyeds' = [Keyeds EXCEPT ![g] = @ \cup {a}]
  BY <1>2, <1>6 DEF Keyeds
<1>8. ASSUME NEW f \in Gateways PROVE Stage(f)' = Stage(f)
  <2>1. gateways'[g] # Null
    <3>1. gateways'[g] = Onboarded(gateways[g]) /\ gateways[g] \in GatewayRow
      BY <1>0, <1>1, <1>2, <1>g DEF CommitCompletion, TypeOK
    <3>2. gateways'[g] \in GatewayRow
      BY <3>1 DEF Onboarded, GatewayRow
    <3> QED
      BY <3>2, RowsAreNotNull
  <2>2. f # g => gateways'[f] = gateways[f]
    BY <1>0, <1>g DEF CommitCompletion, TypeOK
  <2>3. deleted' = deleted
    BY DEF CommitCompletion
  <2> QED
    BY <1>1, <2>1, <2>2, <2>3 DEF Stage
<1>9. UNCHANGED Stages /\ Stages[g] = "present"
  BY <1>1, <1>2, <1>8 DEF Stages, Stage
<1>10. Confirmed' \in {Confirmed, Confirmed \cup {a}}
  <2>1. a \notin Confirmed
    BY <1>0, <1>1 DEF Confirmed, Waiting
  <2>2. ASSUME NEW b \in Calls \ {a} PROVE (b \in Confirmed)' <=> b \in Confirmed
    BY <1>2 DEF Confirmed
  <2>3. Confirmed \subseteq Calls /\ Confirmed' \subseteq Calls
    BY DEF Confirmed
  <2>4. CASE a \in Confirmed'
    BY <2>1, <2>2, <2>3, <2>4
  <2>5. CASE a \notin Confirmed'
    BY <2>1, <2>2, <2>3, <2>5
  <2> QED
    BY <2>4, <2>5
<1>11. UNCHANGED <<Helds, reset>>
  BY DEF CommitCompletion, Helds, Held
<1> QED
  BY <1>2, <1>7, <1>9, <1>10, <1>11
  DEF Promise!Onboard, Stages, Keyeds, Entereds, Entered, Confirmed, Helds

\* A rollback.
LEMMA LeaveStep ==
    ASSUME PromiseInv, NEW a \in Calls, AbortCompletion(a)
    PROVE  \E g \in Gateways : Promise!Leave(a, g)
<1> USE DEF tables, histories
<1>0. TypeOK /\ Waiting
  BY DEF PromiseInv
<1>g. PICK g : g = call[a].gateway
  OBVIOUS
<1>1. Pending(a) /\ call' = [call EXCEPT ![a].pc = "done", ![a].reply = "INTERNAL"]
  BY DEF AbortCompletion
<1>2. /\ g \in Gateways
      /\ a \in Entereds[g]
      /\ Entereds' = [Entereds EXCEPT ![g] = @ \ {a}]
      /\ call'[a].reply = "INTERNAL"
      /\ \A b \in Calls \ {a} : call'[b] = call[b]
  BY <1>0, <1>1, <1>g, EnteredEnds
<1>3. UNCHANGED Confirmed
  <2>1. a \notin Confirmed /\ a \notin Confirmed'
    BY <1>0, <1>1, <1>2 DEF Confirmed, Waiting
  <2>2. ASSUME NEW b \in Calls \ {a} PROVE (b \in Confirmed)' <=> b \in Confirmed
    BY <1>2 DEF Confirmed
  <2>3. Confirmed \subseteq Calls /\ Confirmed' \subseteq Calls
    BY DEF Confirmed
  <2> QED
    BY <2>1, <2>2, <2>3
<1>4. UNCHANGED <<Stages, Keyeds, Helds, reset>>
  BY DEF AbortCompletion, Stages, Stage, Keyeds, KeysOf, Helds, Held
<1> QED
  BY <1>2, <1>3, <1>4
  DEF Promise!Leave, Stages, Keyeds, Entereds, Entered, Confirmed, Helds

\* A check lets its call in when the gateway is not marked, and otherwise
\* changes nothing that the promise is about.
LEMMA EnterStep ==
    ASSUME PromiseInv, NEW a \in Calls, NEW g \in Gateways, NEW version \in Versions,
           CheckGateway(a, g, version)
    PROVE  \/ Promise!Enter(a, g)
           \/ UNCHANGED <<Stages, Keyeds, Entereds, Confirmed, Helds, reset>>
<1> USE DEF tables, histories
<1>0. TypeOK /\ KeysMatch
  BY DEF PromiseInv
<1>1. UNCHANGED <<Stages, Keyeds, Helds, reset>>
  BY DEF CheckGateway, Stages, Stage, Keyeds, KeysOf, Helds, Held
<1>2. PICK pc \in {"checked", "done"}, reply \in Replies \ {"success"} :
        /\ Started(a, g, version, pc, reply)
        /\ pc = "checked" => gateways[g] # Null /\ ~ gateways[g].provisioned
  BY DEF CheckGateway, ErrorReply, Replies
<1>3. call[a] = Null
  BY DEF CheckGateway, MayStart
<1>4. /\ call'[a] = [pc |-> pc, gateway |-> g, version |-> version, reply |-> reply]
      /\ \A b \in Calls \ {a} : call'[b] = call[b]
  BY <1>0, <1>2 DEF Started, TypeOK
<1>5. call'[a] # Null /\ call'[a].pc = pc /\ call'[a].gateway = g /\ call'[a].reply # "success"
  <2>1. call'[a] \in Call
    BY <1>4 DEF Call
  <2> QED
    BY <1>4, <2>1, NullAssumption
<1>6. UNCHANGED Confirmed
  <2>1. a \notin Confirmed /\ a \notin Confirmed'
    BY <1>3, <1>5 DEF Confirmed
  <2>2. ASSUME NEW b \in Calls \ {a} PROVE (b \in Confirmed)' <=> b \in Confirmed
    BY <1>4 DEF Confirmed
  <2>3. Confirmed \subseteq Calls /\ Confirmed' \subseteq Calls
    BY DEF Confirmed
  <2> QED
    BY <2>1, <2>2, <2>3
<1>7. ASSUME NEW f \in Gateways
      PROVE  Entered(f)' = IF pc = "checked" /\ f = g THEN Entered(f) \cup {a} ELSE Entered(f)
  <2>1. a \notin Entered(f) /\ (a \in Entered(f)' <=> pc = "checked" /\ f = g)
    BY <1>3, <1>5 DEF Entered, Pending
  <2>2. ASSUME NEW b \in Calls \ {a} PROVE (b \in Entered(f))' <=> b \in Entered(f)
    BY <1>4 DEF Entered, Pending
  <2>3. Entered(f) \subseteq Calls /\ Entered(f)' \subseteq Calls
    BY DEF Entered
  <2> QED
    BY <2>1, <2>2, <2>3
<1>8. CASE pc = "done"
  <2>1. UNCHANGED Entereds
    BY <1>7, <1>8 DEF Entereds
  <2> QED
    BY <1>1, <1>6, <2>1
<1>9. CASE pc = "checked"
  <2>1. Entereds' = [Entereds EXCEPT ![g] = @ \cup {a}]
    BY <1>7, <1>9 DEF Entereds
  <2>2. \A f \in Gateways : a \notin Keyeds[f] \cup Entereds[f]
    BY <1>0, <1>3 DEF Keyeds, KeysOf, Entereds, Entered, Pending, KeysMatch
  <2>3. Promise!Open(g)
    BY <1>2, <1>9, UnmarkedIsOpen
  <2> QED
    BY <1>1, <1>6, <2>1, <2>2, <2>3
    DEF Promise!Enter, Stages, Keyeds, Entereds, Entered, Confirmed, Helds
<1> QED
  BY <1>8, <1>9

\* A handler loads a gateway.
LEMMA LoadStep ==
    ASSUME PromiseInv, NEW e \in Editors, NEW g \in Gateways, EditorLoad(e, g)
    PROVE  Promise!Load(e, g)
<1> USE DEF tables, histories
<1>0. TypeOK
  BY DEF PromiseInv
<1> DEFINE unaware == ~ gateways[g].provisioned
           snapshot == [gateway |-> g, provisioned |-> gateways[g].provisioned]
<1>1. gateways[g] \in GatewayRow /\ gateways[g].provisioned \in BOOLEAN
  BY <1>0 DEF EditorLoad, TypeOK, GatewayRow
<1>2. editor' = [editor EXCEPT ![e] = snapshot] /\ snapshot # Null
  BY <1>1, NullAssumption DEF EditorLoad, Snapshot
<1>3. unaware \in BOOLEAN /\ (unaware => Promise!Open(g))
  BY UnmarkedIsOpen DEF EditorLoad
<1>4. Helds[e] = Null /\ Helds' = [Helds EXCEPT ![e] = [gateway |-> g, unaware |-> unaware]]
  <2>1. editor'[e] = snapshot /\ \A f \in Editors \ {e} : editor'[f] = editor[f]
    BY <1>0, <1>2 DEF TypeOK
  <2>2. Held(e)' = [gateway |-> g, unaware |-> unaware]
    BY <1>2, <2>1 DEF Held
  <2>3. Held(e) = Null
    BY DEF EditorLoad, Held
  <2>4. ASSUME NEW f \in Editors \ {e} PROVE Held(f)' = Held(f)
    BY <2>1 DEF Held
  <2> HIDE DEF unaware
  <2> QED
    BY <2>2, <2>3, <2>4 DEF Helds
<1>5. Stages[g] = "present"
  BY DEF EditorLoad, Stages, Stage
<1>6. UNCHANGED <<Stages, Keyeds, Entereds, Confirmed, reset>>
  BY DEF EditorLoad, Stages, Stage, Keyeds, KeysOf, Entereds, Entered, Pending, Confirmed
<1> HIDE DEF unaware
<1> QED
  BY <1>3, <1>4, <1>5, <1>6
  DEF Promise!Load, Stages, Keyeds, Entereds, Entered, Confirmed, Helds

\* A handler saves what it loaded.
LEMMA SaveStep ==
    ASSUME PromiseInv, NEW e \in Editors, EditorSave(e)
    PROVE  Promise!Save(e)
<1> USE DEF tables, histories
<1>0. TypeOK
  BY DEF PromiseInv
<1>g. PICK g : g = editor[e].gateway
  OBVIOUS
<1>1. g \in Gateways /\ editor[e].provisioned \in BOOLEAN /\ editor[e] # Null
  BY <1>0, <1>g DEF EditorSave, TypeOK, Snapshot
<1>u. PICK unaware \in BOOLEAN : unaware = ~ editor[e].provisioned
  BY <1>1
<1>2. Held(e) = [gateway |-> g, unaware |-> unaware] /\ Held(e) # Null
  <2>1. Held(e) = [gateway |-> g, unaware |-> unaware]
    BY <1>1, <1>g, <1>u DEF Held
  <2>2. [gateway |-> g, unaware |-> unaware] # Null
    BY <1>1, NullAssumption DEF Loaded
  <2> QED
    BY <2>1, <2>2
<1>3. Helds' = [Helds EXCEPT ![e] = Null]
  <2>1. editor'[e] = Null /\ \A f \in Editors \ {e} : editor'[f] = editor[f]
    BY <1>0 DEF EditorSave, TypeOK
  <2>2. Held(e)' = Null
    BY <2>1 DEF Held
  <2>3. ASSUME NEW f \in Editors \ {e} PROVE Held(f)' = Held(f)
    BY <2>1 DEF Held
  <2> QED
    BY <2>2, <2>3 DEF Helds
<1>4. Stages' = [Stages EXCEPT ![g] = "present"]
  <2>1. gateways'[g] # Null
    <3>1. gateways'[g] = SavedColumns(e)
      BY <1>0, <1>1, <1>g DEF EditorSave, TypeOK
    <3>2. SavedColumns(e) \in GatewayRow
      BY <1>0, <1>1, <1>g DEF SavedColumns, GatewayRow, TypeOK
    <3> QED
      BY <3>1, <3>2, RowsAreNotNull
  <2>2. \A f \in Gateways \ {g} : gateways'[f] = gateways[f]
    BY <1>0, <1>g DEF EditorSave, TypeOK
  <2>3. Stage(g)' = "present"
    BY <2>1 DEF Stage
  <2>4. ASSUME NEW f \in Gateways \ {g} PROVE Stage(f)' = Stage(f)
    BY <2>2 DEF EditorSave, Stage
  <2> QED
    BY <2>3, <2>4 DEF Stages
<1>5. reset' = reset \/ (unaware /\ reset' = reset \cup {g})
  <2>1. reset' = reset \cup (IF TakesBack(e) THEN {g} ELSE {})
    BY <1>g DEF EditorSave
  <2>2. CASE ~ TakesBack(e)
    BY <2>1, <2>2
  <2>3. CASE TakesBack(e)
    BY <1>u, <2>1, <2>3 DEF TakesBack
  <2> QED
    BY <2>2, <2>3
<1>6. UNCHANGED <<Keyeds, Entereds, Confirmed>>
  BY DEF EditorSave, Keyeds, KeysOf, Entereds, Entered, Pending, Confirmed
<1>7. Helds[e] # Null /\ Helds[e].gateway = g /\ Helds[e].unaware = unaware
  BY <1>2 DEF Helds
<1>8. /\ Stages' = [Stages EXCEPT ![Helds[e].gateway] = "present"]
      /\ reset' = reset \/ (Helds[e].unaware /\ reset' = reset \cup {Helds[e].gateway})
  BY <1>4, <1>5, <1>7
<1> QED
  BY <1>3, <1>6, <1>7, <1>8
  DEF Promise!Save, Stages, Keyeds, Entereds, Entered, Confirmed, Helds

\* Every step is a step of the promise or changes nothing of it.
LEMMA PromiseStep ==
    ASSUME PromiseInv, [Next]_vars
    PROVE  Promise!Next \/ UNCHANGED <<Stages, Keyeds, Entereds, Confirmed, Helds, reset>>
<1> USE NullAssumption DEF tables, histories
<1>0. TypeOK
  BY DEF PromiseInv
<1>1. ASSUME NEW g \in Gateways, AddGateway(g) PROVE Promise!Next
  BY <1>0, <1>1, RegisterStep DEF Promise!Next
<1>2. ASSUME NEW g \in Gateways, DeleteGateway(g) PROVE Promise!Next
  BY <1>0, <1>2, DeleteStep DEF Promise!Next
<1>3. ASSUME NEW a \in Calls, CommitCompletion(a) PROVE Promise!Next
  BY <1>3, OnboardStep DEF Promise!Next
<1>4. ASSUME NEW a \in Calls, AbortCompletion(a) PROVE Promise!Next
  BY <1>4, LeaveStep DEF Promise!Next
<1>5. ASSUME NEW a \in Calls, NEW g \in Gateways, NEW version \in Versions,
             CheckGateway(a, g, version)
      PROVE  Promise!Next \/ UNCHANGED <<Stages, Keyeds, Entereds, Confirmed, Helds, reset>>
  BY <1>5, EnterStep DEF Promise!Next
<1>6. ASSUME NEW e \in Editors, NEW g \in Gateways, EditorLoad(e, g) PROVE Promise!Next
  BY <1>6, LoadStep DEF Promise!Next
<1>7. ASSUME NEW e \in Editors, EditorSave(e) PROVE Promise!Next
  BY <1>7, SaveStep DEF Promise!Next
<1>8. ASSUME UNCHANGED <<keys, call, deleted, editor, reset>>,
             \A g \in Gateways : (gateways'[g] = Null) <=> (gateways[g] = Null)
      PROVE  UNCHANGED <<Stages, Keyeds, Entereds, Confirmed, Helds, reset>>
  <2>1. \A g \in Gateways : Stage(g)' = Stage(g)
    BY <1>8 DEF Stage
  <2>2. \A g \in Gateways : Entered(g)' = Entered(g)
    BY <1>8 DEF Entered, Pending
  <2> QED
    BY <1>8, <2>1, <2>2 DEF Stages, Keyeds, KeysOf, Entereds, Confirmed, Helds, Held
<1>9. ASSUME NEW g \in Gateways, AddMetadata(g)
      PROVE  UNCHANGED <<Stages, Keyeds, Entereds, Confirmed, Helds, reset>>
  <2>1. \A h \in Gateways : (gateways'[h] = Null) <=> (gateways[h] = Null)
    <3>1. CASE gateways' = gateways
      BY <3>1
    <3>2. CASE gateways[g] # Null /\ gateways' = [gateways EXCEPT ![g].meta = TRUE]
      <4>1. gateways[g] \in GatewayRow
        BY <1>0, <3>2 DEF TypeOK
      <4>2. gateways'[g] = [gateways[g] EXCEPT !.meta = TRUE]
        BY <1>0, <3>2 DEF TypeOK
      <4>3. gateways'[g] \in GatewayRow
        BY <4>1, <4>2 DEF GatewayRow
      <4>4. \A h \in Gateways \ {g} : gateways'[h] = gateways[h]
        BY <1>0, <3>2 DEF TypeOK
      <4> QED
        BY <3>2, <4>3, <4>4
    <3> QED
      BY <1>9, <3>1, <3>2 DEF AddMetadata
  <2> QED
    BY <1>8, <1>9, <2>1 DEF AddMetadata
<1>10. CASE ValidateStep \/ UNCHANGED vars
  BY <1>8, <1>10 DEF ValidateStep, FindByFactoryId, CompareKey, vars
<1> QED
  BY <1>1, <1>2, <1>3, <1>4, <1>5, <1>6, <1>7, <1>9, <1>10
  DEF Next, AdminStep, CompleteStep, EditorStep

\* Refinement: onboarding keeps its promise about the key table, whatever
\* processes handle the requests and whoever saves gateways meanwhile
\* (ProvisioningNatsResponderService startResponder, completeProvisioning).
THEOREM OnboardingKeepsPromise == Spec => OnboardingPromise
<1>1. Init => PromiseInv /\ Promise!Init
  <2> SUFFICES ASSUME Init PROVE PromiseInv /\ Promise!Init
    OBVIOUS
  <2>1. PromiseInv
    BY TypeInit DEF Init, PromiseInv, KeysMatch, Pending, Waiting
  <2>2. \A g \in Gateways : Stage(g) = "unknown" /\ KeysOf(g) = {}
    BY DEF Init, Stage, KeysOf
  <2>3. \A e \in Editors : Held(e) = Null
    BY DEF Init, Held
  <2> QED
    BY <2>1, <2>2, <2>3 DEF Init, Promise!Init, Pending
<1>2. PromiseInv /\ [Next]_vars => PromiseInv'
  BY TypeStep, KeysMatchStep, WaitingStep DEF PromiseInv
<1>3. PromiseInv /\ [Next]_vars => [Promise!Next]_Promise!vars
  <2> SUFFICES ASSUME PromiseInv, [Next]_vars
               PROVE  Promise!Next \/ UNCHANGED Promise!vars
    OBVIOUS
  <2>1. CASE Promise!Next
    BY <2>1
  <2>2. CASE UNCHANGED <<Stages, Keyeds, Entereds, Confirmed, Helds, reset>>
    BY <2>2 DEF Promise!vars, Stages, Keyeds, Entereds, Entered, Confirmed, Helds
  <2> QED
    BY <2>1, <2>2, PromiseStep
<1> QED
  BY <1>1, <1>2, <1>3, PTL DEF Spec, OnboardingPromise, Promise!Spec

=============================================================================
