---------------------------- MODULE Provisioning ----------------------------
(***************************************************************************)
(* Onboarding of gateways: an administrator registers a gateway with the   *)
(* hash of its factory key; the provisioning service has the key validated *)
(* and then hands over the AES key of the gateway ("complete"), over HTTP  *)
(* or over NATS request-reply.  Every process subscribes without a queue   *)
(* group, so every process handles every NATS request.  Completion checks  *)
(* the gateway in one database call and commits a transaction in a later   *)
(* one; meanwhile other handlers load and save the gateway, and it may be  *)
(* deleted.                                                                *)
(***************************************************************************)
EXTENDS Naturals, FiniteSets

CONSTANTS
    Gateways,     \* ids of gateways
    Procs,        \* processes of this service
    NatsRequests, \* requests on NATS, retries among them
    HttpCalls,    \* requests over HTTP, which one process handles
    Validations,  \* calls of validateFactoryKey
    Editors,      \* handlers that load a gateway and save it
    Versions,     \* key versions that the provisioning service sends
    Null          \* an absent row, call or snapshot

\* The calls of completeProvisioning: request a[1] as process a[2] handles
\* it, or a request over HTTP.
NatsCalls == NatsRequests \X Procs

Calls == NatsCalls \cup HttpCalls

\* A row of gateways: its provisioned column, whether factory_key_hash is
\* set, and whether it has its row in gateways_metadata.
GatewayRow == [provisioned : BOOLEAN, hash : BOOLEAN, meta : BOOLEAN]

\* What findOne loads of it: factoryKeyHash is declared select: false.
Snapshot == [gateway : Gateways, provisioned : BOOLEAN]

\* What the provisioning service may know of such a snapshot.
Loaded == [gateway : Gateways, unaware : BOOLEAN]

KeyRow == [gateway : Gateways, version : Versions]

Replies == {"none", "success", "lost", "NOT_FOUND", "ALREADY_PROVISIONED", "INTERNAL"}

Call == [pc : {"checked", "done"}, gateway : Gateways, version : Versions,
         reply : Replies]

Verdicts == {"none", "valid", "INVALID", "ALREADY_PROVISIONED"}

Validation == [pc : {"comparing", "done"}, gateway : Gateways,
               late : BOOLEAN, verdict : Verdicts]

ASSUME CallsAssumption == HttpCalls \cap NatsCalls = {}

ASSUME NullAssumption ==
    /\ Null \notin GatewayRow /\ Null \notin Snapshot /\ Null \notin KeyRow
    /\ Null \notin Call /\ Null \notin Validation
    /\ Null \notin Loaded

VARIABLES
    gateways,    \* table gateways, with its metadata
    keys,        \* table keys: the row that each call inserted, or Null
    call,        \* the calls of completeProvisioning
    validation,  \* the calls of validateFactoryKey
    editor,      \* the snapshot each other handler holds, or Null
    adding,      \* gateways whose metadata addGateway has yet to insert
    completed,   \* history: gateways with a committed completion
    deleted,     \* history: gateways that were deleted
    reset,       \* history: gateways whose provisioned flag was taken back
    overlapped   \* history: pairs of calls that were both past their check

tables == <<gateways, keys>>

histories == <<completed, deleted, reset, overlapped>>

vars == <<gateways, keys, call, validation, editor, adding, completed,
          deleted, reset, overlapped>>

Init ==
    /\ gateways = [g \in Gateways |-> Null]
    /\ keys = [a \in Calls |-> Null]
    /\ call = [a \in Calls |-> Null]
    /\ validation = [v \in Validations |-> Null]
    /\ editor = [e \in Editors |-> Null]
    /\ adding = {}
    /\ completed = {}
    /\ deleted = {}
    /\ reset = {}
    /\ overlapped = {}

-----------------------------------------------------------------------------
(* Registration by an administrator: two saves and no transaction.         *)

\* addGateway's first save.  The database makes up a fresh id.
AddGateway(g) ==
    /\ gateways[g] = Null
    /\ g \notin deleted
    /\ gateways' = [gateways EXCEPT
                      ![g] = [provisioned |-> FALSE, hash |-> TRUE, meta |-> FALSE]]
    /\ adding' = adding \cup {g}
    /\ UNCHANGED <<keys, call, validation, editor, histories>>

\* Its second save inserts the metadata, or finds that another handler has.
\* It fails on its foreign key when the gateway has been deleted, and it may
\* fail for another reason or never happen: the gateway stays without.
AddMetadata(g) ==
    /\ g \in adding
    /\ adding' = adding \ {g}
    /\ \/ /\ gateways[g] # Null
          /\ gateways' = [gateways EXCEPT ![g].meta = TRUE]
       \/ UNCHANGED gateways
    /\ UNCHANGED <<keys, call, validation, editor, histories>>

-----------------------------------------------------------------------------
(* validateFactoryKey.                                                     *)

\* Finds the gateway by its factory id; without an error it goes on to
\* bcrypt.compare.  "late" records that a completion or a deletion came
\* before.
FindByFactoryId(v, g) ==
    /\ validation[v] = Null
    /\ LET refused == IF gateways[g] = Null THEN "INVALID"
                      ELSE IF gateways[g].provisioned THEN "ALREADY_PROVISIONED"
                      ELSE IF ~ gateways[g].hash THEN "INVALID"
                      ELSE "none"
       IN  validation' = [validation EXCEPT
                            ![v] = [pc |-> IF refused = "none" THEN "comparing" ELSE "done",
                                    gateway |-> g,
                                    late |-> g \in completed \cup deleted,
                                    verdict |-> refused]]
    /\ UNCHANGED <<tables, call, editor, adding, histories>>

\* The comparison needs the hash that was read, not the row.
CompareKey(v) ==
    /\ validation[v] # Null /\ validation[v].pc = "comparing"
    /\ \E verdict \in {"valid", "INVALID"} :
         validation' = [validation EXCEPT ![v].pc = "done", ![v].verdict = verdict]
    /\ UNCHANGED <<tables, call, editor, adding, histories>>

-----------------------------------------------------------------------------
(* completeProvisioning.                                                   *)

Pending(a) == call[a] # Null /\ call[a].pc = "checked"

\* A process takes the next message of its subscription when it has answered
\* the one before, and knows nothing of the other processes.  All processes
\* that handle a request read the same payload.  HTTP requests are handled as
\* they come.
MayStart(a, g, version) ==
    /\ call[a] = Null
    /\ a \in NatsCalls =>
         /\ \A r \in NatsRequests : ~ Pending(<<r, a[2]>>)
         /\ \A p \in Procs : call[<<a[1], p>>] # Null =>
              call[<<a[1], p>>].gateway = g /\ call[<<a[1], p>>].version = version

\* A mutant: NATS callers get the HTTP name of a conflict.
ErrorReplyAsHttp(a, error) ==
    IF a \in NatsCalls /\ error = "ALREADY_PROVISIONED" THEN "CONFLICT" ELSE error

\* handleComplete answers a conflict like any other failure.
ErrorReply(a, error) ==
    IF a \in NatsCalls /\ error = "ALREADY_PROVISIONED" THEN "INTERNAL" ELSE error

Started(a, g, version, pc, reply) ==
    /\ call' = [call EXCEPT ![a] = [pc |-> pc, gateway |-> g, version |-> version,
                                    reply |-> reply]]
    /\ overlapped' =
         IF pc = "checked"
         THEN overlapped \cup {<<b, a>> : b \in {d \in Calls : Pending(d) /\ call[d].gateway = g}}
         ELSE overlapped

\* A mutant: the gateway's flag is not looked at.
CheckExistsOnly(a, g, version) ==
    /\ MayStart(a, g, version)
    /\ IF gateways[g] = Null THEN Started(a, g, version, "done", "NOT_FOUND")
       ELSE Started(a, g, version, "checked", "none")
    /\ UNCHANGED <<tables, validation, editor, adding, completed, deleted, reset>>

\* The check, before the transaction and outside it.
CheckGateway(a, g, version) ==
    /\ MayStart(a, g, version)
    /\ \/ /\ gateways[g] = Null
          /\ Started(a, g, version, "done", "NOT_FOUND")
       \/ /\ gateways[g] # Null /\ gateways[g].provisioned
          /\ Started(a, g, version, "done", ErrorReply(a, "ALREADY_PROVISIONED"))
       \/ /\ gateways[g] # Null /\ ~ gateways[g].provisioned
          /\ Started(a, g, version, "checked", "none")
    /\ UNCHANGED <<tables, validation, editor, adding, completed, deleted, reset>>

Onboarded(row) == [row EXCEPT !.provisioned = TRUE, !.hash = FALSE, !.meta = TRUE]

\* The transaction commits.  The answer reaches the caller or does not; when
\* it is the database's answer to the COMMIT that is lost, the caller is told
\* of an error.
CommitCompletion(a) ==
    /\ Pending(a)
    /\ LET g == call[a].gateway
       IN  /\ gateways[g] # Null
           /\ keys' = [keys EXCEPT ![a] = [gateway |-> g, version |-> call[a].version]]
           /\ gateways' = [gateways EXCEPT ![g] = Onboarded(gateways[g])]
           /\ completed' = completed \cup {g}
    /\ \E reply \in {"success", "lost", "INTERNAL"} :
         call' = [call EXCEPT ![a].pc = "done", ![a].reply = reply]
    /\ UNCHANGED <<validation, editor, adding, deleted, reset, overlapped>>

\* Mutants: the transaction is none, and leaves what it wrote before its
\* error; the error is not reported.
AbortPartially(a) ==
    /\ Pending(a)
    /\ call' = [call EXCEPT ![a].pc = "done", ![a].reply = "INTERNAL"]
    /\ gateways' = [gateways EXCEPT ![call[a].gateway] =
                      IF @ = Null THEN Null ELSE Onboarded(@)]
    /\ UNCHANGED <<keys, validation, editor, adding, histories>>

AbortSilently(a) ==
    /\ Pending(a)
    /\ call' = [call EXCEPT ![a].pc = "done", ![a].reply = "success"]
    /\ UNCHANGED <<tables, validation, editor, adding, histories>>

\* The transaction rolls back: its first INSERT fails on the foreign key
\* when the gateway was deleted since the check; any statement may fail.
AbortCompletion(a) ==
    /\ Pending(a)
    /\ call' = [call EXCEPT ![a].pc = "done", ![a].reply = "INTERNAL"]
    /\ UNCHANGED <<tables, validation, editor, adding, histories>>

-----------------------------------------------------------------------------
(* Handlers that load a gateway and save it, and deletion.                 *)

\* findOne in updateGatewayRuntimeStatus, updateGateway and the command
\* acknowledgement consumer.
EditorLoad(e, g) ==
    /\ editor[e] = Null
    /\ gateways[g] # Null
    /\ editor' = [editor EXCEPT
                    ![e] = [gateway |-> g, provisioned |-> gateways[g].provisioned]]
    /\ UNCHANGED <<tables, call, validation, adding, histories>>

\* A mutant: the factory key's hash is loaded and saved as the other columns.
SavedColumnsWithHash(e) ==
    [provisioned |-> editor[e].provisioned, hash |-> ~ editor[e].provisioned,
     meta |-> TRUE]

\* The row that save() leaves: the loaded columns over the current ones, or
\* a new row without a hash when there is none; the metadata is cascaded.
SavedColumns(e) ==
    LET row == gateways[editor[e].gateway]
    IN  [provisioned |-> editor[e].provisioned,
         hash        |-> row # Null /\ row.hash,
         meta        |-> TRUE]

TakesBack(e) ==
    LET row == gateways[editor[e].gateway]
    IN  row # Null /\ row.provisioned /\ ~ editor[e].provisioned

EditorSave(e) ==
    /\ editor[e] # Null
    /\ gateways' = [gateways EXCEPT ![editor[e].gateway] = SavedColumns(e)]
    /\ reset' = reset \cup (IF TakesBack(e) THEN {editor[e].gateway} ELSE {})
    /\ editor' = [editor EXCEPT ![e] = Null]
    /\ UNCHANGED <<keys, call, validation, adding, completed, deleted, overlapped>>

\* deleteGateway: the row and, by ON DELETE CASCADE, its keys and metadata.
DeleteGateway(g) ==
    /\ gateways[g] # Null
    /\ gateways' = [gateways EXCEPT ![g] = Null]
    /\ keys' = [a \in Calls |->
                  IF keys[a] # Null /\ keys[a].gateway = g THEN Null ELSE keys[a]]
    /\ deleted' = deleted \cup {g}
    /\ UNCHANGED <<call, validation, editor, adding, completed, reset, overlapped>>

-----------------------------------------------------------------------------

AdminStep == \E g \in Gateways :
    \/ AddGateway(g)
    \/ AddMetadata(g)
    \/ DeleteGateway(g)

ValidateStep == \E v \in Validations :
    \/ \E g \in Gateways : FindByFactoryId(v, g)
    \/ CompareKey(v)

CompleteStep == \E a \in Calls :
    \/ \E g \in Gateways, version \in Versions : CheckGateway(a, g, version)
    \/ CommitCompletion(a)
    \/ AbortCompletion(a)

EditorStep == \E e \in Editors :
    \/ \E g \in Gateways : EditorLoad(e, g)
    \/ EditorSave(e)

Next == AdminStep \/ ValidateStep \/ CompleteStep \/ EditorStep

Spec == Init /\ [][Next]_vars

-----------------------------------------------------------------------------
(* Properties.                                                             *)

TypeOK ==
    /\ gateways \in [Gateways -> GatewayRow \cup {Null}]
    /\ keys \in [Calls -> KeyRow \cup {Null}]
    /\ call \in [Calls -> Call \cup {Null}]
    /\ validation \in [Validations -> Validation \cup {Null}]
    /\ editor \in [Editors -> Snapshot \cup {Null}]
    /\ adding \in SUBSET Gateways
    /\ completed \in SUBSET Gateways
    /\ deleted \in SUBSET Gateways
    /\ reset \in SUBSET Gateways
    /\ overlapped \in SUBSET (Calls \X Calls)

KeysOf(g) == {a \in Calls : keys[a] # Null /\ keys[a].gateway = g}

\* Safety: a gateway whose row says provisioned has its metadata and a key,
\* however saves of stale snapshots interleave with the transaction; only a
\* row that a save inserted again after a deletion has none
\* (completeProvisioning against updateGatewayRuntimeStatus, deleteGateway).
ProvisionedHasKey ==
    \A g \in Gateways :
        gateways[g] # Null /\ gateways[g].provisioned =>
            gateways[g].meta /\ (KeysOf(g) # {} \/ g \in deleted)

\* Safety: a factory key is good for one onboarding.  A validation that
\* starts after a completion, or after a deletion, never answers "valid",
\* also when a stale save has taken the provisioned flag back or inserted
\* the row again (completeProvisioning's factoryKeyHash: null,
\* gateway.entity's select: false).
FactoryKeyIsSpent ==
    \A v \in Validations :
        validation[v] # Null /\ validation[v].late =>
            validation[v].verdict \in {"INVALID", "ALREADY_PROVISIONED"}

\* Safety: what the check outside the transaction is worth.  Two keys of one
\* gateway come from calls that were past their check at the same time, or a
\* stale save took the flag back (completeProvisioning).
SecondKeyNeedsRace ==
    \A a, b \in Calls :
        /\ a # b
        /\ keys[a] # Null /\ keys[b] # Null
        /\ keys[a].gateway = keys[b].gateway
        => \/ <<a, b>> \in overlapped \/ <<b, a>> \in overlapped
           \/ keys[a].gateway \in reset

\* Safety: a caller that is told "success" has its key in the table, until
\* the gateway is deleted (completeProvisioning, handleComplete).
SuccessIsStored ==
    \A a \in Calls :
        call[a] # Null /\ call[a].reply = "success" =>
            \/ keys[a] = [gateway |-> call[a].gateway, version |-> call[a].version]
            \/ call[a].gateway \in deleted

\* The "sets provisioned=true" of nats-contracts.yaml: the row of a gateway
\* that was onboarded and not deleted shows it (completeProvisioning against
\* updateGatewayRuntimeStatus).  The save of a snapshot that is older than the
\* completion breaks it, so no run states it.
ProvisionedSticks ==
    \A a \in Calls :
        call[a] # Null /\ call[a].reply = "success"
            /\ call[a].gateway \notin deleted
        => gateways[call[a].gateway].provisioned

\* Where a gateway is, and what a handler holds of it, for the promise.
Stage(g) ==
    IF gateways[g] # Null THEN "present"
    ELSE IF g \in deleted THEN "deleted" ELSE "unknown"

Held(e) ==
    IF editor[e] = Null THEN Null
    ELSE [gateway |-> editor[e].gateway, unaware |-> ~ editor[e].provisioned]

Promise == INSTANCE Onboarding WITH
    Handlers  <- Editors,
    stage     <- [g \in Gateways |-> Stage(g)],
    keyed     <- [g \in Gateways |-> KeysOf(g)],
    entered   <- [g \in Gateways |-> {a \in Calls : Pending(a) /\ call[a].gateway = g}],
    confirmed <- {a \in Calls : call[a] # Null /\ call[a].reply = "success"},
    held      <- [e \in Editors |-> Held(e)],
    spoiled   <- reset

\* Refinement: the provisioned flag guards the key table as the promise says,
\* in all processes together: every step is a step of the promise or changes
\* nothing of it, for all orders of registrations, requests that several
\* processes handle, retries, aborts, lost answers, saves of stale snapshots
\* and deletions (ProvisioningNatsResponderService startResponder,
\* completeProvisioning).
OnboardingPromise == Promise!Spec

=============================================================================
