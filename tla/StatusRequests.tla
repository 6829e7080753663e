---------------------------- MODULE StatusRequests ----------------------------
(***************************************************************************)
(* Requests that the data consumer sends over core NATS: gateway status    *)
(* updates and queries (GatewayStatusNatsResponderService) and the list of *)
(* alert configurations, which two services answer on connections of their *)
(* own (AlertConfigNatsResponderService, AlertsNatsService).  Nobody joins *)
(* a queue group, so every process handles every request, one after the    *)
(* other per subscription, and the requester takes the first answer.       *)
(* Every await of a handler is a boundary between two actions.  The names  *)
(* keep apart from those of TenantSettings, whose proofs are in the same   *)
(* module as this one's: the lists are of the rows it sets.                *)
(***************************************************************************)
EXTENDS Naturals, FiniteSets, SequencesExt

CONSTANTS
    Procs,       \* processes of the management API
    Gateways,    \* ids of gateways
    Configs,     \* rows that the table of alert configurations may have
    Requests,    \* requests of the data consumer
    Contents,    \* what they say
    MaxEvents,   \* bound: failures of any kind and writes of other handlers
    None         \* an absent row, request, unit of work or status

ASSUME EventsAssumption == MaxEvents \in Nat

\* One subscription each; "shared" is on the connection of JetStreamClient.
Responders == {"update", "get", "list", "shared"}

SubjectOf(s) == IF s = "shared" THEN "list" ELSE s

Statuses == {"gateway_online", "gateway_offline", "gateway_suspended",
             "gateway_provisioning"}

\* A gateway without its metadata row is "bare".
Rows == Statuses \cup {"bare"}

\* A mutant: the word goes into the enum column as it is, as in the listener
\* of GatewaysNatsService, which no module provides.
NormalizeStatusVerbatim(word) == IF word = "junk" THEN None ELSE word

\* normalizeStatus, on names already trimmed and in lower case; "junk" is
\* every body that handleUpdate finds invalid.
NormalizeStatus(word) ==
    CASE word \in {"online", "gateway_online"} -> "gateway_online"
      [] word \in {"offline", "gateway_offline"} -> "gateway_offline"
      [] word \in {"paused", "suspended", "gateway_suspended"} -> "gateway_suspended"
      [] OTHER -> None

\* toModel and toLifecycleState.
ToLifecycleState(row) ==
    CASE row = "gateway_online" -> "online"
      [] row = "gateway_suspended" -> "paused"
      [] row = "gateway_provisioning" -> "provisioning"
      [] OTHER -> "offline"

ASSUME ContentsAssumption ==
    \A c \in Contents :
        /\ c.subject \in {"update", "get", "list"}
        /\ c.gateway \in Gateways
        /\ c.subject = "get" => c.word \in {"own", "foreign", "junk"}

\* An answer is the set of things it says.
Answers == SUBSET (Configs \cup
    {"success", "NOT_FOUND", "INVALID_PAYLOAD", "INTERNAL",
     "online", "offline", "paused", "provisioning"})

Work == [req : Requests, pc : {"found", "ready"}, answer : Answers]

Exchange == [content : Contents, state : {"open", "timed out", "answered"},
             answer : Answers]

ASSUME NoneAssumption ==
    None \notin Rows /\ None \notin Work /\ None \notin Exchange

VARIABLES
    gateways,  \* table gateways with the status of its metadata, or None
    configs,   \* table alerts_configs
    loop,      \* per process and responder, its loop
    inbox,     \* per process and responder, requests to handle in order
    work,      \* per process and responder, what it has in hand, or None
    request,   \* per request, what it says and the answer taken, or None
    events,    \* failures and writes of other handlers so far
    failed,    \* history: requests that met a failure of the database
    truth,     \* history: per request, answers that were right at some
               \* moment since it was sent
    latest,    \* history: per gateway, the last status that any process
               \* was asked to store
    spoiled    \* history: gateways whose row another handler changed or an
               \* update of which a process has lost

tables == <<gateways, configs>>

responders == <<loop, inbox, work>>

requestsVars == <<tables, responders, request, events, failed, truth, latest,
          spoiled>>

RequestsInit ==
    /\ gateways \in [Gateways -> {"gateway_offline", "bare", None}]
    /\ configs = {}
    /\ loop = [p \in Procs |-> [s \in Responders |-> "absent"]]
    /\ inbox = [p \in Procs |-> [s \in Responders |-> <<>>]]
    /\ work = [p \in Procs |-> [s \in Responders |-> None]]
    /\ request = [r \in Requests |-> None]
    /\ events = 0
    /\ failed = {}
    /\ truth = [r \in Requests |-> {}]
    /\ latest = [g \in Gateways |-> None]
    /\ spoiled = {}

Event ==
    /\ events < MaxEvents
    /\ events' = events + 1

Says(r) == request[r].content

Open(r) == request[r] # None /\ request[r].state = "open"

-----------------------------------------------------------------------------
(* The data consumer (external).                                           *)

\* NATS copies the request to every subscription of its subject, in the
\* order in which the requester publishes.
Ask(r, c) ==
    /\ request[r] = None
    /\ request' = [request EXCEPT ![r] =
                     [content |-> c, state |-> "open", answer |-> {}]]
    /\ LET hears(p, s) == loop[p][s] = "listening" /\ SubjectOf(s) = c.subject
       IN  /\ inbox' = [p \in Procs |-> [s \in Responders |->
                          IF hears(p, s) THEN Append(inbox[p][s], r)
                                         ELSE inbox[p][s]]]
           /\ latest' = IF /\ c.subject = "update"
                           /\ NormalizeStatus(c.word) # None
                           /\ \E p \in Procs : hears(p, "update")
                        THEN [latest EXCEPT ![c.gateway] = NormalizeStatus(c.word)]
                        ELSE latest
    /\ UNCHANGED <<tables, loop, work, events, failed, spoiled>>

\* The requester has waited 5 s, or nobody listens.  It may ask again.
TimeOut(r) ==
    /\ Open(r)
    /\ request' = [request EXCEPT ![r].state = "timed out"]
    /\ UNCHANGED <<tables, responders, events, failed, latest, spoiled>>

-----------------------------------------------------------------------------
(* The loops.                                                              *)

\* onModuleInit of the three services: connect, subscribe, and start loops
\* nobody waits for.  The services start one after the other, but what is
\* asked on one subject is not affected by the loops of another.
Start(p) ==
    /\ \A s \in Responders : loop[p][s] = "absent"
    /\ loop' = [loop EXCEPT ![p] = [s \in Responders |-> "listening"]]
    /\ UNCHANGED <<tables, inbox, work, request, events, failed,
                   latest, spoiled>>

\* Gateways whose updates a loop would drop now.
Pending(p, s) ==
    LET taken == IF work[p][s] # None /\ work[p][s].pc = "found"
                 THEN {work[p][s].req} ELSE {}
    IN  IF s = "update"
        THEN {Says(r).gateway : r \in ToSet(inbox[p][s]) \cup taken}
        ELSE {}

\* The connection is closed for good; the loop ends.
GoDeaf(p, s) ==
    /\ loop[p][s] = "listening"
    /\ Event
    /\ loop' = [loop EXCEPT ![p][s] = "ended"]
    /\ inbox' = [inbox EXCEPT ![p][s] = <<>>]
    /\ work' = [work EXCEPT ![p][s] = None]
    /\ spoiled' = spoiled \cup Pending(p, s)
    /\ UNCHANGED <<tables, request, failed, latest>>

\* The process goes, and will be started again.
Die(p) ==
    /\ \A s \in Responders : loop[p][s] # "absent"
    /\ Event
    /\ loop' = [loop EXCEPT ![p] = [s \in Responders |-> "absent"]]
    /\ inbox' = [inbox EXCEPT ![p] = [s \in Responders |-> <<>>]]
    /\ work' = [work EXCEPT ![p] = [s \in Responders |-> None]]
    /\ spoiled' = spoiled \cup Pending(p, "update")
    /\ UNCHANGED <<tables, request, failed, latest>>

\* A mutant: handlers run as messages come, whichever is first.
InTurnAny(p, s, i) == i \in DOMAIN inbox[p][s] /\ work[p][s] = None

\* for await: the next request when the one before is answered.
InTurn(p, s, i) == i = 1 /\ inbox[p][s] # <<>> /\ work[p][s] = None

\* Take(p, s, i, pc, answer): the request at place i is in hand.
Take(p, s, i, pc, answer) ==
    /\ inbox' = [inbox EXCEPT ![p][s] = RemoveAt(@, i)]
    /\ work' = [work EXCEPT ![p][s] =
                  [req |-> inbox[p][s][i], pc |-> pc, answer |-> answer]]

Unmoved == UNCHANGED <<loop, request, latest>>

\* handleUpdate up to the findOne of updateGatewayRuntimeStatus.
TakeUpdate(p, i) ==
    /\ InTurn(p, "update", i)
    /\ LET c == Says(inbox[p]["update"][i])
       IN  IF NormalizeStatus(c.word) = None
           THEN Take(p, "update", i, "ready", {"INVALID_PAYLOAD"})
           ELSE IF gateways[c.gateway] = None
           THEN Take(p, "update", i, "ready", {"NOT_FOUND"})
           ELSE Take(p, "update", i, "found", {"success"})
    /\ UNCHANGED <<tables, events, failed, spoiled>> /\ Unmoved

\* The row after an update.
Saved(r) ==
    [gateways EXCEPT ![Says(r).gateway] = NormalizeStatus(Says(r).word)]

\* save writes the status and the other columns it has loaded, makes the
\* metadata of a bare gateway and inserts a gateway that has gone.
SaveStatus(p) ==
    /\ work[p]["update"] # None /\ work[p]["update"].pc = "found"
    /\ gateways' = Saved(work[p]["update"].req)
    /\ work' = [work EXCEPT ![p]["update"].pc = "ready"]
    /\ UNCHANGED <<configs, inbox, events, failed, spoiled>> /\ Unmoved

\* handleGetStatus: an invalid body, another tenant's gateway and one that
\* is not there are all offline.
TakeGet(p, i) ==
    /\ InTurn(p, "get", i)
    /\ LET c == Says(inbox[p]["get"][i])
       IN  Take(p, "get", i, "ready",
                {IF c.word = "own" THEN ToLifecycleState(gateways[c.gateway])
                                   ELSE "offline"})
    /\ UNCHANGED <<tables, events, failed, spoiled>> /\ Unmoved

\* findAllAlertConfigs.
TakeList(p, s, i) ==
    /\ SubjectOf(s) = "list"
    /\ InTurn(p, s, i)
    /\ Take(p, s, i, "ready", configs)
    /\ UNCHANGED <<tables, events, failed, spoiled>> /\ Unmoved

\* What a responder answers when the database fails it: the two that list
\* differ, and a status query cannot be told from one about a gateway that
\* is offline.
Apology(s) ==
    CASE s = "get"  -> {"offline"}
      [] s = "list" -> {}
      [] OTHER      -> {"INTERNAL"}

\* A mutant: a refused save goes unnoticed.
DatabaseFailsUnseen(p, s) ==
    /\ Event
    /\ work[p][s] # None /\ work[p][s].pc = "found"
    /\ work' = [work EXCEPT ![p][s].pc = "ready"]
    /\ failed' = failed \cup {work[p][s].req}
    /\ spoiled' = spoiled \cup {Says(work[p][s].req).gateway}
    /\ UNCHANGED <<tables, inbox>> /\ Unmoved

\* The body is good enough to ask the database.
Usable(c) ==
    CASE c.subject = "update" -> NormalizeStatus(c.word) # None
      [] c.subject = "get"    -> c.word # "junk"
      [] OTHER                -> TRUE

\* The find of any handler is refused, or the save of an update, or the
\* answer to a save is lost.
DatabaseFails(p, s) ==
    /\ Event
    /\ \/ /\ InTurn(p, s, 1)
          /\ Usable(Says(inbox[p][s][1]))
          /\ Take(p, s, 1, "ready", Apology(s))
          /\ failed' = failed \cup {inbox[p][s][1]}
          /\ UNCHANGED gateways
       \/ /\ work[p][s] # None /\ work[p][s].pc = "found"
          /\ work' = [work EXCEPT ![p][s].pc = "ready", ![p][s].answer = Apology(s)]
          /\ failed' = failed \cup {work[p][s].req}
          /\ gateways' \in {gateways, Saved(work[p][s].req)}
          /\ UNCHANGED inbox
    /\ spoiled' = spoiled \cup Pending(p, s)
    /\ UNCHANGED configs /\ Unmoved

\* publish to the reply subject; whoever waits there takes the first answer.
Reply(p, s) ==
    /\ work[p][s] # None /\ work[p][s].pc = "ready"
    /\ LET r == work[p][s].req
       IN  request' = IF Open(r)
                      THEN [request EXCEPT ![r].state = "answered",
                                           ![r].answer = work[p][s].answer]
                      ELSE request
    /\ work' = [work EXCEPT ![p][s] = None]
    /\ UNCHANGED <<tables, loop, inbox, events, failed, latest, spoiled>>

-----------------------------------------------------------------------------
(* Around them.                                                            *)

\* Another handler changes the status: a command, a save of a gateway that
\* was loaded with an older status, a deletion or a new gateway; their steps
\* are in Commands and Provisioning.
OtherWrites(g, row) ==
    /\ gateways[g] # row
    /\ Event
    /\ gateways' = [gateways EXCEPT ![g] = row]
    /\ spoiled' = spoiled \cup {g}
    /\ UNCHANGED <<configs, responders, request, failed, latest>>

\* setGatewayAlertsConfig, setDefaultAlertsConfig and the deletion; their
\* steps are in TenantSettings.
ChangeConfig(k) ==
    /\ Event
    /\ configs' = IF k \in configs THEN configs \ {k} ELSE configs \cup {k}
    /\ UNCHANGED <<gateways, responders, request, failed, latest, spoiled>>

\* What an answer to r may say now, and be true.
Truths(r) ==
    LET c == Says(r)
    IN  CASE c.subject = "list" -> {configs}
          [] c.subject = "get" ->
                {{IF c.word = "own" THEN ToLifecycleState(gateways[c.gateway])
                                    ELSE "offline"}}
          [] OTHER ->
                IF NormalizeStatus(c.word) = None THEN {{"INVALID_PAYLOAD"}}
                ELSE IF gateways[c.gateway] = None THEN {{"NOT_FOUND"}}
                ELSE IF gateways[c.gateway] = NormalizeStatus(c.word)
                THEN {{"success"}} ELSE {}

Handlers(p) ==
    \/ \E i \in 1 .. Cardinality(Requests) :
         \/ TakeUpdate(p, i) \/ TakeGet(p, i)
         \/ \E s \in Responders : TakeList(p, s, i)
    \/ SaveStatus(p)
    \/ \E s \in Responders : DatabaseFails(p, s) \/ Reply(p, s)

RequestsNext ==
    /\ \/ \E r \in Requests : TimeOut(r) \/ \E c \in Contents : Ask(r, c)
       \/ \E p \in Procs :
            \/ Start(p) \/ Handlers(p) \/ Die(p)
            \/ \E s \in Responders : GoDeaf(p, s)
       \/ \E g \in Gateways, row \in Rows \cup {None} : OtherWrites(g, row)
       \/ \E k \in Configs : ChangeConfig(k)
    /\ truth' = [r \in Requests |->
                   IF Open(r)' THEN truth[r] \cup Truths(r)' ELSE truth[r]]

RequestsSpec == RequestsInit /\ [][RequestsNext]_requestsVars

-----------------------------------------------------------------------------
(* Properties.                                                             *)

\* Every variable keeps its shape; the status column holds nothing that its
\* enum does not know, whatever words requests carry.
RequestsTypeOK ==
    /\ gateways \in [Gateways -> Rows \cup {None}]
    /\ configs \subseteq Configs
    /\ loop \in [Procs -> [Responders -> {"absent", "listening", "ended"}]]
    /\ inbox \in [Procs -> [Responders -> Seq(Requests)]]
    /\ work \in [Procs -> [Responders -> Work \cup {None}]]
    /\ request \in [Requests -> Exchange \cup {None}]
    /\ events \in 0 .. MaxEvents
    /\ failed \subseteq Requests /\ spoiled \subseteq Gateways
    /\ truth \in [Requests -> SUBSET Answers]
    /\ latest \in [Gateways -> Statuses \cup {None}]

\* The first answer is the only one that counts, and the process that gives
\* it is any: still it says what was so at some moment between request and
\* answer (an update was in the row, a gateway was not there, the list was
\* the table), or it is the apology of a responder whose database failed.
AnswersWereTrue ==
    \A r \in Requests :
        request[r] # None /\ request[r].state = "answered" =>
            \/ request[r].answer \in truth[r]
            \/ /\ r \in failed
               /\ \E s \in Responders :
                    /\ SubjectOf(s) = Says(r).subject
                    /\ request[r].answer = Apology(s)

\* Every process saves every update, so a slow one brings an old status back
\* after a newer one was confirmed.  But when no update of a gateway is left
\* in any process, the row has the status asked for last, however the finds
\* and saves of the processes interleave, unless another handler wrote the
\* row or a process lost an update.
UpdatesConverge ==
    \A g \in Gateways \ spoiled :
        /\ gateways[g] # None /\ latest[g] # None
        /\ \A p \in Procs : g \notin Pending(p, "update")
        => gateways[g] = latest[g]

=============================================================================
