--------------------------- MODULE TenantSettings ---------------------------
(***************************************************************************)
(* Settings of a tenant that requests set by find-then-save: thresholds,   *)
(* one row for a sensor type or a sensor, held by unique indexes, and the  *)
(* default timeout of alerts, whose rows no index keeps apart because      *)
(* their gateway is NULL.  save() reads the row once more and then writes  *)
(* back the columns that differ from what the request has.                 *)
(***************************************************************************)
EXTENDS Naturals, FiniteSets

CONSTANTS
    Keys,        \* a sensor type, or a sensor: what a threshold is for
    Ranges,      \* ranges that requests send
    Timeouts,    \* timeouts that requests send
    Calls,       \* requests that set something, each one once; also ids of rows
    MaxSetters,  \* bound: how many of them set a threshold
    Null         \* an absent row, request or setting

Columns == {"min", "max"}

ASSUME RangesAssumption == Ranges \subseteq [Columns -> Nat]

ASSUME BoundAssumption == IsFiniteSet(Calls) /\ MaxSetters \in Nat

\* A threshold holds any numbers: that min is below max is checked by requests.
Limits == UNION {{r[x] : x \in Columns} : r \in Ranges}

Threshold == [id : Calls, range : [Columns -> Limits]]

Stamps == 0 .. Cardinality(Calls)

\* Of several default rows the one that was updated last counts.
Default == [id : Calls, timeout : Timeouts, updatedAt : Stamps]

Setter == [pc : {"loaded", "writing", "inserting", "ended"}, key : Keys, id : Calls,
           range : Ranges, changed : SUBSET Columns]

Timer == [pc : {"loaded", "writing", "inserting", "pruning", "set", "ended"},
          row : Default, changed : SUBSET {"timeout", "updatedAt"},
          duplicates : SUBSET Calls]

ASSUME NullAssumption ==
    /\ Null \notin Calls /\ Null \notin Timeouts
    /\ Null \notin Threshold /\ Null \notin Setter /\ Null \notin Timer

VARIABLES
    thresholds,  \* table thresholds of a tenant, by key
    defaults,    \* table alert_configs of a tenant: the rows without a gateway
    setter,      \* setThresholdDefaultType and setThresholdSensor, by request
    timer,       \* setDefaultAlertsConfig, by request
    overtaken,   \* history: requests whose threshold another one has saved since
    crossed,     \* history: thresholds whose columns two requests wrote
    robbed,      \* history: a duplicate was removed that another request was setting
    lone,        \* history: the request for a timeout that runs alone
    settled      \* history: what the last such request set, until the next one

histories == <<overtaken, crossed, robbed, lone, settled>>

vars == <<thresholds, defaults, setter, timer, histories>>

Init ==
    /\ thresholds = [k \in Keys |-> Null]
    /\ defaults = {}
    /\ setter = [c \in Calls |-> Null]
    /\ timer = [c \in Calls |-> Null]
    /\ overtaken = {}
    /\ crossed = {}
    /\ robbed = FALSE
    /\ lone = Null
    /\ settled = Null

Unused(c) == setter[c] = Null /\ timer[c] = Null

-----------------------------------------------------------------------------
(* Thresholds.                                                             *)

SetterAt(c, pc) == setter[c] # Null /\ setter[c].pc = pc

\* Requests about to update the row of a threshold.
WritersOf(k) == {c \in Calls : SetterAt(c, "writing") /\ setter[c].key = k}

EndSetter(c) == setter' = [setter EXCEPT ![c].pc = "ended", ![c].changed = {}]

\* validateValueRange, then findOne.
FindThreshold(c, k, range) ==
    LET found == thresholds[k]
    IN  /\ Unused(c)
        /\ Cardinality({b \in Calls : setter[b] # Null}) < MaxSetters
        /\ range["min"] < range["max"]
        /\ setter' = [setter EXCEPT ![c] =
             [pc      |-> IF found = Null THEN "inserting" ELSE "loaded",
              key     |-> k,
              id      |-> IF found = Null THEN c ELSE found.id,
              range   |-> range,
              changed |-> {}]]
        /\ UNCHANGED <<thresholds, defaults, timer, histories>>

\* A mutant: the sensor type is written, too.
ChangedWithType(row, range) == Columns \cup {"sensor_type"}

\* A mutant: the upper limit is not set.
ChangedMinOnly(row, range) == {x \in {"min"} : row.range[x] # range[x]}

Changed(row, range) == {x \in Columns : row.range[x] # range[x]}

\* save() reads the row by its id.
ReloadThreshold(c) ==
    LET a     == setter[c]
        found == thresholds[a.key]
    IN  /\ SetterAt(c, "loaded")
        /\ IF found = Null \/ found.id # a.id
           THEN setter' = [setter EXCEPT ![c].pc = "inserting"]
           ELSE IF Changed(found, a.range) = {} THEN EndSetter(c)
           ELSE setter' = [setter EXCEPT ![c].pc = "writing",
                                         ![c].changed = Changed(found, a.range)]
        /\ UNCHANGED <<thresholds, defaults, timer, histories>>

\* UPDATE ... WHERE id = ..., which may find no row.
UpdateThreshold(c) ==
    LET a   == setter[c]
        row == thresholds[a.key]
        hit == row # Null /\ row.id = a.id
    IN  /\ SetterAt(c, "writing")
        /\ thresholds' =
             IF hit
             THEN [thresholds EXCEPT ![a.key].range =
                     [x \in Columns |-> IF x \in a.changed THEN a.range[x] ELSE @[x]]]
             ELSE thresholds
        /\ overtaken' = (IF hit THEN overtaken \cup WritersOf(a.key) ELSE overtaken) \ {c}
        /\ crossed' = IF hit /\ c \in overtaken THEN crossed \cup {a.key} ELSE crossed
        /\ EndSetter(c)
        /\ UNCHANGED <<defaults, timer, robbed, lone, settled>>

\* A second row is refused by the unique index.
InsertThreshold(c) ==
    LET a == setter[c]
    IN  /\ SetterAt(c, "inserting")
        /\ IF thresholds[a.key] = Null
           THEN /\ thresholds' = [thresholds EXCEPT ![a.key] = [id |-> a.id, range |-> a.range]]
                /\ overtaken' = overtaken \cup WritersOf(a.key)
                /\ crossed' = crossed \ {a.key}
           ELSE UNCHANGED <<thresholds, overtaken, crossed>>
        /\ EndSetter(c)
        /\ UNCHANGED <<defaults, timer, robbed, lone, settled>>

\* deleteThresholdType and deleteSensorThreshold.
DeleteThreshold(k) ==
    /\ thresholds[k] # Null
    /\ thresholds' = [thresholds EXCEPT ![k] = Null]
    /\ UNCHANGED <<defaults, setter, timer, histories>>

AbandonSetter(c) ==
    /\ setter[c] # Null /\ setter[c].pc # "ended"
    /\ EndSetter(c)
    /\ overtaken' = overtaken \ {c}
    /\ UNCHANGED <<thresholds, defaults, timer, crossed, robbed, lone, settled>>

-----------------------------------------------------------------------------
(* The default timeout of alerts.                                          *)

TimerAt(c, pc) == timer[c] # Null /\ timer[c].pc = pc

Running(c) == timer[c] # Null /\ timer[c].pc \notin {"set", "ended"}

Alone(c) == \A b \in Calls \ {c} : ~ Running(b)

TimerGoto(c, pc) == timer' = [timer EXCEPT ![c].pc = pc]

\* The row of another request that is still under way.
Wanted(r, c) == \E b \in Calls \ {c} : Running(b) /\ timer[b].row.id = r.id

\* The clock: every write ends the find and save of one request.
Now == 1 + Cardinality({c \in Calls : timer[c] # Null /\ timer[c].pc \in {"pruning", "set", "ended"}})

Latest(rows) == CHOOSE r \in rows : \A s \in rows : s.updatedAt <= r.updatedAt

\* What a request that ran alone has set.
Settle(c) == settled' = IF lone = c THEN timer[c].row.timeout ELSE settled

\* All default rows, the latest first; none has an updatedAt of 0.
FindDefaults(c, timeout) ==
    /\ Unused(c)
    /\ timer' = [timer EXCEPT ![c] =
         IF defaults = {}
         THEN [pc         |-> "inserting",
               row        |-> [id |-> c, timeout |-> timeout, updatedAt |-> 0],
               changed    |-> {},
               duplicates |-> {}]
         ELSE [pc         |-> "loaded",
               row        |-> [Latest(defaults) EXCEPT !.timeout = timeout],
               changed    |-> {},
               duplicates |-> {r.id : r \in defaults \ {Latest(defaults)}}]]
    /\ lone' = IF Alone(c) THEN c ELSE Null
    /\ settled' = Null
    /\ UNCHANGED <<thresholds, defaults, setter, overtaken, crossed, robbed>>

ReloadDefault(c) ==
    LET a == timer[c]
        found == {r \in defaults : r.id = a.row.id}
        changed == {x \in {"timeout", "updatedAt"} : \E r \in found : r[x] # a.row[x]}
    IN  /\ TimerAt(c, "loaded")
        /\ timer' = [timer EXCEPT
             ![c].pc = IF found = {} THEN "inserting"
                       ELSE IF changed = {} THEN "pruning" ELSE "writing",
             ![c].changed = changed]
        /\ UNCHANGED <<thresholds, defaults, setter, histories>>

\* The database sets updated_at, unless an old one is written back.
UpdateDefault(c) ==
    LET a == timer[c]
        written(r) == [r EXCEPT
            !.timeout = IF "timeout" \in a.changed THEN a.row.timeout ELSE @,
            !.updatedAt = IF "updatedAt" \in a.changed THEN a.row.updatedAt ELSE Now]
    IN  /\ TimerAt(c, "writing")
        /\ defaults' = {IF r.id = a.row.id THEN written(r) ELSE r : r \in defaults}
        /\ TimerGoto(c, "pruning")
        /\ UNCHANGED <<thresholds, setter, histories>>

\* Nothing but the primary key keeps a row out.
InsertDefault(c) ==
    LET row == timer[c].row
        new == [row EXCEPT !.updatedAt = IF @ = 0 THEN Now ELSE @]
    IN  /\ TimerAt(c, "inserting")
        /\ IF \E r \in defaults : r.id = row.id
           THEN TimerGoto(c, "ended") /\ UNCHANGED defaults
           ELSE /\ defaults' = defaults \cup {new}
                /\ TimerGoto(c, IF row.updatedAt = 0 THEN "set" ELSE "pruning")
        /\ IF row.updatedAt = 0 THEN Settle(c) ELSE UNCHANGED settled
        /\ UNCHANGED <<thresholds, setter, overtaken, crossed, robbed, lone>>

\* A mutant: the duplicates stay.
PruneNothing(c) ==
    /\ TimerAt(c, "pruning")
    /\ Settle(c)
    /\ TimerGoto(c, "set")
    /\ UNCHANGED <<thresholds, defaults, setter, overtaken, crossed, robbed, lone>>

\* A mutant: every row that the request has listed goes.
PruneAll(c) ==
    /\ TimerAt(c, "pruning")
    /\ defaults' = {r \in defaults : r.id \notin timer[c].duplicates \cup {timer[c].row.id}}
    /\ Settle(c)
    /\ TimerGoto(c, "set")
    /\ UNCHANGED <<thresholds, setter, overtaken, crossed, robbed, lone>>

\* The duplicates that the request has listed.
Prune(c) ==
    LET gone == {r \in defaults : r.id \in timer[c].duplicates}
    IN  /\ TimerAt(c, "pruning")
        /\ defaults' = defaults \ gone
        /\ robbed' = (robbed \/ \E r \in gone : Wanted(r, c))
        /\ Settle(c)
        /\ TimerGoto(c, "set")
        /\ UNCHANGED <<thresholds, setter, overtaken, crossed, lone>>

AbandonTimer(c) ==
    /\ Running(c)
    /\ TimerGoto(c, "ended")
    /\ UNCHANGED <<thresholds, defaults, setter, histories>>

-----------------------------------------------------------------------------

ThresholdStep ==
    \/ \E k \in Keys : DeleteThreshold(k)
    \/ \E c \in Calls :
        \/ \E k \in Keys, range \in Ranges : FindThreshold(c, k, range)
        \/ ReloadThreshold(c)
        \/ UpdateThreshold(c)
        \/ InsertThreshold(c)
        \/ AbandonSetter(c)

DefaultStep == \E c \in Calls :
    \/ \E timeout \in Timeouts : FindDefaults(c, timeout)
    \/ ReloadDefault(c)
    \/ UpdateDefault(c)
    \/ InsertDefault(c)
    \/ Prune(c)
    \/ AbandonTimer(c)

Next == ThresholdStep \/ DefaultStep

Spec == Init /\ [][Next]_vars

-----------------------------------------------------------------------------

TypeOK ==
    /\ thresholds \in [Keys -> Threshold \cup {Null}]
    /\ defaults \in SUBSET Default
    /\ setter \in [Calls -> Setter \cup {Null}]
    /\ timer \in [Calls -> Timer \cup {Null}]
    /\ overtaken \in SUBSET Calls
    /\ crossed \in SUBSET Keys
    /\ robbed \in BOOLEAN
    /\ lone \in Calls \cup {Null}
    /\ settled \in Timeouts \cup {Null}

\* Safety: the range of a threshold is one that a request sent, and so one
\* that was checked, unless two requests read the row again before either
\* of them wrote its columns (setThresholdDefaultType, setThresholdSensor).
RangesAreAsked ==
    \A k \in Keys :
        thresholds[k] # Null /\ k \notin crossed =>
            \E c \in Calls : /\ setter[c] # Null /\ setter[c].key = k
                             /\ setter[c].range = thresholds[k].range

\* Safety: a request for a default timeout that overlaps with no other one
\* leaves exactly one default row, with its timeout, whatever duplicates and
\* old dates earlier ones left behind (setDefaultAlertsConfig).
LoneRequestSettles ==
    settled # Null => \E r \in defaults : defaults = {r} /\ r.timeout = settled

\* Safety: a tenant whose default was set has one, unless a request removed, as
\* a duplicate, the row that another one, still under way, had chosen to set
\* (setDefaultAlertsConfig).
DefaultRemains ==
    (\E c \in Calls : TimerAt(c, "set")) /\ defaults = {} => robbed

=============================================================================
