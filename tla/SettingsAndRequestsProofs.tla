--------------------- MODULE SettingsAndRequestsProofs ---------------------
(***************************************************************************)
(* Proofs about the settings of a tenant and the requests that read them.  *)
(* First TenantSettings, for any thresholds, values and requests: its type *)
(* invariant, and what requests for thresholds and a request for a default *)
(* timeout that runs alone leave behind.  Then StatusRequests, for any     *)
(* processes, gateways, configurations and requests: its type invariant,   *)
(* that answers were true and that updates converge.                       *)
(***************************************************************************)
EXTENDS TenantSettings, StatusRequests, TLAPS, FiniteSetTheorems,
        WellFoundedInduction

-----------------------------------------------------------------------------
(* The clock and the latest row.                                           *)

\* While a request has not written yet, the clock is one of its stamps.
LEMMA NowType ==
    ASSUME NEW c \in Calls, timer[c] = Null \/ timer[c].pc \notin {"pruning", "set", "ended"}
    PROVE  Now \in Stamps /\ Now # 0
<1> DEFINE W == {b \in Calls : timer[b] # Null /\ timer[b].pc \in {"pruning", "set", "ended"}}
<1>1. W \subseteq Calls /\ c \notin W
  OBVIOUS
<1>2. IsFiniteSet(W) /\ Cardinality(W) \in Nat
  BY <1>1, BoundAssumption, FS_Subset, FS_CardinalityType
<1>3. Cardinality(W \cup {c}) = Cardinality(W) + 1
  BY <1>1, <1>2, FS_AddElement
<1>4. W \cup {c} \subseteq Calls
  OBVIOUS
<1>5. Cardinality(W \cup {c}) <= Cardinality(Calls) /\ Cardinality(Calls) \in Nat
  BY <1>4, BoundAssumption, FS_Subset, FS_CardinalityType
<1>6. Now = 1 + Cardinality(W)
  BY DEF Now
<1> QED
  BY <1>2, <1>3, <1>5, <1>6 DEF Stamps

\* A set of natural numbers that is not empty has a least element.
LEMMA LeastNumber ==
    ASSUME NEW T \in SUBSET Nat, T # {}
    PROVE  \E t \in T : \A u \in T : t <= u
<1>1. \E R : IsWellFoundedOn(R, Nat) /\ \A u, v \in Nat : u < v => <<u, v>> \in R
  <2>1. ASSUME NEW u \in Nat, NEW v \in Nat, u < v
        PROVE  <<u, v>> \in OpToRel(<, Nat)
    <3>1. <<u, v>> \in Nat \X Nat /\ <<u, v>>[1] = u /\ <<u, v>>[2] = v
      OBVIOUS
    <3> QED
      BY <2>1, <3>1, Zenon DEF OpToRel
  <2> WITNESS OpToRel(<, Nat)
  <2> QED
    BY <2>1, NatLessThanWellFounded, Zenon
<1>2. PICK R : IsWellFoundedOn(R, Nat) /\ \A u, v \in Nat : u < v => <<u, v>> \in R
  BY <1>1
<1>3. IsWellFoundedOn(R, Nat)
  BY <1>2
<1>4. \A u, v \in Nat : u < v => <<u, v>> \in R
  BY <1>2
<1>5. T \subseteq Nat
  OBVIOUS
<1>6. PICK t \in T : \A u \in T : ~ (<<u, t>> \in R)
  BY <1>3, <1>5, WFMin
<1>7. ASSUME NEW u \in T PROVE t <= u
  <2>1. ~ (<<u, t>> \in R)
    BY <1>6
  <2>2. u \in Nat /\ t \in Nat
    BY <1>5
  <2>3. ~ (u < t)
    BY <1>4, <2>1, <2>2
  <2> QED
    BY <2>2, <2>3
<1> QED
  BY <1>7

\* Some default row was updated last.
LEMMA LatestExists ==
    ASSUME NEW rows \in SUBSET Default, rows # {}
    PROVE  Latest(rows) \in rows
<1> DEFINE N == Cardinality(Calls)
           T == {N - r.updatedAt : r \in rows}
<1>1. N \in Nat
  BY BoundAssumption, FS_CardinalityType
<1>2. \A r \in rows : r.updatedAt \in 0 .. N
  BY DEF Default, Stamps
<1>3. T \subseteq Nat /\ T # {}
  BY <1>1, <1>2
<1>4. PICK t \in T : \A u \in T : t <= u
  BY <1>3, LeastNumber
<1>5. PICK r \in rows : t = N - r.updatedAt
  OBVIOUS
<1>6. \A s \in rows : s.updatedAt <= r.updatedAt
  <2> TAKE s \in rows
  <2>1. N - r.updatedAt <= N - s.updatedAt
    BY <1>4, <1>5
  <2> HIDE DEF N
  <2> QED
    BY <1>1, <1>2, <2>1
<1> QED
  BY <1>6 DEF Latest

-----------------------------------------------------------------------------
(* Types.                                                                  *)

LEMMA TypeInit == Init => TypeOK
BY DEF Init, TypeOK

\* A range that a request sent may be stored.
LEMMA RangeType ==
    ASSUME NEW range \in Ranges
    PROVE  range \in [Columns -> Limits]
<1>1. range \in [Columns -> Nat]
  BY RangesAssumption
<1>2. \A x \in Columns : range[x] \in {range[y] : y \in Columns}
  OBVIOUS
<1>3. \A x \in Columns : range[x] \in Limits
  BY <1>2 DEF Limits
<1> QED
  BY <1>1, <1>3

LEMMA ThresholdType ==
    ASSUME TypeOK,
           \/ \E k \in Keys : DeleteThreshold(k)
           \/ \E c \in Calls :
                \/ \E k \in Keys, range \in Ranges : FindThreshold(c, k, range)
                \/ ReloadThreshold(c) \/ UpdateThreshold(c) \/ InsertThreshold(c)
                \/ AbandonSetter(c)
    PROVE  TypeOK'
<1>1. CASE \E k \in Keys : DeleteThreshold(k)
  BY <1>1 DEF DeleteThreshold, TypeOK, histories
<1>2. ASSUME NEW c \in Calls,
             \/ \E k \in Keys, range \in Ranges : FindThreshold(c, k, range)
             \/ ReloadThreshold(c) \/ UpdateThreshold(c) \/ InsertThreshold(c)
             \/ AbandonSetter(c)
      PROVE  TypeOK'
  <2>a. setter[c] # Null => setter[c] \in Setter
    BY DEF TypeOK
  <2>e. setter[c] # Null /\ EndSetter(c) => setter' \in [Calls -> Setter \cup {Null}]
    <3> SUFFICES ASSUME setter[c] # Null, EndSetter(c)
                 PROVE  setter' \in [Calls -> Setter \cup {Null}]
      OBVIOUS
    <3>1. [setter[c] EXCEPT !.pc = "ended", !.changed = {}] \in Setter
      BY <2>a DEF Setter
    <3>2. setter' = [setter EXCEPT ![c] = [setter[c] EXCEPT !.pc = "ended", !.changed = {}]]
      BY DEF EndSetter
    <3> QED
      BY <3>1, <3>2 DEF TypeOK
  <2>1. ASSUME NEW k \in Keys, NEW range \in Ranges, FindThreshold(c, k, range)
        PROVE  TypeOK'
    <3> DEFINE a == [pc      |-> IF thresholds[k] = Null THEN "inserting" ELSE "loaded",
                     key     |-> k,
                     id      |-> IF thresholds[k] = Null THEN c ELSE thresholds[k].id,
                     range   |-> range,
                     changed |-> {}]
    <3>1. a \in Setter
      BY DEF TypeOK, Threshold, Setter
    <3>2. setter' = [setter EXCEPT ![c] = a]
      BY <2>1 DEF FindThreshold
    <3> HIDE DEF a
    <3> QED
      BY <2>1, <3>1, <3>2 DEF FindThreshold, TypeOK, histories
  <2>2. CASE ReloadThreshold(c)
    <3> DEFINE a == setter[c]
               ch == Changed(thresholds[a.key], a.range)
    <3>1. a # Null /\ a \in Setter /\ ch \subseteq Columns
      BY <2>2, <2>a DEF ReloadThreshold, SetterAt, Changed
    <3>2. /\ [a EXCEPT !.pc = "inserting"] \in Setter
          /\ [a EXCEPT !.pc = "writing", !.changed = ch] \in Setter
      BY <3>1 DEF Setter
    <3>3. \/ EndSetter(c)
          \/ setter' = [setter EXCEPT ![c] = [a EXCEPT !.pc = "inserting"]]
          \/ setter' = [setter EXCEPT ![c] = [a EXCEPT !.pc = "writing", !.changed = ch]]
      BY <2>2 DEF ReloadThreshold
    <3> HIDE DEF ch
    <3>4. setter' \in [Calls -> Setter \cup {Null}]
      BY <2>e, <3>1, <3>2, <3>3 DEF TypeOK
    <3> QED
      BY <2>2, <3>4 DEF ReloadThreshold, TypeOK, histories
  <2>3. CASE UpdateThreshold(c)
    <3> DEFINE a == setter[c]
               row == thresholds[a.key]
               range == [x \in Columns |-> IF x \in a.changed THEN a.range[x] ELSE row.range[x]]
    <3>1. a # Null /\ a \in Setter
      BY <2>3, <2>a DEF UpdateThreshold, SetterAt
    <3>2. a.range \in [Columns -> Limits] /\ a.key \in Keys
      BY <3>1, RangeType DEF Setter
    <3>3. row # Null => row \in Threshold
      BY <3>2 DEF TypeOK
    <3>4. row # Null => range \in [Columns -> Limits]
      BY <3>2, <3>3 DEF Threshold
    <3> HIDE DEF range
    <3>5. row # Null => [row EXCEPT !.range = range] \in Threshold
      BY <3>3, <3>4 DEF Threshold
    <3>6. \/ thresholds' = thresholds
          \/ row # Null /\ thresholds' = [thresholds EXCEPT ![a.key] = [row EXCEPT !.range = range]]
      BY <2>3 DEF UpdateThreshold, range
    <3>7. thresholds' \in [Keys -> Threshold \cup {Null}]
      BY <3>5, <3>6 DEF TypeOK
    <3>8. overtaken' \in SUBSET Calls /\ crossed' \in SUBSET Keys
      BY <2>3, <3>2 DEF UpdateThreshold, WritersOf, TypeOK
    <3> QED
      BY <2>3, <2>e, <3>1, <3>7, <3>8 DEF UpdateThreshold, TypeOK
  <2>4. CASE InsertThreshold(c)
    <3> DEFINE a == setter[c]
    <3>1. a # Null /\ a \in Setter
      BY <2>4, <2>a DEF InsertThreshold, SetterAt
    <3>2. a.range \in [Columns -> Limits] /\ a.key \in Keys /\ a.id \in Calls
      BY <3>1, RangeType DEF Setter
    <3>3. [id |-> a.id, range |-> a.range] \in Threshold
      BY <3>2 DEF Threshold
    <3>4. /\ thresholds' \in [Keys -> Threshold \cup {Null}]
          /\ overtaken' \in SUBSET Calls /\ crossed' \in SUBSET Keys
      BY <2>4, <3>3 DEF InsertThreshold, WritersOf, TypeOK
    <3> QED
      BY <2>4, <2>e, <3>1, <3>4 DEF InsertThreshold, TypeOK
  <2>5. CASE AbandonSetter(c)
    BY <2>5, <2>e DEF AbandonSetter, TypeOK
  <2> QED
    BY <1>2, <2>1, <2>2, <2>3, <2>4, <2>5
<1> QED
  BY <1>1, <1>2

LEMMA DefaultType == TypeOK /\ DefaultStep => TypeOK'
<1> SUFFICES ASSUME TypeOK, NEW c \in Calls,
                    \/ \E timeout \in Timeouts : FindDefaults(c, timeout)
                    \/ ReloadDefault(c) \/ UpdateDefault(c) \/ InsertDefault(c)
                    \/ Prune(c) \/ AbandonTimer(c)
             PROVE  TypeOK'
  BY DEF DefaultStep
<1>a. timer[c] # Null => timer[c] \in Timer
  BY DEF TypeOK
<1>g. ASSUME timer[c] # Null, NEW pc \in {"pruning", "set", "ended"}, TimerGoto(c, pc)
      PROVE  timer' \in [Calls -> Timer \cup {Null}]
  <2>1. [timer[c] EXCEPT !.pc = pc] \in Timer
    BY <1>a, <1>g DEF Timer
  <2> QED
    BY <1>g, <2>1 DEF TimerGoto, TypeOK
<1>s. ASSUME timer[c] # Null, Settle(c) PROVE settled' \in Timeouts \cup {Null}
  BY <1>a, <1>s DEF Settle, TypeOK, Timer, Default
<1>1. ASSUME NEW timeout \in Timeouts, FindDefaults(c, timeout) PROVE TypeOK'
  <2> DEFINE newest == Latest(defaults)
             fresh == [pc         |-> "inserting",
                       row        |-> [id |-> c, timeout |-> timeout, updatedAt |-> 0],
                       changed    |-> {},
                       duplicates |-> {}]
             known == [pc         |-> "loaded",
                       row        |-> [newest EXCEPT !.timeout = timeout],
                       changed    |-> {},
                       duplicates |-> {r.id : r \in defaults \ {newest}}]
  <2>1. fresh \in Timer
    BY BoundAssumption, FS_CardinalityType DEF Timer, Default, Stamps
  <2>2. ASSUME defaults # {} PROVE known \in Timer
    <3>1. newest \in Default
      BY <2>2, LatestExists DEF TypeOK
    <3>2. [newest EXCEPT !.timeout = timeout] \in Default
      BY <3>1 DEF Default
    <3>3. {r.id : r \in defaults \ {newest}} \in SUBSET Calls
      BY DEF TypeOK, Default
    <3> QED
      BY <3>2, <3>3 DEF Timer
  <2>3. timer' = [timer EXCEPT ![c] = IF defaults = {} THEN fresh ELSE known]
    BY <1>1 DEF FindDefaults
  <2> HIDE DEF fresh, known
  <2>4. timer' \in [Calls -> Timer \cup {Null}]
    BY <2>1, <2>2, <2>3 DEF TypeOK
  <2> QED
    BY <1>1, <2>4 DEF FindDefaults, TypeOK
<1>2. CASE ReloadDefault(c)
  <2>1. timer[c] # Null
    BY <1>2 DEF ReloadDefault, TimerAt
  <2>2. PICK pc \in {"inserting", "pruning", "writing"}, changed \in SUBSET {"timeout", "updatedAt"} :
           timer' = [timer EXCEPT ![c] = [timer[c] EXCEPT !.pc = pc, !.changed = changed]]
    BY <1>2 DEF ReloadDefault
  <2>3. [timer[c] EXCEPT !.pc = pc, !.changed = changed] \in Timer
    BY <1>a, <2>1 DEF Timer
  <2>4. timer' \in [Calls -> Timer \cup {Null}]
    BY <2>2, <2>3 DEF TypeOK
  <2> QED
    BY <1>2, <2>4 DEF ReloadDefault, TypeOK, histories
<1>3. CASE UpdateDefault(c)
  <2> DEFINE a == timer[c]
             written(r) == [r EXCEPT
               !.timeout = IF "timeout" \in a.changed THEN a.row.timeout ELSE r.timeout,
               !.updatedAt = IF "updatedAt" \in a.changed THEN a.row.updatedAt ELSE Now]
  <2>1. a # Null /\ a.pc = "writing" /\ a.row \in Default
    BY <1>3, <1>a DEF UpdateDefault, TimerAt, Timer
  <2>2. Now \in Stamps
    BY <2>1, NowType
  <2>3. \A r \in Default : written(r) \in Default
    BY <2>1, <2>2 DEF Default
  <2>4. defaults' = {IF r.id = a.row.id THEN written(r) ELSE r : r \in defaults}
    BY <1>3 DEF UpdateDefault
  <2> HIDE DEF written
  <2>5. defaults' \in SUBSET Default
    BY <2>3, <2>4 DEF TypeOK
  <2> QED
    BY <1>3, <1>g, <2>1, <2>5 DEF UpdateDefault, TypeOK, histories
<1>4. CASE InsertDefault(c)
  <2> DEFINE row == timer[c].row
             new == [row EXCEPT !.updatedAt = IF row.updatedAt = 0 THEN Now ELSE row.updatedAt]
  <2>1. timer[c] # Null /\ timer[c].pc = "inserting" /\ row \in Default
    BY <1>4, <1>a DEF InsertDefault, TimerAt, Timer
  <2>2. Now \in Stamps
    BY <2>1, NowType
  <2>3. new \in Default
    BY <2>1, <2>2 DEF Default
  <2>4. defaults' \in {defaults, defaults \cup {new}}
    BY <1>4 DEF InsertDefault
  <2>5. defaults' \in SUBSET Default
    BY <2>3, <2>4 DEF TypeOK
  <2>6. settled' \in Timeouts \cup {Null}
    BY <1>4, <1>s, <2>1 DEF InsertDefault, TypeOK
  <2>7. timer' \in [Calls -> Timer \cup {Null}]
    BY <1>4, <1>g, <2>1 DEF InsertDefault
  <2> QED
    BY <1>4, <2>5, <2>6, <2>7 DEF InsertDefault, TypeOK
<1>5. CASE Prune(c)
  <2>1. timer[c] # Null
    BY <1>5 DEF Prune, TimerAt
  <2>2. /\ timer' \in [Calls -> Timer \cup {Null}]
        /\ settled' \in Timeouts \cup {Null}
    BY <1>5, <1>g, <1>s, <2>1 DEF Prune
  <2>3. /\ defaults' \in SUBSET Default /\ overtaken' \in SUBSET Calls
        /\ robbed' \in BOOLEAN
    BY <1>5 DEF Prune, TypeOK
  <2> QED
    BY <1>5, <2>2, <2>3 DEF Prune, TypeOK
<1>6. CASE AbandonTimer(c)
  BY <1>6, <1>g DEF AbandonTimer, Running, TypeOK, histories
<1> QED
  BY <1>1, <1>2, <1>3, <1>4, <1>5, <1>6

LEMMA TypeStep == TypeOK /\ [Next]_vars => TypeOK'
<1>1. TypeOK /\ UNCHANGED vars => TypeOK'
  BY DEF TypeOK, vars, histories
<1> QED
  BY <1>1, ThresholdType, DefaultType DEF Next, ThresholdStep

\* Every reachable state is typed, for any settings and requests.
THEOREM TenantSettingsTypes == Spec => []TypeOK
BY TypeInit, TypeStep, PTL DEF Spec

-----------------------------------------------------------------------------
(* Thresholds.                                                             *)

\* What a request that is about to write, and that nobody has overtaken,
\* knows of the row: the columns it will not write are as it wants them.
WriterKnows(c) ==
    SetterAt(c, "writing") /\ c \notin overtaken =>
        LET row == thresholds[setter[c].key]
        IN  row # Null /\ row.id = setter[c].id =>
                \A x \in Columns \ setter[c].changed : row.range[x] = setter[c].range[x]

Asked(k) ==
    thresholds[k] # Null /\ k \notin crossed =>
        \E c \in Calls : /\ setter[c] # Null /\ setter[c].key = k
                         /\ setter[c].range = thresholds[k].range

\* A request keeps what it asked for.
LEMMA SettersKeep ==
    ASSUME TypeOK, [Next]_vars, NEW c \in Calls, setter[c] # Null
    PROVE  /\ setter'[c] # Null
           /\ setter'[c].key = setter[c].key
           /\ setter'[c].range = setter[c].range
<1>1. setter[c] \in Setter
  BY DEF TypeOK
<1>2. ASSUME NEW b \in Calls, NEW pc, NEW changed,
             setter' = [setter EXCEPT ![b] = [setter[b] EXCEPT !.pc = pc, !.changed = changed]],
             pc \in {"loaded", "writing", "inserting", "ended"}, changed \in SUBSET Columns
      PROVE  /\ setter'[c] # Null
             /\ setter'[c].key = setter[c].key
             /\ setter'[c].range = setter[c].range
  <2>1. CASE b # c
    BY <1>2, <2>1 DEF TypeOK
  <2>2. CASE b = c
    <3>1. setter'[c] = [setter[c] EXCEPT !.pc = pc, !.changed = changed]
      BY <1>2, <2>2 DEF TypeOK
    <3>2. [setter[c] EXCEPT !.pc = pc, !.changed = changed] \in Setter
      BY <1>1, <1>2 DEF Setter
    <3>3. /\ [setter[c] EXCEPT !.pc = pc, !.changed = changed].key = setter[c].key
          /\ [setter[c] EXCEPT !.pc = pc, !.changed = changed].range = setter[c].range
      BY <1>1 DEF Setter
    <3> QED
      BY <3>1, <3>2, <3>3, NullAssumption
  <2> QED
    BY <2>1, <2>2
<1>3. CASE setter' = setter
  BY <1>3
<1>4. ASSUME NEW b \in Calls, EndSetter(b)
      PROVE  /\ setter'[c] # Null
             /\ setter'[c].key = setter[c].key
             /\ setter'[c].range = setter[c].range
  <2>1. \A x \in Calls : x # b => setter'[x] = setter[x]
    BY <1>4 DEF EndSetter, TypeOK
  <2>2. setter'[b] = [setter[b] EXCEPT !.pc = "ended", !.changed = {}]
    BY <1>4 DEF EndSetter, TypeOK
  <2>3. CASE b = c
    <3>1. [setter[c] EXCEPT !.pc = "ended", !.changed = {}] \in Setter
      BY <1>1 DEF Setter
    <3>2. /\ [setter[c] EXCEPT !.pc = "ended", !.changed = {}].key = setter[c].key
          /\ [setter[c] EXCEPT !.pc = "ended", !.changed = {}].range = setter[c].range
      BY <1>1 DEF Setter
    <3> QED
      BY <2>2, <2>3, <3>1, <3>2, NullAssumption
  <2> QED
    BY <2>1, <2>3
<1>5. ASSUME NEW b \in Calls, NEW k \in Keys, NEW range \in Ranges, FindThreshold(b, k, range)
      PROVE  setter'[c] = setter[c]
  BY <1>5 DEF FindThreshold, Unused, TypeOK
<1>6. ASSUME NEW b \in Calls, ReloadThreshold(b)
      PROVE  /\ setter'[c] # Null
             /\ setter'[c].key = setter[c].key
             /\ setter'[c].range = setter[c].range
  <2> DEFINE ch == Changed(thresholds[setter[b].key], setter[b].range)
  <2>1. setter[b] # Null /\ setter[b] \in Setter
    BY <1>6 DEF ReloadThreshold, SetterAt, TypeOK
  <2>2. ch \in SUBSET Columns
    BY DEF Changed
  <2>3. \/ EndSetter(b)
        \/ setter' = [setter EXCEPT ![b] = [setter[b] EXCEPT !.pc = "inserting"]]
        \/ setter' = [setter EXCEPT ![b] = [setter[b] EXCEPT !.pc = "writing", !.changed = ch]]
    BY <1>6 DEF ReloadThreshold
  <2>4. [setter[b] EXCEPT !.pc = "inserting"]
          = [setter[b] EXCEPT !.pc = "inserting", !.changed = setter[b].changed]
    BY <2>1 DEF Setter
  <2>5. setter[b].changed \in SUBSET Columns
    BY <2>1 DEF Setter
  <2> HIDE DEF ch
  <2>6. CASE EndSetter(b)
    BY <1>4, <2>6
  <2>7. CASE setter' = [setter EXCEPT ![b] = [setter[b] EXCEPT !.pc = "inserting"]]
    BY <1>2, <2>4, <2>5, <2>7
  <2>8. CASE setter' = [setter EXCEPT ![b] = [setter[b] EXCEPT !.pc = "writing", !.changed = ch]]
    BY <1>2, <2>2, <2>8
  <2> QED
    BY <2>3, <2>6, <2>7, <2>8
<1>7. CASE DefaultStep \/ (\E k \in Keys : DeleteThreshold(k)) \/ UNCHANGED vars
  BY <1>7, <1>3
  DEF DefaultStep, FindDefaults, ReloadDefault, UpdateDefault, InsertDefault, Prune,
      AbandonTimer, DeleteThreshold, vars
<1>8. CASE \E b \in Calls : UpdateThreshold(b) \/ InsertThreshold(b) \/ AbandonSetter(b)
  BY <1>8, <1>4 DEF UpdateThreshold, InsertThreshold, AbandonSetter
<1> QED
  BY <1>5, <1>6, <1>7, <1>8 DEF Next, ThresholdStep

\* A step that writes the row of a threshold overtakes who is about to.
LEMMA WriterStep ==
    ASSUME TypeOK, [Next]_vars, NEW c \in Calls, WriterKnows(c)
    PROVE  WriterKnows(c)'
<1> SUFFICES ASSUME SetterAt(c, "writing")', c \notin overtaken'
             PROVE  WriterKnows(c)'
  BY DEF WriterKnows
<1>1. ASSUME setter'[c] = setter[c], c \notin overtaken,
             \/ thresholds'[setter[c].key] = Null
             \/ thresholds'[setter[c].key] = thresholds[setter[c].key]
      PROVE  WriterKnows(c)'
  BY <1>1 DEF WriterKnows, SetterAt
<1>e. ASSUME NEW b \in Calls, setter[b] # Null, EndSetter(b)
      PROVE  b # c /\ setter'[c] = setter[c]
  <2>1. setter[b] \in Setter
    BY <1>e DEF TypeOK
  <2>2. setter'[b].pc = "ended"
    BY <1>e, <2>1 DEF EndSetter, TypeOK, Setter
  <2>3. b # c
    BY <2>2 DEF SetterAt
  <2> QED
    BY <1>e, <2>3 DEF EndSetter, TypeOK
<1>2. CASE UNCHANGED vars
  BY <1>1, <1>2 DEF vars, histories
<1>3. CASE DefaultStep
  <2>1. UNCHANGED <<thresholds, setter, overtaken>>
    BY <1>3 DEF DefaultStep, FindDefaults, ReloadDefault, UpdateDefault, InsertDefault,
                Prune, AbandonTimer, histories
  <2> QED
    BY <2>1, <1>1
<1>4. ASSUME NEW k \in Keys, DeleteThreshold(k) PROVE WriterKnows(c)'
  BY <1>1, <1>4 DEF DeleteThreshold, histories, TypeOK
<1>5. ASSUME NEW b \in Calls, NEW k \in Keys, NEW range \in Ranges, FindThreshold(b, k, range)
      PROVE  WriterKnows(c)'
  <2>1. b # c
    BY <1>5 DEF FindThreshold, SetterAt, TypeOK
  <2> QED
    BY <1>1, <1>5, <2>1 DEF FindThreshold, histories, TypeOK
<1>6. ASSUME NEW b \in Calls, ReloadThreshold(b) PROVE WriterKnows(c)'
  <2>0. setter[b] # Null /\ setter[b] \in Setter
    BY <1>6 DEF ReloadThreshold, SetterAt, TypeOK
  <2>1. CASE b # c
    <3>1. setter'[c] = setter[c]
      BY <1>6, <2>1 DEF ReloadThreshold, EndSetter, TypeOK
    <3> QED
      BY <1>1, <1>6, <3>1 DEF ReloadThreshold, histories
  <2>2. CASE b = c
    <3> DEFINE a == setter[c]
               found == thresholds[a.key]
               ch == Changed(found, a.range)
    <3>1. a \in Setter /\ thresholds' = thresholds
      BY <1>6, <2>0, <2>2 DEF ReloadThreshold
    <3>2. ~ EndSetter(c)
      BY <2>0, <2>2, <1>e
    <3>3. \/ setter' = [setter EXCEPT ![c] = [a EXCEPT !.pc = "inserting"]]
          \/ setter' = [setter EXCEPT ![c] = [a EXCEPT !.pc = "writing", !.changed = ch]]
      BY <1>6, <2>2, <3>2 DEF ReloadThreshold
    <3>4. setter'[c] # [a EXCEPT !.pc = "inserting"]
      BY <3>1 DEF SetterAt, Setter
    <3>5. setter'[c] = [a EXCEPT !.pc = "writing", !.changed = ch]
      BY <3>3, <3>4 DEF TypeOK
    <3>6. /\ setter'[c].key = a.key /\ setter'[c].range = a.range /\ setter'[c].changed = ch
      BY <3>1, <3>5 DEF Setter
    <3>7. \A x \in Columns \ ch : found.range[x] = a.range[x]
      BY DEF Changed
    <3> HIDE DEF ch
    <3> QED
      BY <3>1, <3>6, <3>7 DEF WriterKnows
  <2> QED
    BY <2>1, <2>2
<1>7. ASSUME NEW b \in Calls, UpdateThreshold(b) PROVE WriterKnows(c)'
  <2>1. b # c /\ setter'[c] = setter[c]
    BY <1>7, <1>e DEF UpdateThreshold, SetterAt
  <2>2. c \notin overtaken
    BY <1>7, <2>1 DEF UpdateThreshold
  <2>3. thresholds' = thresholds \/ c \notin WritersOf(setter[b].key)
    BY <1>7, <2>1 DEF UpdateThreshold
  <2>4. SetterAt(c, "writing")
    BY <2>1 DEF SetterAt
  <2>5. CASE setter[c].key = setter[b].key
    BY <1>1, <2>1, <2>2, <2>3, <2>4, <2>5 DEF WritersOf
  <2>6. CASE setter[c].key # setter[b].key
    <3>1. setter[c].key \in Keys
      BY <2>4 DEF SetterAt, TypeOK, Setter
    <3>2. thresholds'[setter[c].key] = thresholds[setter[c].key]
      BY <1>7, <2>6, <3>1 DEF UpdateThreshold, TypeOK
    <3> QED
      BY <1>1, <2>1, <2>2, <3>2
  <2> QED
    BY <2>5, <2>6
<1>8. ASSUME NEW b \in Calls, InsertThreshold(b) PROVE WriterKnows(c)'
  <2>1. b # c /\ setter'[c] = setter[c]
    BY <1>8, <1>e DEF InsertThreshold, SetterAt
  <2>2. c \notin overtaken
    BY <1>8 DEF InsertThreshold
  <2>3. thresholds' = thresholds \/ c \notin WritersOf(setter[b].key)
    BY <1>8 DEF InsertThreshold
  <2>4. SetterAt(c, "writing")
    BY <2>1 DEF SetterAt
  <2>5. CASE setter[c].key = setter[b].key
    BY <1>1, <2>1, <2>2, <2>3, <2>4, <2>5 DEF WritersOf
  <2>6. CASE setter[c].key # setter[b].key
    <3>1. setter[c].key \in Keys
      BY <2>4 DEF SetterAt, TypeOK, Setter
    <3>2. thresholds'[setter[c].key] = thresholds[setter[c].key]
      BY <1>8, <2>6, <3>1 DEF InsertThreshold, TypeOK
    <3> QED
      BY <1>1, <2>1, <2>2, <3>2
  <2> QED
    BY <2>5, <2>6
<1>9. ASSUME NEW b \in Calls, AbandonSetter(b) PROVE WriterKnows(c)'
  <2>1. b # c /\ setter'[c] = setter[c]
    BY <1>9, <1>e DEF AbandonSetter
  <2> QED
    BY <1>1, <1>9, <2>1 DEF AbandonSetter
<1> QED
  BY <1>2, <1>3, <1>4, <1>5, <1>6, <1>7, <1>8, <1>9 DEF Next, ThresholdStep

\* A row shows what one request asked for, or two of them have crossed.
LEMMA AskedStep ==
    ASSUME TypeOK, [Next]_vars, \A c \in Calls : WriterKnows(c), NEW k \in Keys, Asked(k)
    PROVE  Asked(k)'
<1> SUFFICES ASSUME thresholds'[k] # Null, k \notin crossed'
             PROVE  \E c \in Calls : /\ setter'[c] # Null /\ setter'[c].key = k
                                     /\ setter'[c].range = thresholds'[k].range
  BY DEF Asked
<1>1. ASSUME thresholds'[k] = thresholds[k], k \notin crossed
      PROVE  \E c \in Calls : /\ setter'[c] # Null /\ setter'[c].key = k
                              /\ setter'[c].range = thresholds'[k].range
  <2>1. PICK c \in Calls : /\ setter[c] # Null /\ setter[c].key = k
                           /\ setter[c].range = thresholds[k].range
    BY <1>1 DEF Asked
  <2> QED
    BY <1>1, <2>1, SettersKeep
<1>2. CASE \/ UNCHANGED vars \/ DefaultStep
           \/ \E b \in Calls : \/ \E l \in Keys, range \in Ranges : FindThreshold(b, l, range)
                               \/ ReloadThreshold(b) \/ AbandonSetter(b)
  <2>1. thresholds' = thresholds /\ crossed' = crossed
    BY <1>2
    DEF vars, histories, DefaultStep, FindDefaults, ReloadDefault, UpdateDefault,
        InsertDefault, Prune, AbandonTimer, FindThreshold, ReloadThreshold, AbandonSetter
  <2> QED
    BY <1>1, <2>1
<1>3. ASSUME NEW l \in Keys, DeleteThreshold(l)
      PROVE  thresholds'[k] = thresholds[k] /\ k \notin crossed
  BY <1>3 DEF DeleteThreshold, histories, TypeOK
<1>4. ASSUME NEW b \in Calls, UpdateThreshold(b)
      PROVE  \E c \in Calls : /\ setter'[c] # Null /\ setter'[c].key = k
                              /\ setter'[c].range = thresholds'[k].range
  <2> DEFINE a == setter[b]
             row == thresholds[a.key]
             range == [x \in Columns |-> IF x \in a.changed THEN a.range[x] ELSE row.range[x]]
  <2>1. a # Null /\ a \in Setter /\ a.key \in Keys
    BY <1>4 DEF UpdateThreshold, SetterAt, TypeOK, Setter
  <2>2. k \notin crossed
    BY <1>4 DEF UpdateThreshold
  <2>3. CASE a.key # k
    <3>1. thresholds'[k] = thresholds[k]
      BY <1>4, <2>3 DEF UpdateThreshold, TypeOK
    <3> QED
      BY <1>1, <2>2, <3>1
  <2>4. CASE ~ (row # Null /\ row.id = a.id)
    <3>1. thresholds' = thresholds
      BY <1>4, <2>4 DEF UpdateThreshold
    <3> QED
      BY <1>1, <2>2, <3>1
  <2>5. CASE a.key = k /\ row # Null /\ row.id = a.id
    <3>1. b \notin overtaken
      BY <1>4, <2>5 DEF UpdateThreshold
    <3>2. \A x \in Columns \ a.changed : row.range[x] = a.range[x]
      BY <1>4, <2>5, <3>1 DEF WriterKnows, UpdateThreshold
    <3>3. a.range \in [Columns -> Nat]
      BY <2>1, RangesAssumption DEF Setter
    <3>4. range = a.range
      BY <3>2, <3>3
    <3>5. thresholds' = [thresholds EXCEPT ![a.key] = [row EXCEPT !.range = range]]
      BY <1>4, <2>5 DEF UpdateThreshold
    <3>6. row \in Threshold
      BY <2>1, <2>5 DEF TypeOK
    <3> HIDE DEF range
    <3>7. thresholds'[k].range = a.range
      BY <2>1, <2>5, <3>4, <3>5, <3>6 DEF TypeOK, Threshold
    <3> QED
      BY <2>1, <2>5, <3>7, SettersKeep
  <2> QED
    BY <2>3, <2>4, <2>5
<1>5. ASSUME NEW b \in Calls, InsertThreshold(b)
      PROVE  \E c \in Calls : /\ setter'[c] # Null /\ setter'[c].key = k
                              /\ setter'[c].range = thresholds'[k].range
  <2> DEFINE a == setter[b]
  <2>1. a # Null /\ a \in Setter /\ a.key \in Keys
    BY <1>5 DEF InsertThreshold, SetterAt, TypeOK, Setter
  <2>2. CASE thresholds[a.key] # Null
    BY <1>1, <1>5, <2>2 DEF InsertThreshold
  <2>3. CASE thresholds[a.key] = Null /\ a.key # k
    <3>1. thresholds'[k] = thresholds[k] /\ k \notin crossed
      BY <1>5, <2>3 DEF InsertThreshold, TypeOK
    <3> QED
      BY <1>1, <3>1
  <2>4. CASE thresholds[a.key] = Null /\ a.key = k
    <3>1. thresholds'[k] = [id |-> a.id, range |-> a.range]
      BY <1>5, <2>4 DEF InsertThreshold, TypeOK
    <3> QED
      BY <2>1, <2>4, <3>1, SettersKeep
  <2> QED
    BY <2>2, <2>3, <2>4
<1> QED
  BY <1>1, <1>2, <1>3, <1>4, <1>5 DEF Next, ThresholdStep

\* The range of a threshold is one that a request sent, and so has been
\* checked, unless two requests have crossed: for any number of requests,
\* thresholds and ranges.
THEOREM ThresholdsAreAsked == Spec => []RangesAreAsked
<1> DEFINE Known == /\ TypeOK
                    /\ \A c \in Calls : WriterKnows(c)
                    /\ \A k \in Keys : Asked(k)
<1>1. Init => Known
  BY TypeInit DEF Init, WriterKnows, SetterAt, Asked
<1>2. Known /\ [Next]_vars => Known'
  BY TypeStep, WriterStep, AskedStep
<1>3. Known => RangesAreAsked
  BY DEF RangesAreAsked, Asked
<1> HIDE DEF Known
<1> QED
  BY <1>1, <1>2, <1>3, PTL DEF Spec

-----------------------------------------------------------------------------
(* The default timeout of alerts.                                          *)

UniqueIds == \A r, s \in defaults : r.id = s.id => r = s

LoneRuns == lone # Null => timer[lone] # Null /\ Alone(lone)

\* What the request that runs alone knows of the rows: the one it will write
\* is there, and all others are duplicates that it has listed.
LoneKnows ==
    lone # Null =>
        LET a == timer[lone]
        IN  /\ a.pc = "inserting" => a.row.updatedAt = 0 /\ defaults = {}
            /\ a.pc \in {"loaded", "writing", "pruning"} =>
                 /\ a.row.id \notin a.duplicates
                 /\ \A r \in defaults : r.id # a.row.id => r.id \in a.duplicates
                 /\ \E r \in defaults :
                        /\ r.id = a.row.id
                        /\ \/ a.pc = "pruning"
                           \/ (a.pc = "writing" /\ "timeout" \notin a.changed)
                           => r.timeout = a.row.timeout

Settled ==
    settled # Null => /\ \A c \in Calls : ~ Running(c)
                      /\ \E r \in defaults : defaults = {r} /\ r.timeout = settled

LoneInv == UniqueIds /\ LoneRuns /\ LoneKnows /\ Settled

\* Who takes a step of a request for a timeout is the one that runs alone, if
\* there is one, and nothing is settled before.
LEMMA RunningAlone ==
    ASSUME LoneInv, NEW c \in Calls, Running(c)
    PROVE  settled = Null /\ lone \in {c, Null}
BY DEF LoneInv, LoneRuns, Settled, Alone

\* Such a step keeps what is known of the other requests.
LEMMA LoneGoes ==
    ASSUME TypeOK, LoneInv, NEW c \in Calls, Running(c), lone' = lone,
           timer'[c] # Null, \A b \in Calls : b # c => timer'[b] = timer[b]
    PROVE  LoneRuns'
<1>1. lone \in {c, Null}
  BY RunningAlone
<1>2. CASE lone = Null
  BY <1>2 DEF LoneRuns
<1>3. CASE lone = c
  BY <1>3 DEF LoneInv, LoneRuns, Alone, Running
<1> QED
  BY <1>1, <1>2, <1>3

LEMMA LoneFinds ==
    ASSUME TypeOK, LoneInv, NEW c \in Calls, NEW timeout \in Timeouts, FindDefaults(c, timeout)
    PROVE  LoneInv'
<1> DEFINE newest == Latest(defaults)
           fresh == [pc         |-> "inserting",
                     row        |-> [id |-> c, timeout |-> timeout, updatedAt |-> 0],
                     changed    |-> {},
                     duplicates |-> {}]
           known == [pc         |-> "loaded",
                     row        |-> [newest EXCEPT !.timeout = timeout],
                     changed    |-> {},
                     duplicates |-> {r.id : r \in defaults \ {newest}}]
<1>1. /\ timer' = [timer EXCEPT ![c] = IF defaults = {} THEN fresh ELSE known]
      /\ lone' = (IF Alone(c) THEN c ELSE Null)
      /\ settled' = Null /\ defaults' = defaults
  BY DEF FindDefaults
<1>2. UniqueIds' /\ Settled'
  BY <1>1 DEF LoneInv, UniqueIds, Settled
<1>3. /\ timer'[c] = IF defaults = {} THEN fresh ELSE known
      /\ \A b \in Calls : b # c => timer'[b] = timer[b]
  BY <1>1 DEF TypeOK
<1>4. timer'[c] \in Timer
  <2>1. TypeOK'
    BY DefaultType DEF DefaultStep
  <2>2. timer'[c] # Null
    <3>1. timer'[c].pc \in {"inserting", "loaded"} /\ timer'[c].changed = {}
      BY <1>3
    <3>2. fresh \in Timer
      BY BoundAssumption, FS_CardinalityType DEF Timer, Default, Stamps
    <3>3. ASSUME defaults # {} PROVE known \in Timer
      <4>1. newest \in Default
        BY <3>3, LatestExists DEF TypeOK
      <4>2. [newest EXCEPT !.timeout = timeout] \in Default
        BY <4>1 DEF Default
      <4>3. {r.id : r \in defaults \ {newest}} \in SUBSET Calls
        BY DEF TypeOK, Default
      <4> QED
        BY <4>2, <4>3 DEF Timer
    <3> QED
      BY <1>3, <3>2, <3>3, NullAssumption
  <2> QED
    BY <2>1, <2>2 DEF TypeOK
<1>5. LoneRuns'
  BY <1>1, <1>3, <1>4, NullAssumption DEF LoneRuns, Alone, Running
<1>6. LoneKnows'
  <2>1. SUFFICES ASSUME lone' = c PROVE LoneKnows'
    BY <1>1 DEF LoneKnows
  <2>2. CASE defaults = {}
    BY <1>1, <1>3, <2>1, <2>2 DEF LoneKnows
  <2>3. CASE defaults # {}
    <3>1. newest \in defaults /\ newest \in Default
      BY <2>3, LatestExists DEF TypeOK
    <3>2. known.row.id = newest.id
      BY <3>1 DEF Default
    <3>3. \A r \in defaults : r.id = newest.id => r = newest
      BY <3>1 DEF LoneInv, UniqueIds
    <3>4. /\ known.row.id \notin known.duplicates
          /\ \A r \in defaults : r.id # known.row.id => r.id \in known.duplicates
      BY <3>1, <3>2, <3>3
    <3>5. timer'[c] = known /\ known.pc = "loaded"
      BY <1>3, <2>3
    <3> HIDE DEF known, newest
    <3> QED
      BY <1>1, <2>1, <3>1, <3>2, <3>4, <3>5 DEF LoneKnows
  <2> QED
    BY <2>2, <2>3
<1> QED
  BY <1>2, <1>5, <1>6 DEF LoneInv

LEMMA LoneReloads ==
    ASSUME TypeOK, LoneInv, NEW c \in Calls, ReloadDefault(c)
    PROVE  LoneInv'
<1> DEFINE a == timer[c]
           found == {r \in defaults : r.id = a.row.id}
           changed == {x \in {"timeout", "updatedAt"} : \E r \in found : r[x] # a.row[x]}
           pc == IF found = {} THEN "inserting"
                 ELSE IF changed = {} THEN "pruning" ELSE "writing"
<1>1. a # Null /\ a \in Timer /\ a.pc = "loaded" /\ Running(c)
  BY DEF ReloadDefault, TimerAt, Running, TypeOK
<1>2. /\ timer' = [timer EXCEPT ![c] = [a EXCEPT !.pc = pc, !.changed = changed]]
      /\ UNCHANGED <<defaults, lone, settled>>
  BY DEF ReloadDefault, histories
<1>3. settled = Null /\ lone \in {c, Null}
  BY <1>1, RunningAlone
<1>4. /\ timer'[c].pc = pc /\ timer'[c].changed = changed
      /\ timer'[c].row = a.row /\ timer'[c].duplicates = a.duplicates
      /\ timer'[c] \in Timer
      /\ \A b \in Calls : b # c => timer'[b] = timer[b]
  <2>1. timer'[c] = [a EXCEPT !.pc = pc, !.changed = changed]
    BY <1>2 DEF TypeOK
  <2>2. \A b \in Calls : b # c => timer'[b] = timer[b]
    BY <1>2 DEF TypeOK
  <2>3. pc \in {"inserting", "pruning", "writing"} /\ changed \in SUBSET {"timeout", "updatedAt"}
    OBVIOUS
  <2> HIDE DEF a, pc, changed
  <2> QED
    BY <1>1, <2>1, <2>2, <2>3 DEF Timer
<1>5. UniqueIds' /\ Settled'
  BY <1>2, <1>3 DEF LoneInv, UniqueIds, Settled
<1>6. LoneRuns'
  BY <1>1, <1>2, <1>4, LoneGoes, NullAssumption
<1>7. LoneKnows'
  <2>1. SUFFICES ASSUME lone = c, c # Null PROVE LoneKnows'
    BY <1>2, <1>3 DEF LoneKnows
  <2>2. PICK r \in defaults : r.id = a.row.id
    BY <1>1, <2>1 DEF LoneInv, LoneKnows
  <2>3. r \in found /\ pc \in {"pruning", "writing"}
    BY <2>2
  <2>4. pc = "pruning" \/ (pc = "writing" /\ "timeout" \notin changed) => r.timeout = a.row.timeout
    BY <2>3
  <2>5. /\ a.row.id \notin a.duplicates
        /\ \A s \in defaults : s.id # a.row.id => s.id \in a.duplicates
    BY <1>1, <2>1 DEF LoneInv, LoneKnows
  <2>6. lone' = c /\ c # Null /\ defaults' = defaults
    BY <1>2, <2>1
  <2>7. pc # "inserting"
    BY <2>3
  <2> HIDE DEF a, pc, changed, found
  <2>8. \E s \in defaults' :
          /\ s.id = timer'[c].row.id
          /\ \/ timer'[c].pc = "pruning"
             \/ timer'[c].pc = "writing" /\ "timeout" \notin timer'[c].changed
             => s.timeout = timer'[c].row.timeout
    BY <1>4, <2>2, <2>4, <2>6
  <2> QED
    BY <1>4, <2>5, <2>6, <2>7, <2>8 DEF LoneKnows
<1> QED
  BY <1>5, <1>6, <1>7 DEF LoneInv

LEMMA LoneUpdates ==
    ASSUME TypeOK, LoneInv, NEW c \in Calls, UpdateDefault(c)
    PROVE  LoneInv'
<1> DEFINE a == timer[c]
           written(r) == [r EXCEPT
             !.timeout = IF "timeout" \in a.changed THEN a.row.timeout ELSE r.timeout,
             !.updatedAt = IF "updatedAt" \in a.changed THEN a.row.updatedAt ELSE Now]
           after(r) == IF r.id = a.row.id THEN written(r) ELSE r
<1>1. a # Null /\ a \in Timer /\ a.pc = "writing" /\ Running(c)
  BY DEF UpdateDefault, TimerAt, Running, TypeOK
<1>2. /\ defaults' = {after(r) : r \in defaults}
      /\ timer' = [timer EXCEPT ![c] = [a EXCEPT !.pc = "pruning"]]
      /\ UNCHANGED <<lone, settled>>
  BY DEF UpdateDefault, TimerGoto, histories
<1>3. settled = Null /\ lone \in {c, Null}
  BY <1>1, RunningAlone
<1>4. /\ timer'[c].pc = "pruning"
      /\ timer'[c].row = a.row /\ timer'[c].duplicates = a.duplicates
      /\ timer'[c] \in Timer
      /\ \A b \in Calls : b # c => timer'[b] = timer[b]
  BY <1>1, <1>2 DEF TypeOK, Timer
<1>5. \A r \in defaults :
        /\ after(r).id = r.id
        /\ r.id = a.row.id => after(r).timeout = IF "timeout" \in a.changed
                                                 THEN a.row.timeout ELSE r.timeout
  BY DEF TypeOK, Default
<1> HIDE DEF a, after
<1>6. UniqueIds'
  BY <1>2, <1>5 DEF LoneInv, UniqueIds
<1>7. LoneRuns' /\ Settled'
  BY <1>1, <1>2, <1>3, <1>4, LoneGoes, NullAssumption DEF Settled
<1>8. LoneKnows'
  <2>1. SUFFICES ASSUME lone = c, c # Null PROVE LoneKnows'
    BY <1>2, <1>3 DEF LoneKnows
  <2>2. /\ a.row.id \notin a.duplicates
        /\ \A s \in defaults : s.id # a.row.id => s.id \in a.duplicates
        /\ \E s \in defaults : /\ s.id = a.row.id
                               /\ "timeout" \notin a.changed => s.timeout = a.row.timeout
    BY <1>1, <2>1 DEF LoneInv, LoneKnows, a
  <2>3. PICK r \in defaults : /\ r.id = a.row.id
                              /\ "timeout" \notin a.changed => r.timeout = a.row.timeout
    BY <2>2
  <2>4. /\ after(r) \in defaults' /\ after(r).id = a.row.id
        /\ after(r).timeout = a.row.timeout
    BY <1>2, <1>5, <2>3
  <2>5. \A s \in defaults' : s.id # a.row.id => s.id \in a.duplicates
    BY <1>2, <1>5, <2>2
  <2> QED
    BY <1>2, <1>4, <2>1, <2>2, <2>4, <2>5 DEF LoneKnows
<1> QED
  BY <1>6, <1>7, <1>8 DEF LoneInv

\* A request ends: when it ran alone, its row is the only one.
LEMMA LoneEnds ==
    ASSUME TypeOK, LoneInv, NEW c \in Calls, Running(c), UniqueIds', lone' = lone,
           timer' = [timer EXCEPT ![c].pc = "set"], Settle(c),
           lone = c => \E r \in defaults' : defaults' = {r} /\ r.timeout = timer[c].row.timeout
    PROVE  LoneInv'
<1>1. timer[c] # Null /\ timer[c] \in Timer
  BY DEF Running, TypeOK
<1>2. settled = Null /\ lone \in {c, Null}
  BY RunningAlone
<1>3. /\ timer'[c].pc = "set" /\ timer'[c] \in Timer
      /\ \A b \in Calls : b # c => timer'[b] = timer[b]
  BY <1>1 DEF TypeOK, Timer
<1>4. LoneRuns'
  BY <1>3, LoneGoes, NullAssumption
<1>5. LoneKnows'
  BY <1>2, <1>3 DEF LoneKnows
<1>6. Settled'
  <2>1. CASE lone = c
    <3>1. \A b \in Calls : ~ Running(b)'
      BY <1>3, <2>1, NullAssumption DEF LoneInv, LoneRuns, Alone, Running
    <3> QED
      BY <2>1, <3>1 DEF Settle, Settled
  <2>2. CASE lone # c
    BY <1>2, <2>2 DEF Settle, Settled
  <2> QED
    BY <2>1, <2>2
<1> QED
  BY <1>4, <1>5, <1>6 DEF LoneInv

LEMMA LoneInserts ==
    ASSUME TypeOK, LoneInv, NEW c \in Calls, InsertDefault(c)
    PROVE  LoneInv'
<1> DEFINE row == timer[c].row
           new == [row EXCEPT !.updatedAt = IF row.updatedAt = 0 THEN Now ELSE row.updatedAt]
<1>1. timer[c] # Null /\ timer[c] \in Timer /\ timer[c].pc = "inserting" /\ Running(c)
  BY DEF InsertDefault, TimerAt, Running, TypeOK
<1>2. settled = Null /\ lone \in {c, Null} /\ lone' = lone
  BY <1>1, RunningAlone DEF InsertDefault
<1>3. new.id = row.id /\ new.timeout = row.timeout
  BY <1>1 DEF Timer, Default
<1>4. lone = c => row.updatedAt = 0 /\ defaults = {}
  BY <1>1, NullAssumption DEF LoneInv, LoneKnows
<1>5. CASE \E r \in defaults : r.id = row.id
  <2>1. lone = Null
    BY <1>2, <1>4, <1>5
  <2>2. UNCHANGED <<defaults, lone>> /\ settled' = Null
    BY <1>2, <1>5, <2>1, NullAssumption DEF InsertDefault, Settle
  <2> QED
    BY <2>1, <2>2 DEF LoneInv, UniqueIds, LoneRuns, LoneKnows, Settled
<1>6. CASE ~ \E r \in defaults : r.id = row.id
  <2>1. defaults' = defaults \cup {new}
    BY <1>6 DEF InsertDefault
  <2> HIDE DEF new
  <2>2. UniqueIds'
    BY <1>3, <1>6, <2>1 DEF LoneInv, UniqueIds
  <2>3. CASE row.updatedAt = 0
    <3>1. timer' = [timer EXCEPT ![c].pc = "set"] /\ Settle(c)
      BY <1>6, <2>3 DEF InsertDefault, TimerGoto
    <3>2. lone = c => defaults' = {new} /\ new.timeout = timer[c].row.timeout
      BY <1>3, <1>4, <2>1
    <3> QED
      BY <1>1, <1>2, <2>2, <3>1, <3>2, LoneEnds
  <2>4. CASE row.updatedAt # 0
    <3>1. lone = Null /\ settled' = Null
      BY <1>2, <1>4, <2>4 DEF InsertDefault
    <3> QED
      BY <1>2, <2>2, <3>1 DEF LoneInv, LoneRuns, LoneKnows, Settled
  <2> QED
    BY <2>3, <2>4
<1> QED
  BY <1>5, <1>6

LEMMA LonePrunes ==
    ASSUME TypeOK, LoneInv, NEW c \in Calls, Prune(c)
    PROVE  LoneInv'
<1> DEFINE a == timer[c]
<1>1. a # Null /\ a.pc = "pruning" /\ Running(c)
  BY DEF Prune, TimerAt, Running
<1>2. /\ defaults' = {r \in defaults : r.id \notin a.duplicates}
      /\ timer' = [timer EXCEPT ![c].pc = "set"] /\ Settle(c) /\ lone' = lone
  BY DEF Prune, TimerGoto
<1>3. UniqueIds'
  BY <1>2 DEF LoneInv, UniqueIds
<1>4. ASSUME lone = c
      PROVE  \E r \in defaults' : defaults' = {r} /\ r.timeout = a.row.timeout
  <2>1. /\ a.row.id \notin a.duplicates
        /\ \A s \in defaults : s.id # a.row.id => s.id \in a.duplicates
        /\ \E s \in defaults : s.id = a.row.id /\ s.timeout = a.row.timeout
    BY <1>1, <1>4, NullAssumption DEF LoneInv, LoneKnows
  <2>2. PICK r \in defaults : r.id = a.row.id /\ r.timeout = a.row.timeout
    BY <2>1
  <2>3. \A s \in defaults' : s = r
    BY <1>2, <2>1, <2>2 DEF LoneInv, UniqueIds
  <2>4. r \in defaults'
    BY <1>2, <2>1, <2>2
  <2> QED
    BY <2>2, <2>3, <2>4
<1> QED
  BY <1>1, <1>2, <1>3, <1>4, LoneEnds

LEMMA LoneAbandons ==
    ASSUME TypeOK, LoneInv, NEW c \in Calls, AbandonTimer(c)
    PROVE  LoneInv'
<1>1. timer[c] # Null /\ timer[c] \in Timer /\ Running(c)
  BY DEF AbandonTimer, Running, TypeOK
<1>2. settled = Null /\ lone \in {c, Null} /\ UNCHANGED <<defaults, lone, settled>>
  BY <1>1, RunningAlone DEF AbandonTimer, histories
<1>3. /\ timer'[c].pc = "ended" /\ timer'[c] \in Timer
      /\ \A b \in Calls : b # c => timer'[b] = timer[b]
  BY <1>1 DEF AbandonTimer, TimerGoto, TypeOK, Timer
<1>4. LoneRuns'
  BY <1>1, <1>2, <1>3, LoneGoes, NullAssumption
<1> QED
  BY <1>2, <1>3, <1>4 DEF LoneInv, UniqueIds, LoneKnows, Settled

LEMMA LoneStep == TypeOK /\ LoneInv /\ [Next]_vars => LoneInv'
<1>1. ASSUME LoneInv, UNCHANGED <<defaults, timer, lone, settled>> PROVE LoneInv'
  BY <1>1 DEF LoneInv, UniqueIds, LoneRuns, LoneKnows, Settled, Alone, Running
<1>2. UNCHANGED vars \/ ThresholdStep => UNCHANGED <<defaults, timer, lone, settled>>
  BY DEF vars, histories, ThresholdStep, DeleteThreshold, FindThreshold, ReloadThreshold,
         UpdateThreshold, InsertThreshold, AbandonSetter
<1>3. TypeOK /\ LoneInv /\ DefaultStep => LoneInv'
  BY LoneFinds, LoneReloads, LoneUpdates, LoneInserts, LonePrunes, LoneAbandons
  DEF DefaultStep
<1> QED
  BY <1>1, <1>2, <1>3 DEF Next

\* Unless a row was removed under it, a request that goes on has its own one
\* and will not remove it; so whoever comes to an end leaves a default.
HasRow(c) ==
    Running(c) =>
        LET a == timer[c]
        IN  /\ a.row.id \notin a.duplicates
            /\ a.pc # "inserting" => \E r \in defaults : r.id = a.row.id

Remains ==
    ~ robbed => /\ \A c \in Calls : HasRow(c)
                /\ DefaultRemains

\* A step that keeps all rows may move one request on.
LEMMA RemainsGoes ==
    ASSUME TypeOK, Remains, NEW c \in Calls, robbed' = robbed,
           \A r \in defaults : \E s \in defaults' : s.id = r.id,
           \A b \in Calls : b # c => timer'[b] = timer[b],
           ~ robbed => HasRow(c)',
           TimerAt(c, "set")' => defaults' # {}
    PROVE  Remains'
<1>1. SUFFICES ASSUME ~ robbed PROVE (\A b \in Calls : HasRow(b)') /\ DefaultRemains'
  BY DEF Remains
<1>2. ASSUME NEW b \in Calls, b # c PROVE HasRow(b)'
  BY <1>1, <1>2 DEF Remains, HasRow, Running
<1>3. DefaultRemains'
  BY <1>1 DEF Remains, DefaultRemains, TimerAt
<1> QED
  BY <1>1, <1>2, <1>3

LEMMA RemainsFinds ==
    ASSUME TypeOK, UniqueIds, Remains, NEW c \in Calls, NEW timeout \in Timeouts,
           FindDefaults(c, timeout)
    PROVE  Remains'
<1> DEFINE newest == Latest(defaults)
           fresh == [pc         |-> "inserting",
                     row        |-> [id |-> c, timeout |-> timeout, updatedAt |-> 0],
                     changed    |-> {},
                     duplicates |-> {}]
           known == [pc         |-> "loaded",
                     row        |-> [newest EXCEPT !.timeout = timeout],
                     changed    |-> {},
                     duplicates |-> {r.id : r \in defaults \ {newest}}]
<1>1. /\ timer'[c] = IF defaults = {} THEN fresh ELSE known
      /\ \A b \in Calls : b # c => timer'[b] = timer[b]
      /\ defaults' = defaults /\ robbed' = robbed
  BY DEF FindDefaults, TypeOK
<1>2. timer'[c].pc # "set"
  BY <1>1
<1>3. HasRow(c)'
  <2>1. CASE defaults = {}
    BY <1>1, <2>1 DEF HasRow
  <2>2. CASE defaults # {}
    <3>1. newest \in defaults /\ newest \in Default
      BY <2>2, LatestExists DEF TypeOK
    <3>2. known.row.id = newest.id
      BY <3>1 DEF Default
    <3>3. known.row.id \notin known.duplicates
      BY <3>1, <3>2 DEF UniqueIds
    <3>4. timer'[c] = known
      BY <1>1, <2>2
    <3> HIDE DEF known, newest
    <3> QED
      BY <1>1, <3>1, <3>2, <3>3, <3>4 DEF HasRow
  <2> QED
    BY <2>1, <2>2
<1> QED
  BY <1>1, <1>2, <1>3, RemainsGoes DEF TimerAt

\* The middle of a request: it has its row, or inserts it again.
LEMMA RemainsWrites ==
    ASSUME TypeOK, Remains, NEW c \in Calls, ReloadDefault(c) \/ UpdateDefault(c)
    PROVE  Remains'
<1> DEFINE a == timer[c]
<1>1. a # Null /\ a \in Timer /\ Running(c) /\ a.pc \in {"loaded", "writing"}
  BY DEF ReloadDefault, UpdateDefault, TimerAt, Running, TypeOK
<1>2. /\ robbed' = robbed
      /\ \A b \in Calls : b # c => timer'[b] = timer[b]
  BY DEF ReloadDefault, UpdateDefault, TimerGoto, histories, TypeOK
<1>3. \A r \in defaults : \E s \in defaults' : s.id = r.id
  <2>1. CASE ReloadDefault(c)
    BY <2>1 DEF ReloadDefault
  <2>2. CASE UpdateDefault(c)
    <3> DEFINE written(r) == [r EXCEPT
                 !.timeout = IF "timeout" \in a.changed THEN a.row.timeout ELSE r.timeout,
                 !.updatedAt = IF "updatedAt" \in a.changed THEN a.row.updatedAt ELSE Now]
               after(r) == IF r.id = a.row.id THEN written(r) ELSE r
    <3>1. defaults' = {after(r) : r \in defaults}
      BY <2>2 DEF UpdateDefault
    <3>2. \A r \in defaults : after(r).id = r.id
      BY DEF TypeOK, Default
    <3> HIDE DEF after
    <3> QED
      BY <3>1, <3>2
  <2> QED
    BY <2>1, <2>2
<1>4. /\ timer'[c].row = a.row /\ timer'[c].duplicates = a.duplicates
      /\ timer'[c].pc \in {"inserting", "pruning", "writing"}
  <2>1. PICK pc \in {"inserting", "pruning", "writing"}, changed \in SUBSET {"timeout", "updatedAt"} :
          timer'[c] = [a EXCEPT !.pc = pc, !.changed = changed]
    <3>1. CASE ReloadDefault(c)
      BY <1>1, <3>1 DEF ReloadDefault, TypeOK
    <3>2. CASE UpdateDefault(c)
      <4>1. timer'[c] = [a EXCEPT !.pc = "pruning"]
        BY <1>1, <3>2 DEF UpdateDefault, TimerGoto, TypeOK
      <4>2. [a EXCEPT !.pc = "pruning"] = [a EXCEPT !.pc = "pruning", !.changed = a.changed]
        BY <1>1 DEF Timer
      <4> QED
        BY <1>1, <4>1, <4>2 DEF Timer
    <3> QED
      BY <3>1, <3>2
  <2> QED
    BY <1>1, <2>1 DEF Timer
<1>5. ~ robbed => HasRow(c)'
  BY <1>1, <1>3, <1>4 DEF Remains, HasRow
<1> QED
  BY <1>2, <1>3, <1>4, <1>5, RemainsGoes DEF TimerAt

LEMMA RemainsInserts ==
    ASSUME TypeOK, Remains, NEW c \in Calls, InsertDefault(c)
    PROVE  Remains'
<1> DEFINE a == timer[c]
           new == [a.row EXCEPT !.updatedAt = IF a.row.updatedAt = 0 THEN Now ELSE a.row.updatedAt]
<1>1. a # Null /\ a \in Timer /\ a.pc = "inserting" /\ Running(c)
  BY DEF InsertDefault, TimerAt, Running, TypeOK
<1>2. robbed' = robbed /\ new.id = a.row.id
  BY <1>1 DEF InsertDefault, Timer, Default
<1>3. PICK pc \in {"ended", "set", "pruning"} :
        /\ TimerGoto(c, pc)
        /\ IF pc = "ended" THEN defaults' = defaults ELSE defaults' = defaults \cup {new}
  BY DEF InsertDefault
<1> HIDE DEF new
<1>4. /\ timer'[c] # Null /\ timer'[c].pc = pc
      /\ timer'[c].row = a.row /\ timer'[c].duplicates = a.duplicates
      /\ \A b \in Calls : b # c => timer'[b] = timer[b]
  <2>1. timer'[c] = [a EXCEPT !.pc = pc]
    BY <1>3 DEF TimerGoto, TypeOK
  <2>2. [a EXCEPT !.pc = pc] \in Timer
    BY <1>1, <1>3 DEF Timer
  <2>3. \A b \in Calls : b # c => timer'[b] = timer[b]
    BY <1>3 DEF TimerGoto, TypeOK
  <2> QED
    BY <1>1, <2>1, <2>2, <2>3, NullAssumption DEF Timer
<1>5. ~ robbed => HasRow(c)'
  BY <1>1, <1>2, <1>3, <1>4 DEF Remains, HasRow, Running
<1> QED
  BY <1>2, <1>3, <1>4, <1>5, RemainsGoes DEF TimerAt

\* Who prunes keeps its own row and, unless it robs them, those of the others.
LEMMA RemainsPrunes ==
    ASSUME TypeOK, Remains, NEW c \in Calls, Prune(c)
    PROVE  Remains'
<1> DEFINE a == timer[c]
<1>1. a # Null /\ a \in Timer /\ a.pc = "pruning" /\ Running(c)
  BY DEF Prune, TimerAt, Running, TypeOK
<1>2. /\ timer'[c].pc = "set"
      /\ \A b \in Calls : b # c => timer'[b] = timer[b]
  BY <1>1 DEF Prune, TimerGoto, TypeOK, Timer
<1>3. /\ defaults' = {r \in defaults : r.id \notin a.duplicates}
      /\ ~ robbed' => /\ ~ robbed
                      /\ \A r \in defaults : r.id \in a.duplicates => ~ Wanted(r, c)
  BY DEF Prune
<1>4. SUFFICES ASSUME ~ robbed' PROVE (\A b \in Calls : HasRow(b)') /\ DefaultRemains'
  BY DEF Remains
<1>5. ASSUME NEW b \in Calls, b # c PROVE HasRow(b)'
  <2>1. SUFFICES ASSUME Running(b) PROVE HasRow(b)'
    BY <1>2, <1>5 DEF HasRow, Running
  <2>2. HasRow(b)
    BY <1>3, <1>4 DEF Remains
  <2>3. \A r \in defaults : r.id = timer[b].row.id => r \in defaults'
    BY <1>3, <1>4, <1>5, <2>1 DEF Wanted
  <2> QED
    BY <1>2, <1>5, <2>1, <2>2, <2>3 DEF HasRow
<1>6. HasRow(c)'
  BY <1>2 DEF HasRow, Running
<1>7. defaults' # {}
  BY <1>1, <1>3, <1>4 DEF Remains, HasRow
<1> QED
  BY <1>5, <1>6, <1>7 DEF DefaultRemains

LEMMA RemainsAbandons ==
    ASSUME TypeOK, Remains, NEW c \in Calls, AbandonTimer(c)
    PROVE  Remains'
<1>1. /\ timer'[c].pc = "ended" /\ defaults' = defaults /\ robbed' = robbed
      /\ \A b \in Calls : b # c => timer'[b] = timer[b]
  BY DEF AbandonTimer, Running, TimerGoto, histories, TypeOK, Timer
<1> QED
  BY <1>1, RemainsGoes DEF HasRow, Running, TimerAt

LEMMA RemainsStep == TypeOK /\ LoneInv /\ Remains /\ [Next]_vars => Remains'
<1>1. ASSUME Remains, UNCHANGED <<defaults, timer, robbed>> PROVE Remains'
  BY <1>1 DEF Remains, HasRow, Running, DefaultRemains, TimerAt
<1>2. UNCHANGED vars \/ ThresholdStep => UNCHANGED <<defaults, timer, robbed>>
  BY DEF vars, histories, ThresholdStep, DeleteThreshold, FindThreshold, ReloadThreshold,
         UpdateThreshold, InsertThreshold, AbandonSetter
<1>3. TypeOK /\ LoneInv /\ Remains /\ DefaultStep => Remains'
  BY RemainsFinds, RemainsWrites, RemainsInserts, RemainsPrunes, RemainsAbandons
  DEF DefaultStep, LoneInv
<1> QED
  BY <1>1, <1>2, <1>3 DEF Next

\* A request for a default timeout that overlaps with no other one leaves
\* exactly one default row, with its timeout: for any number of requests, and
\* whatever rows earlier ones left behind.
THEOREM LoneRequestsSettle == Spec => []LoneRequestSettles
<1>1. Init => LoneInv
  BY DEF Init, LoneInv, UniqueIds, LoneRuns, LoneKnows, Settled
<1>2. TypeOK /\ LoneInv /\ [Next]_vars => LoneInv'
  BY LoneStep
<1>3. LoneInv => LoneRequestSettles
  BY DEF LoneInv, Settled, LoneRequestSettles
<1> QED
  BY <1>1, <1>2, <1>3, TenantSettingsTypes, PTL DEF Spec

\* A tenant whose default timeout was set has one, unless the row of a request
\* under way was removed as a duplicate: for any number of requests.
THEOREM TheDefaultRemains == Spec => []DefaultRemains
<1>1. Init => LoneInv /\ Remains
  BY DEF Init, LoneInv, UniqueIds, LoneRuns, LoneKnows, Settled, Remains, HasRow, Running,
         DefaultRemains, TimerAt
<1>2. TypeOK /\ LoneInv /\ Remains /\ [Next]_vars => LoneInv' /\ Remains'
  BY LoneStep, RemainsStep
<1>3. Remains => DefaultRemains
  BY DEF Remains, DefaultRemains
<1> QED
  BY <1>1, <1>2, <1>3, TenantSettingsTypes, PTL DEF Spec

-----------------------------------------------------------------------------
(* StatusRequests.  Queues.                                                *)

\* What is left of a queue whose first element is taken.
LEMMA RestOfQueue ==
    ASSUME NEW T, NEW q \in Seq(T), q # <<>>
    PROVE  /\ q[1] \in T
           /\ RemoveAt(q, 1) \in Seq(T)
           /\ Len(RemoveAt(q, 1)) = Len(q) - 1
           /\ \A i \in 1 .. Len(q) - 1 : RemoveAt(q, 1)[i] = q[i + 1]
<1>1. Len(q) \in Nat \ {0}
  OBVIOUS
<1>2. SubSeq(q, 1, 0) = <<>>
  OBVIOUS
<1>3. /\ SubSeq(q, 2, Len(q)) \in Seq(T)
      /\ Len(SubSeq(q, 2, Len(q))) = Len(q) - 1
      /\ \A i \in 1 .. Len(q) - 1 : SubSeq(q, 2, Len(q))[i] = q[i + 1]
  BY <1>1
<1>4. RemoveAt(q, 1) = SubSeq(q, 2, Len(q))
  BY <1>2, <1>3 DEF RemoveAt
<1>5. q[1] \in T
  BY <1>1
<1>6. /\ RemoveAt(q, 1) \in Seq(T)
      /\ Len(RemoveAt(q, 1)) = Len(q) - 1
      /\ \A i \in 1 .. Len(q) - 1 : RemoveAt(q, 1)[i] = q[i + 1]
  BY <1>3, <1>4, Zenon
<1> QED
  BY <1>5, <1>6

\* The elements of a queue, by their places.
LEMMA MemberHasPlace ==
    ASSUME NEW T, NEW q \in Seq(T), NEW x
    PROVE  x \in ToSet(q) <=> \E i \in 1 .. Len(q) : q[i] = x
BY DEF ToSet

-----------------------------------------------------------------------------
(* Words, answers and requests.                                            *)

LEMMA StatusType ==
    ASSUME NEW word
    PROVE  NormalizeStatus(word) \in Statuses \cup {None}
BY DEF NormalizeStatus, Statuses

LEMMA LifecycleType ==
    ASSUME NEW row
    PROVE  ToLifecycleState(row) \in {"online", "paused", "provisioning", "offline"}
BY DEF ToLifecycleState

LEMMA ApologyType ==
    ASSUME NEW s \in Responders
    PROVE  Apology(s) \in Answers
BY DEF Apology, Answers, Responders

\* What was asked is one of the contents.
LEMMA AskedContent ==
    ASSUME RequestsTypeOK, NEW r \in Requests, request[r] # None
    PROVE  /\ Says(r) \in Contents
           /\ Says(r).subject \in {"update", "get", "list"}
           /\ Says(r).gateway \in Gateways
           /\ request[r] \in Exchange
<1>1. request[r] \in Exchange
  BY DEF RequestsTypeOK
<1>2. Says(r) \in Contents
  BY <1>1 DEF Says, Exchange
<1> QED
  BY <1>1, <1>2, ContentsAssumption

\* What an answer may say after a step is an answer.
LEMMA TruthsType ==
    ASSUME configs' \subseteq Configs, NEW r \in Requests, request'[r] \in Exchange
    PROVE  Truths(r)' \subseteq Answers
<1> DEFINE c == Says(r)'
<1>1. c.subject \in {"update", "get", "list"}
  BY ContentsAssumption DEF Says, Exchange
<1>2. CASE c.subject = "list"
  <2>1. configs' \in Answers
    BY DEF Answers
  <2> QED
    BY <1>2, <2>1 DEF Truths
<1>3. CASE c.subject = "get"
  <2> DEFINE a == IF c.word = "own" THEN ToLifecycleState(gateways'[c.gateway])
                                    ELSE "offline"
  <2>1. a \in {"online", "paused", "provisioning", "offline"}
    BY LifecycleType
  <2>2. {a} \in Answers
    BY <2>1 DEF Answers
  <2>3. Truths(r)' = {{a}}
    BY <1>3 DEF Truths
  <2> QED
    BY <2>2, <2>3
<1>4. CASE c.subject = "update"
  <2>1. Truths(r)' \subseteq {{"INVALID_PAYLOAD"}, {"NOT_FOUND"}, {"success"}}
    BY <1>4 DEF Truths
  <2>2. {"INVALID_PAYLOAD"} \in Answers /\ {"NOT_FOUND"} \in Answers /\ {"success"} \in Answers
    BY DEF Answers
  <2> QED
    BY <2>1, <2>2
<1> QED
  BY <1>1, <1>2, <1>3, <1>4

-----------------------------------------------------------------------------
(* Types.  Only a usable update is saved, so the types need to know what   *)
(* the loops hold.                                                         *)

Found(p, s) == work[p][s] # None /\ work[p][s].pc = "found"

\* Requests sent to a subject, and updates that will be stored if found.
Suits(s) == {r \in Requests : request[r] # None /\ Says(r).subject = SubjectOf(s)}

Storable == {r \in Suits("update") : Usable(Says(r))}

\* A loop that listens holds requests of its subject; it has an update in hand
\* between find and save only if that is one; another loop holds nothing.
LoopFits(p, s) ==
    /\ \A i \in 1 .. Len(inbox[p][s]) : inbox[p][s][i] \in Suits(s)
    /\ work[p][s] # None => work[p][s].req \in Suits(s)
    /\ Found(p, s) => /\ s = "update"
                      /\ work[p][s].req \in Storable
                      /\ work[p][s].answer = {"success"}
    /\ loop[p][s] # "listening" => inbox[p][s] = <<>> /\ work[p][s] = None

LoopsFit == \A p \in Procs, s \in Responders : LoopFits(p, s)

\* The next request of a loop comes off its queue into its hand.
LEMMA TakeStep ==
    ASSUME RequestsTypeOK,
           NEW p \in Procs, NEW s \in Responders, NEW i, InTurn(p, s, i),
           NEW pc \in {"found", "ready"}, NEW answer \in Answers,
           Take(p, s, i, pc, answer)
    PROVE  /\ inbox[p][s] \in Seq(Requests) /\ inbox[p][s] # <<>>
           /\ inbox[p][s][1] \in Requests /\ work[p][s] = None /\ i = 1
           /\ inbox' \in [Procs -> [Responders -> Seq(Requests)]]
           /\ work' \in [Procs -> [Responders -> Work \cup {None}]]
           /\ inbox' = [inbox EXCEPT ![p][s] = RemoveAt(inbox[p][s], 1)]
           /\ work' = [work EXCEPT ![p][s] =
                [req |-> inbox[p][s][1], pc |-> pc, answer |-> answer]]
<1>1. inbox[p][s] \in Seq(Requests) /\ inbox[p][s] # <<>> /\ work[p][s] = None /\ i = 1
  BY DEF InTurn, RequestsTypeOK
<1>2. inbox[p][s][1] \in Requests /\ RemoveAt(inbox[p][s], 1) \in Seq(Requests)
  BY <1>1, RestOfQueue
<1>3. /\ inbox' = [inbox EXCEPT ![p][s] = RemoveAt(inbox[p][s], 1)]
      /\ work' = [work EXCEPT ![p][s] =
           [req |-> inbox[p][s][1], pc |-> pc, answer |-> answer]]
  BY <1>1 DEF Take, RequestsTypeOK
<1>4. [req |-> inbox[p][s][1], pc |-> pc, answer |-> answer] \in Work
  BY <1>2 DEF Work
<1>5. inbox' \in [Procs -> [Responders -> Seq(Requests)]]
  BY <1>2, <1>3 DEF RequestsTypeOK
<1>6. work' \in [Procs -> [Responders -> Work \cup {None}]]
  BY <1>3, <1>4 DEF RequestsTypeOK
<1> QED
  BY <1>1, <1>2, <1>3, <1>5, <1>6

\* What a step does to the tables, loops and requests, but for the history of
\* right answers.
Step ==
    \/ \E r \in Requests : TimeOut(r) \/ \E c \in Contents : Ask(r, c)
    \/ \E p \in Procs :
         \/ Start(p) \/ Handlers(p) \/ Die(p)
         \/ \E s \in Responders : GoDeaf(p, s)
    \/ \E g \in Gateways, row \in Rows \cup {None} : OtherWrites(g, row)
    \/ \E k \in Configs : ChangeConfig(k)

Remember ==
    truth' = [r \in Requests |->
                IF Open(r)' THEN truth[r] \cup Truths(r)' ELSE truth[r]]

LEMMA NextIsStep ==
    RequestsNext <=> Step /\ Remember
BY Zenon DEF RequestsNext, Step, Remember

\* Requests are asked once and keep what they say.
LEMMA SaysStays ==
    ASSUME RequestsTypeOK, Step \/ UNCHANGED requestsVars,
           NEW r \in Requests, request[r] # None
    PROVE  /\ request'[r] # None
           /\ Says(r)' = Says(r)
<1>0. request[r] \in Exchange
  BY DEF RequestsTypeOK
<1> DEFINE Kept == request'[r] # None /\ Says(r)' = Says(r)
<1>1. ASSUME UNCHANGED request PROVE Kept
  BY <1>1 DEF Says
<1>2. ASSUME NEW q \in Requests, TimeOut(q) PROVE Kept
  <2>1. CASE q = r
    <3>1. request'[r] = [request[r] EXCEPT !.state = "timed out"]
      BY <1>2, <2>1 DEF TimeOut, RequestsTypeOK
    <3>2. request'[r] \in Exchange /\ request'[r].content = request[r].content
      BY <1>0, <3>1 DEF Exchange
    <3> QED
      BY <3>2, NoneAssumption DEF Says
  <2>2. CASE q # r
    BY <1>2, <2>2 DEF TimeOut, RequestsTypeOK, Says
  <2> QED
    BY <2>1, <2>2
<1>3. ASSUME NEW q \in Requests, NEW c \in Contents, Ask(q, c) PROVE Kept
  BY <1>3 DEF Ask, RequestsTypeOK, Says
<1>4. ASSUME NEW p \in Procs, NEW s \in Responders, Reply(p, s) PROVE Kept
  <2> DEFINE q == work[p][s].req
  <2>1. CASE Open(q) /\ q = r
    <3>1. request'[r] = [request[r] EXCEPT !.state = "answered",
                                           !.answer = work[p][s].answer]
      BY <1>4, <2>1 DEF Reply, RequestsTypeOK
    <3>2. work[p][s].answer \in Answers
      BY <1>4 DEF Reply, RequestsTypeOK, Work
    <3>3. request'[r] \in Exchange /\ request'[r].content = request[r].content
      BY <1>0, <3>1, <3>2 DEF Exchange
    <3> QED
      BY <3>3, NoneAssumption DEF Says
  <2>2. CASE ~ (Open(q) /\ q = r)
    <3>1. request'[r] = request[r]
      BY <1>4, <2>2 DEF Reply, RequestsTypeOK
    <3> QED
      BY <3>1 DEF Says
  <2> QED
    BY <2>1, <2>2
<1>5. CASE UNCHANGED requestsVars
  BY <1>1, <1>5 DEF requestsVars
<1>6. ASSUME NEW p \in Procs,
             \/ Start(p) \/ Die(p) \/ SaveStatus(p)
             \/ \E i \in 1 .. Cardinality(Requests) :
                  \/ TakeUpdate(p, i) \/ TakeGet(p, i)
                  \/ \E s \in Responders : TakeList(p, s, i)
             \/ \E s \in Responders : DatabaseFails(p, s) \/ GoDeaf(p, s)
      PROVE  Kept
  BY <1>1, <1>6 DEF Start, Die, SaveStatus, TakeUpdate, TakeGet, TakeList,
     DatabaseFails, GoDeaf, Unmoved
<1>7. CASE \/ \E g \in Gateways, row \in Rows \cup {None} : OtherWrites(g, row)
           \/ \E k \in Configs : ChangeConfig(k)
  BY <1>1, <1>7 DEF OtherWrites, ChangeConfig
<1> QED
  BY <1>2, <1>3, <1>4, <1>5, <1>6, <1>7 DEF Step, Handlers

\* The types but for the history of right answers.
Shapes ==
    /\ gateways \in [Gateways -> Rows \cup {None}]
    /\ configs \subseteq Configs
    /\ loop \in [Procs -> [Responders -> {"absent", "listening", "ended"}]]
    /\ inbox \in [Procs -> [Responders -> Seq(Requests)]]
    /\ work \in [Procs -> [Responders -> Work \cup {None}]]
    /\ request \in [Requests -> Exchange \cup {None}]
    /\ events \in 0 .. MaxEvents
    /\ failed \subseteq Requests /\ spoiled \subseteq Gateways
    /\ latest \in [Gateways -> Statuses \cup {None}]

\* The pieces of work of a loop that are dropped concern gateways.
LEMMA PendingType ==
    ASSUME RequestsTypeOK, LoopsFit, NEW p \in Procs, NEW s \in Responders
    PROVE  Pending(p, s) \subseteq Gateways
<1>1. ASSUME NEW r \in ToSet(inbox[p][s]) PROVE Says(r).gateway \in Gateways
  <2>1. inbox[p][s] \in Seq(Requests)
    BY DEF RequestsTypeOK
  <2>2. PICK i \in 1 .. Len(inbox[p][s]) : inbox[p][s][i] = r
    BY <2>1, MemberHasPlace
  <2>3. r \in Requests /\ request[r] # None
    BY <2>1, <2>2 DEF LoopsFit, LoopFits, Suits, Storable
  <2> QED
    BY <2>3, AskedContent
<1>2. ASSUME work[p][s] # None PROVE Says(work[p][s].req).gateway \in Gateways
  <2>1. work[p][s].req \in Requests /\ request[work[p][s].req] # None
    BY <1>2 DEF RequestsTypeOK, Work, LoopsFit, LoopFits, Suits, Storable
  <2> QED
    BY <2>1, AskedContent
<1> QED
  BY <1>1, <1>2 DEF Pending

LEMMA ShapeStep ==
    ASSUME RequestsTypeOK, LoopsFit, Step
    PROVE  Shapes'
<1> USE DEF Shapes
<1>1. ASSUME NEW r \in Requests, TimeOut(r) PROVE Shapes'
  <2>1. [request[r] EXCEPT !.state = "timed out"] \in Exchange
    BY <1>1 DEF TimeOut, Open, RequestsTypeOK, Exchange
  <2> QED
    BY <1>1, <2>1 DEF TimeOut, RequestsTypeOK, tables, responders
<1>2. ASSUME NEW r \in Requests, NEW c \in Contents, Ask(r, c) PROVE Shapes'
  <2>1. [content |-> c, state |-> "open", answer |-> {}] \in Exchange
    BY DEF Exchange, Answers
  <2>2. request' \in [Requests -> Exchange \cup {None}]
    BY <1>2, <2>1 DEF Ask, RequestsTypeOK
  <2>3. inbox' \in [Procs -> [Responders -> Seq(Requests)]]
    <3>1. \A p \in Procs, s \in Responders :
            /\ inbox[p][s] \in Seq(Requests)
            /\ Append(inbox[p][s], r) \in Seq(Requests)
      BY DEF RequestsTypeOK
    <3> QED
      BY <1>2, <3>1 DEF Ask
  <2>4. latest' \in [Gateways -> Statuses \cup {None}]
    <3>1. NormalizeStatus(c.word) \in Statuses \cup {None}
      BY StatusType
    <3> QED
      BY <1>2, <3>1 DEF Ask, RequestsTypeOK
  <2> QED
    BY <1>2, <2>2, <2>3, <2>4 DEF Ask, RequestsTypeOK, tables
<1>3. ASSUME NEW p \in Procs, Start(p) PROVE Shapes'
  BY <1>3 DEF Start, RequestsTypeOK, tables
<1>4. ASSUME NEW p \in Procs, Die(p) PROVE Shapes'
  <2>1. Pending(p, "update") \subseteq Gateways
    BY PendingType DEF Responders
  <2> QED
    BY <1>4, <2>1, EventsAssumption DEF Die, Event, RequestsTypeOK, tables
<1>5. ASSUME NEW p \in Procs, NEW s \in Responders, GoDeaf(p, s) PROVE Shapes'
  <2>1. Pending(p, s) \subseteq Gateways
    BY PendingType
  <2> QED
    BY <1>5, <2>1, EventsAssumption DEF GoDeaf, Event, RequestsTypeOK, tables
<1>6. ASSUME NEW g \in Gateways, NEW row \in Rows \cup {None}, OtherWrites(g, row)
      PROVE  Shapes'
  BY <1>6, EventsAssumption DEF OtherWrites, Event, RequestsTypeOK, responders
<1>7. ASSUME NEW k \in Configs, ChangeConfig(k) PROVE Shapes'
  BY <1>7, EventsAssumption DEF ChangeConfig, Event, RequestsTypeOK, responders
<1>8. ASSUME NEW p \in Procs, NEW i, TakeUpdate(p, i) PROVE Shapes'
  <2>1. PICK pc \in {"found", "ready"}, answer \in Answers : Take(p, "update", i, pc, answer)
    <3>1. {"INVALID_PAYLOAD"} \in Answers /\ {"NOT_FOUND"} \in Answers /\ {"success"} \in Answers
      BY DEF Answers
    <3> QED
      BY <1>8, <3>1 DEF TakeUpdate
  <2>2. /\ inbox' \in [Procs -> [Responders -> Seq(Requests)]]
        /\ work' \in [Procs -> [Responders -> Work \cup {None}]]
    BY <1>8, <2>1, TakeStep DEF TakeUpdate, Responders
  <2> QED
    BY <1>8, <2>2 DEF TakeUpdate, Unmoved, RequestsTypeOK, tables
<1>9. ASSUME NEW p \in Procs, NEW i, TakeGet(p, i) PROVE Shapes'
  <2> DEFINE c == Says(inbox[p]["get"][i])
             a == IF c.word = "own" THEN ToLifecycleState(gateways[c.gateway])
                                    ELSE "offline"
  <2>1. {a} \in Answers
    BY LifecycleType DEF Answers
  <2>2. Take(p, "get", i, "ready", {a})
    BY <1>9 DEF TakeGet
  <2>3. /\ inbox' \in [Procs -> [Responders -> Seq(Requests)]]
        /\ work' \in [Procs -> [Responders -> Work \cup {None}]]
    BY <1>9, <2>1, <2>2, TakeStep DEF TakeGet, Responders
  <2> QED
    BY <1>9, <2>3 DEF TakeGet, Unmoved, RequestsTypeOK, tables
<1>10. ASSUME NEW p \in Procs, NEW s \in Responders, NEW i, TakeList(p, s, i) PROVE Shapes'
  <2>1. configs \in Answers
    BY DEF RequestsTypeOK, Answers
  <2>2. /\ inbox' \in [Procs -> [Responders -> Seq(Requests)]]
        /\ work' \in [Procs -> [Responders -> Work \cup {None}]]
    BY <1>10, <2>1, TakeStep DEF TakeList
  <2> QED
    BY <1>10, <2>2 DEF TakeList, Unmoved, RequestsTypeOK, tables
<1>11. ASSUME NEW p \in Procs, SaveStatus(p) PROVE Shapes'
  <2> DEFINE w == work[p]["update"]
             c == Says(w.req)
  <2>1. Found(p, "update") /\ w \in Work
    BY <1>11 DEF SaveStatus, Found, RequestsTypeOK, Responders
  <2>2. Usable(c) /\ w.req \in Requests /\ request[w.req] # None /\ c.subject = "update"
    BY <2>1 DEF LoopsFit, LoopFits, Suits, Storable, Responders, Work, Found, SubjectOf
  <2>3. NormalizeStatus(c.word) \in Rows
    BY <2>2, StatusType DEF Usable, Rows
  <2>4. gateways' \in [Gateways -> Rows \cup {None}]
    BY <1>11, <2>3 DEF SaveStatus, Saved, RequestsTypeOK
  <2>5. work' \in [Procs -> [Responders -> Work \cup {None}]]
    <3>1. [w EXCEPT !.pc = "ready"] \in Work
      BY <2>1 DEF Work
    <3>2. work' = [work EXCEPT ![p]["update"] = [w EXCEPT !.pc = "ready"]]
      BY <1>11 DEF SaveStatus
    <3> QED
      BY <3>1, <3>2 DEF RequestsTypeOK
  <2> QED
    BY <1>11, <2>4, <2>5 DEF SaveStatus, Unmoved, RequestsTypeOK
<1>12. ASSUME NEW p \in Procs, NEW s \in Responders, DatabaseFails(p, s) PROVE Shapes'
  <2>1. Pending(p, s) \subseteq Gateways /\ Apology(s) \in Answers
    BY PendingType, ApologyType
  <2>2. /\ inbox' \in [Procs -> [Responders -> Seq(Requests)]]
        /\ work' \in [Procs -> [Responders -> Work \cup {None}]]
        /\ failed' \subseteq Requests
        /\ gateways' \in [Gateways -> Rows \cup {None}]
    <3>1. CASE InTurn(p, s, 1) /\ Take(p, s, 1, "ready", Apology(s))
               /\ failed' = failed \cup {inbox[p][s][1]} /\ UNCHANGED gateways
      BY <2>1, <3>1, TakeStep DEF RequestsTypeOK
    <3>2. CASE /\ work[p][s] # None /\ work[p][s].pc = "found"
               /\ work' = [work EXCEPT ![p][s].pc = "ready", ![p][s].answer = Apology(s)]
               /\ failed' = failed \cup {work[p][s].req}
               /\ gateways' \in {gateways, Saved(work[p][s].req)}
               /\ UNCHANGED inbox
      <4>1. work[p][s] \in Work
        BY <3>2 DEF RequestsTypeOK
      <4>2. [work[p][s] EXCEPT !.pc = "ready", !.answer = Apology(s)] \in Work
        BY <2>1, <4>1 DEF Work
      <4>3. work' = [work EXCEPT ![p][s] =
                       [work[p][s] EXCEPT !.pc = "ready", !.answer = Apology(s)]]
        BY <3>2 DEF RequestsTypeOK
      <4>4. work' \in [Procs -> [Responders -> Work \cup {None}]]
        BY <4>2, <4>3 DEF RequestsTypeOK
      <4>5. failed' \subseteq Requests
        BY <3>2, <4>1 DEF RequestsTypeOK, Work
      <4>6. inbox' \in [Procs -> [Responders -> Seq(Requests)]]
        BY <3>2 DEF RequestsTypeOK
      <4>7. gateways' \in [Gateways -> Rows \cup {None}]
        <5>1. Found(p, s)
          BY <3>2 DEF Found
        <5>2. Usable(Says(work[p][s].req)) /\ Says(work[p][s].req).subject = "update"
          BY <5>1 DEF LoopsFit, LoopFits, Suits, Storable, Responders, Work, Found, SubjectOf
        <5>3. NormalizeStatus(Says(work[p][s].req).word) \in Rows
          BY <5>2, StatusType DEF Usable, Rows
        <5> QED
          BY <3>2, <5>3 DEF Saved, RequestsTypeOK
      <4> QED
        BY <4>4, <4>5, <4>6, <4>7
    <3> QED
      BY <1>12, <3>1, <3>2, Zenon DEF DatabaseFails
  <2>3. Event /\ spoiled' = spoiled \cup Pending(p, s) /\ UNCHANGED configs /\ Unmoved
    BY <1>12 DEF DatabaseFails
  <2> QED
    BY <2>1, <2>2, <2>3, EventsAssumption DEF Event, Unmoved, RequestsTypeOK
<1>13. ASSUME NEW p \in Procs, NEW s \in Responders, Reply(p, s) PROVE Shapes'
  <2> DEFINE r == work[p][s].req
  <2>1. work[p][s] \in Work
    BY <1>13 DEF Reply, RequestsTypeOK
  <2>2. r \in Requests /\ work[p][s].answer \in Answers
    BY <2>1 DEF Work
  <2>3. request' \in [Requests -> Exchange \cup {None}]
    <3>1. CASE Open(r)
      <4>1. [request[r] EXCEPT !.state = "answered", !.answer = work[p][s].answer]
              \in Exchange
        BY <2>2, <3>1 DEF Open, RequestsTypeOK, Exchange
      <4>2. request' = [request EXCEPT ![r] =
              [request[r] EXCEPT !.state = "answered", !.answer = work[p][s].answer]]
        BY <1>13, <2>2, <3>1 DEF Reply, RequestsTypeOK
      <4> QED
        BY <4>1, <4>2 DEF RequestsTypeOK
    <3>2. CASE ~ Open(r)
      BY <1>13, <3>2 DEF Reply, RequestsTypeOK
    <3> QED
      BY <3>1, <3>2
  <2> QED
    BY <1>13, <2>3 DEF Reply, RequestsTypeOK, tables
<1> QED
  BY <1>1, <1>2, <1>3, <1>4, <1>5, <1>6, <1>7, <1>8, <1>9, <1>10, <1>11, <1>12, <1>13
  DEF Step, Handlers

LEMMA RequestsTypes ==
    ASSUME RequestsTypeOK, LoopsFit, [RequestsNext]_requestsVars
    PROVE  RequestsTypeOK'
<1>1. CASE UNCHANGED requestsVars
  BY <1>1 DEF requestsVars, tables, responders, RequestsTypeOK
<1>2. CASE Step /\ Remember
  <2>1. Shapes'
    BY <1>2, ShapeStep
  <2>2. ASSUME NEW r \in Requests, Open(r)' PROVE Truths(r)' \subseteq Answers
    <3>1. request'[r] \in Exchange /\ configs' \subseteq Configs
      BY <2>1, <2>2 DEF Shapes, Open
    <3> QED
      BY <3>1, TruthsType
  <2>3. truth' \in [Requests -> SUBSET Answers]
    BY <1>2, <2>2 DEF Remember, RequestsTypeOK
  <2> QED
    BY <2>1, <2>3 DEF Shapes, RequestsTypeOK
<1> QED
  BY <1>1, <1>2, NextIsStep

-----------------------------------------------------------------------------
(* What a step does to one loop.                                           *)

LoopKept(p, s) ==
    /\ loop'[p][s] = loop[p][s]
    /\ inbox'[p][s] = inbox[p][s]
    /\ work'[p][s] = work[p][s]

Hears(p, s, c) == loop[p][s] = "listening" /\ SubjectOf(s) = c.subject

\* A request joins the queue of a loop that listens.
Queued(p, s, r, c) ==
    /\ Hears(p, s, c)
    /\ loop'[p][s] = loop[p][s]
    /\ inbox'[p][s] = Append(inbox[p][s], r)
    /\ work'[p][s] = work[p][s]

\* The first request is taken: an update of a gateway that is there goes on
\* to its save; any other is ready to be answered, truly or with an apology.
Taken(p, s) ==
    /\ loop'[p][s] = loop[p][s]
    /\ inbox[p][s] # <<>> /\ work[p][s] = None
    /\ inbox'[p][s] = RemoveAt(inbox[p][s], 1)
    /\ UNCHANGED tables /\ UNCHANGED request /\ UNCHANGED latest
    /\ LET r == inbox[p][s][1]
       IN  \/ /\ work'[p][s] = [req |-> r, pc |-> "found", answer |-> {"success"}]
              /\ s = "update" /\ Usable(Says(r))
              /\ gateways[Says(r).gateway] # None
           \/ /\ \E answer \in Answers :
                   /\ work'[p][s] = [req |-> r, pc |-> "ready", answer |-> answer]
                   /\ answer \in Truths(r) \/ (r \in failed' /\ answer = Apology(s))
              /\ s = "update" /\ Usable(Says(r)) =>
                   gateways[Says(r).gateway] = None \/ Says(r).gateway \in spoiled'

\* An update that was found is saved, or the save is refused.
Finished(p, s) ==
    /\ loop'[p][s] = loop[p][s]
    /\ inbox'[p][s] = inbox[p][s]
    /\ UNCHANGED request /\ UNCHANGED latest
    /\ Found(p, s)
    /\ LET r == work[p][s].req
       IN  \/ /\ work'[p][s] = [work[p][s] EXCEPT !.pc = "ready"]
              /\ gateways' = Saved(r)
           \/ /\ work'[p][s] = [work[p][s] EXCEPT !.pc = "ready", !.answer = Apology(s)]
              /\ r \in failed' /\ Says(r).gateway \in spoiled'
              /\ gateways' \in {gateways, Saved(r)}

Replied(p, s) ==
    /\ loop'[p][s] = loop[p][s]
    /\ inbox'[p][s] = inbox[p][s]
    /\ work[p][s] # None /\ work[p][s].pc = "ready" /\ work'[p][s] = None

Emptied(p, s) ==
    /\ inbox'[p][s] = <<>> /\ work'[p][s] = None
    /\ Pending(p, s) \subseteq spoiled'
    /\ UNCHANGED <<request, latest>>

\* A loop that has taken or finished something is the only one that moves.
MovesAlone(p, s) ==
    \A q \in Procs, t \in Responders : q # p \/ t # s => LoopKept(q, t)

\* Only the loop that takes its next request moves ...
LEMMA TakeAlone ==
    ASSUME RequestsTypeOK,
           NEW p \in Procs, NEW s \in Responders, InTurn(p, s, 1),
           NEW pc \in {"found", "ready"}, NEW answer \in Answers,
           Take(p, s, 1, pc, answer), UNCHANGED loop
    PROVE  /\ MovesAlone(p, s)
           /\ loop'[p][s] = loop[p][s]
           /\ inbox[p][s] # <<>> /\ work[p][s] = None
           /\ inbox'[p][s] = RemoveAt(inbox[p][s], 1)
           /\ work'[p][s] = [req |-> inbox[p][s][1], pc |-> pc, answer |-> answer]
<1> DEFINE rest == RemoveAt(inbox[p][s], 1)
           hand == [req |-> inbox[p][s][1], pc |-> pc, answer |-> answer]
<1>1. inbox' = [inbox EXCEPT ![p][s] = rest] /\ work' = [work EXCEPT ![p][s] = hand]
  BY TakeStep
<1>2. inbox[p][s] # <<>> /\ work[p][s] = None
  BY TakeStep
<1> HIDE DEF rest, hand
<1>3. inbox'[p][s] = rest /\ work'[p][s] = hand
  BY <1>1 DEF RequestsTypeOK
<1>4. MovesAlone(p, s)
  BY <1>1 DEF RequestsTypeOK, MovesAlone, LoopKept
<1> QED
  BY <1>2, <1>3, <1>4 DEF rest, hand

\* ... and is ready to answer at once, truly or with an apology.
LEMMA TakeReady ==
    ASSUME RequestsTypeOK,
           NEW p \in Procs, NEW s \in Responders, InTurn(p, s, 1),
           NEW answer \in Answers, Take(p, s, 1, "ready", answer),
           UNCHANGED loop, UNCHANGED tables, UNCHANGED request, UNCHANGED latest,
           \/ answer \in Truths(inbox[p][s][1])
           \/ inbox[p][s][1] \in failed' /\ answer = Apology(s),
           s = "update" /\ Usable(Says(inbox[p][s][1])) =>
               \/ gateways[Says(inbox[p][s][1]).gateway] = None
               \/ Says(inbox[p][s][1]).gateway \in spoiled'
    PROVE  MovesAlone(p, s) /\ Taken(p, s)
<1>1. /\ MovesAlone(p, s)
      /\ loop'[p][s] = loop[p][s]
      /\ inbox[p][s] # <<>> /\ work[p][s] = None
      /\ inbox'[p][s] = RemoveAt(inbox[p][s], 1)
      /\ work'[p][s] = [req |-> inbox[p][s][1], pc |-> "ready", answer |-> answer]
  BY TakeAlone
<1> QED
  BY <1>1 DEF Taken

\* ... and only the one whose piece of work changes.
LEMMA HandAlone ==
    ASSUME RequestsTypeOK,
           NEW p \in Procs, NEW s \in Responders, NEW hand,
           work' = [work EXCEPT ![p][s] = hand], UNCHANGED loop, UNCHANGED inbox
    PROVE  MovesAlone(p, s) /\ work'[p][s] = hand
BY DEF RequestsTypeOK, MovesAlone, LoopKept

\* In every step a request is asked, one loop moves, or the loops of a process
\* are emptied or begin to listen; a row changes by a save or is spoiled.
LEMMA StepEffects ==
    ASSUME RequestsTypeOK, LoopsFit, Step
    PROVE  \/ \E r \in Requests, c \in Contents :
                /\ Ask(r, c)
                /\ \A p \in Procs, s \in Responders :
                     \/ LoopKept(p, s) /\ ~ Hears(p, s, c)
                     \/ Queued(p, s, r, c)
           \/ \E p \in Procs, s \in Responders :
                /\ MovesAlone(p, s)
                /\ Taken(p, s) \/ Finished(p, s) \/ (Replied(p, s) /\ Reply(p, s))
           \/ /\ \A p \in Procs, s \in Responders :
                   \/ LoopKept(p, s) \/ Emptied(p, s)
                   \/ /\ inbox[p][s] = <<>> /\ work[p][s] = None
                      /\ UNCHANGED <<inbox, work>>
              /\ UNCHANGED latest
              /\ UNCHANGED request \/ \E r \in Requests : TimeOut(r)
              /\ \A g \in Gateways : g \in spoiled' \/ gateways'[g] = gateways[g]
<1> DEFINE AskedOne == \E r \in Requests, c \in Contents :
                /\ Ask(r, c)
                /\ \A p \in Procs, s \in Responders :
                     \/ LoopKept(p, s) /\ ~ Hears(p, s, c)
                     \/ Queued(p, s, r, c)
           Moved(p, s) == /\ MovesAlone(p, s)
                          /\ Taken(p, s) \/ Finished(p, s) \/ (Replied(p, s) /\ Reply(p, s))
           Quiet == /\ \A p \in Procs, s \in Responders :
                         \/ LoopKept(p, s) \/ Emptied(p, s)
                         \/ /\ inbox[p][s] = <<>> /\ work[p][s] = None
                            /\ UNCHANGED <<inbox, work>>
                    /\ UNCHANGED latest
                    /\ UNCHANGED request \/ \E r \in Requests : TimeOut(r)
                    /\ \A g \in Gateways : g \in spoiled' \/ gateways'[g] = gateways[g]
<1>1. ASSUME NEW r \in Requests, TimeOut(r) PROVE Quiet
  BY <1>1 DEF TimeOut, tables, responders, LoopKept
<1>2. ASSUME NEW r \in Requests, NEW c \in Contents, Ask(r, c) PROVE AskedOne
  <2>1. ASSUME NEW p \in Procs, NEW s \in Responders
        PROVE  \/ LoopKept(p, s) /\ ~ Hears(p, s, c)
               \/ Queued(p, s, r, c)
    BY <1>2 DEF Ask, Hears, LoopKept, Queued
  <2> QED
    BY <1>2, <2>1
<1>3. ASSUME NEW p \in Procs, Start(p) PROVE Quiet
  <2>1. \A s \in Responders : inbox[p][s] = <<>> /\ work[p][s] = None
    BY <1>3 DEF Start, LoopsFit, LoopFits
  <2>2. \A q \in Procs, s \in Responders : q # p => LoopKept(q, s)
    BY <1>3 DEF Start, LoopKept, RequestsTypeOK
  <2> QED
    BY <1>3, <2>1, <2>2 DEF Start, tables
<1>4. ASSUME NEW p \in Procs, Die(p) PROVE Quiet
  <2>1. ASSUME NEW s \in Responders PROVE Emptied(p, s)
    <3>1. Pending(p, s) \subseteq Pending(p, "update")
      BY DEF Pending
    <3> QED
      BY <1>4, <3>1 DEF Die, Emptied, RequestsTypeOK
  <2>2. \A q \in Procs, s \in Responders : q # p => LoopKept(q, s)
    BY <1>4 DEF Die, LoopKept, RequestsTypeOK
  <2> QED
    BY <1>4, <2>1, <2>2 DEF Die, tables
<1>5. ASSUME NEW p \in Procs, NEW s \in Responders, GoDeaf(p, s) PROVE Quiet
  <2>1. Emptied(p, s)
    BY <1>5 DEF GoDeaf, Emptied, RequestsTypeOK
  <2>2. MovesAlone(p, s)
    BY <1>5 DEF GoDeaf, MovesAlone, LoopKept, RequestsTypeOK
  <2> QED
    BY <1>5, <2>1, <2>2 DEF GoDeaf, MovesAlone, tables
<1>6. ASSUME NEW h \in Gateways, NEW row \in Rows \cup {None}, OtherWrites(h, row)
      PROVE  Quiet
  BY <1>6 DEF OtherWrites, responders, LoopKept, RequestsTypeOK
<1>7. ASSUME NEW k \in Configs, ChangeConfig(k) PROVE Quiet
  BY <1>7 DEF ChangeConfig, responders, LoopKept
<1>8. ASSUME NEW p \in Procs, NEW i, TakeUpdate(p, i) PROVE Moved(p, "update")
  <2> DEFINE r == inbox[p]["update"][1]
             c == Says(r)
  <2>a. i = 1 /\ "update" \in Responders /\ InTurn(p, "update", 1)
    BY <1>8 DEF TakeUpdate, InTurn, Responders
  <2>b. /\ {"INVALID_PAYLOAD"} \in Answers /\ {"NOT_FOUND"} \in Answers
        /\ {"success"} \in Answers
    BY DEF Answers
  <2>c. r \in Requests /\ request[r] # None /\ c.subject = "update"
    <3>1. inbox[p]["update"] \in Seq(Requests) /\ inbox[p]["update"] # <<>>
      BY <2>a DEF InTurn, RequestsTypeOK
    <3>2. 1 \in 1 .. Len(inbox[p]["update"])
      BY <3>1
    <3> QED
      BY <2>a, <3>1, <3>2 DEF LoopsFit, LoopFits, Suits, Storable, SubjectOf
  <2>d. UNCHANGED tables /\ UNCHANGED loop /\ UNCHANGED request /\ UNCHANGED latest
    BY <1>8 DEF TakeUpdate, Unmoved
  <2>1. CASE NormalizeStatus(c.word) = None
    <3>1. Take(p, "update", 1, "ready", {"INVALID_PAYLOAD"})
      BY <1>8, <2>1, <2>a DEF TakeUpdate
    <3>2. {"INVALID_PAYLOAD"} \in Truths(r)
      BY <2>1, <2>c DEF Truths
    <3>3. ~ Usable(c)
      BY <2>1, <2>c DEF Usable
    <3> DEFINE a == {"INVALID_PAYLOAD"}
    <3>4. a \in Answers /\ Take(p, "update", 1, "ready", a) /\ a \in Truths(r)
      BY <2>b, <3>1, <3>2
    <3> HIDE DEF a
    <3> QED
      BY <2>a, <2>d, <3>3, <3>4, TakeReady
  <2>2. CASE NormalizeStatus(c.word) # None /\ gateways[c.gateway] = None
    <3>1. Take(p, "update", 1, "ready", {"NOT_FOUND"})
      BY <1>8, <2>2, <2>a DEF TakeUpdate
    <3>2. {"NOT_FOUND"} \in Truths(r)
      BY <2>2, <2>c DEF Truths
    <3> DEFINE a == {"NOT_FOUND"}
    <3>4. a \in Answers /\ Take(p, "update", 1, "ready", a) /\ a \in Truths(r)
      BY <2>b, <3>1, <3>2
    <3> HIDE DEF a
    <3> QED
      BY <2>2, <2>a, <2>d, <3>4, TakeReady
  <2>3. CASE NormalizeStatus(c.word) # None /\ gateways[c.gateway] # None
    <3>1. Take(p, "update", 1, "found", {"success"})
      BY <1>8, <2>3, <2>a DEF TakeUpdate
    <3>2. Usable(c)
      BY <2>3, <2>c DEF Usable
    <3>4. /\ MovesAlone(p, "update")
          /\ loop'[p]["update"] = loop[p]["update"]
          /\ inbox[p]["update"] # <<>> /\ work[p]["update"] = None
          /\ inbox'[p]["update"] = RemoveAt(inbox[p]["update"], 1)
          /\ work'[p]["update"] = [req |-> r, pc |-> "found", answer |-> {"success"}]
      <4> DEFINE a == {"success"}
      <4>1. a \in Answers /\ Take(p, "update", 1, "found", a)
        BY <2>b, <3>1
      <4> HIDE DEF a
      <4>2. /\ MovesAlone(p, "update")
            /\ loop'[p]["update"] = loop[p]["update"]
            /\ inbox[p]["update"] # <<>> /\ work[p]["update"] = None
            /\ inbox'[p]["update"] = RemoveAt(inbox[p]["update"], 1)
            /\ work'[p]["update"] = [req |-> r, pc |-> "found", answer |-> a]
        BY <2>a, <2>d, <4>1, TakeAlone
      <4> QED
        BY <4>2 DEF a
    <3> QED
      BY <2>3, <2>d, <3>2, <3>4 DEF Taken
  <2> QED
    BY <2>1, <2>2, <2>3
<1>9. ASSUME NEW p \in Procs, NEW i, TakeGet(p, i) PROVE Moved(p, "get")
  <2> DEFINE r == inbox[p]["get"][1]
             c == Says(r)
             a == IF c.word = "own" THEN ToLifecycleState(gateways[c.gateway])
                                    ELSE "offline"
  <2>a. i = 1 /\ "get" \in Responders /\ InTurn(p, "get", 1)
    BY <1>9 DEF TakeGet, InTurn, Responders
  <2>b. {a} \in Answers
    BY LifecycleType DEF Answers
  <2>c. r \in Requests /\ request[r] # None /\ c.subject = "get"
    <3>1. inbox[p]["get"] \in Seq(Requests) /\ inbox[p]["get"] # <<>>
      BY <2>a DEF InTurn, RequestsTypeOK
    <3>2. 1 \in 1 .. Len(inbox[p]["get"])
      BY <3>1
    <3> QED
      BY <2>a, <3>1, <3>2 DEF LoopsFit, LoopFits, Suits, Storable, SubjectOf
  <2>d. UNCHANGED tables /\ UNCHANGED loop /\ UNCHANGED request /\ UNCHANGED latest
    BY <1>9 DEF TakeGet, Unmoved
  <2>1. Take(p, "get", 1, "ready", {a})
    BY <1>9, <2>a DEF TakeGet
  <2>2. {a} \in Truths(r)
    BY <2>c DEF Truths
  <2> DEFINE b == {a}
  <2>3. b \in Answers /\ Take(p, "get", 1, "ready", b) /\ b \in Truths(r)
    BY <2>b, <2>1, <2>2
  <2> HIDE DEF b
  <2> QED
    BY <2>a, <2>d, <2>3, TakeReady
<1>10. ASSUME NEW p \in Procs, NEW s \in Responders, NEW i, TakeList(p, s, i)
       PROVE  Moved(p, s)
  <2> DEFINE r == inbox[p][s][1]
  <2>a. i = 1 /\ InTurn(p, s, 1) /\ SubjectOf(s) = "list" /\ s # "update"
    BY <1>10 DEF TakeList, InTurn, SubjectOf
  <2>b. configs \in Answers
    BY DEF Answers, RequestsTypeOK
  <2>c. r \in Requests /\ request[r] # None /\ Says(r).subject = "list"
    <3>1. inbox[p][s] \in Seq(Requests) /\ inbox[p][s] # <<>>
      BY <2>a DEF InTurn, RequestsTypeOK
    <3>2. 1 \in 1 .. Len(inbox[p][s])
      BY <3>1
    <3> QED
      BY <2>a, <3>1, <3>2 DEF LoopsFit, LoopFits, Suits, Storable
  <2>d. UNCHANGED tables /\ UNCHANGED loop /\ UNCHANGED request /\ UNCHANGED latest
    BY <1>10 DEF TakeList, Unmoved
  <2>1. Take(p, s, 1, "ready", configs)
    BY <1>10, <2>a DEF TakeList
  <2>2. configs \in Truths(r)
    BY <2>c DEF Truths
  <2> QED
    BY <2>a, <2>b, <2>d, <2>1, <2>2, TakeReady
<1>11. ASSUME NEW p \in Procs, SaveStatus(p) PROVE Moved(p, "update")
  <2>1. Found(p, "update") /\ "update" \in Responders
    BY <1>11 DEF SaveStatus, Found, Responders
  <2>2. work' = [work EXCEPT ![p]["update"] = [work[p]["update"] EXCEPT !.pc = "ready"]]
    BY <1>11 DEF SaveStatus
  <2>3. UNCHANGED loop /\ UNCHANGED inbox /\ UNCHANGED request /\ UNCHANGED latest
    BY <1>11 DEF SaveStatus, Unmoved
  <2> DEFINE hand == [work[p]["update"] EXCEPT !.pc = "ready"]
  <2>4. MovesAlone(p, "update") /\ work'[p]["update"] = hand
    <3>1. work' = [work EXCEPT ![p]["update"] = hand]
      BY <2>2
    <3> HIDE DEF hand
    <3> QED
      BY <2>1, <2>3, <3>1, HandAlone
  <2> QED
    BY <1>11, <2>1, <2>3, <2>4 DEF SaveStatus, Finished
<1>12. ASSUME NEW p \in Procs, NEW s \in Responders, DatabaseFails(p, s)
       PROVE  Moved(p, s)
  <2>a. /\ UNCHANGED configs /\ UNCHANGED loop /\ UNCHANGED request /\ UNCHANGED latest
        /\ spoiled' = spoiled \cup Pending(p, s)
    BY <1>12 DEF DatabaseFails, Unmoved
  <2>1. CASE InTurn(p, s, 1) /\ Take(p, s, 1, "ready", Apology(s))
             /\ failed' = failed \cup {inbox[p][s][1]} /\ UNCHANGED gateways
    <3> DEFINE r == inbox[p][s][1]
    <3>1. inbox[p][s] \in Seq(Requests) /\ inbox[p][s] # <<>>
      BY <2>1 DEF InTurn, RequestsTypeOK
    <3>2. 1 \in 1 .. Len(inbox[p][s])
      BY <3>1
    <3>3. r \in ToSet(inbox[p][s])
      BY <3>1, <3>2, MemberHasPlace
    <3>4. s = "update" => Says(r).gateway \in spoiled'
      BY <2>a, <3>3 DEF Pending
    <3>5. Apology(s) \in Answers
      BY ApologyType
    <3>6. r \in failed'
      BY <2>1
    <3> QED
      BY <2>1, <2>a, <3>4, <3>5, <3>6, TakeReady DEF tables
  <2>2. CASE /\ work[p][s] # None /\ work[p][s].pc = "found"
             /\ work' = [work EXCEPT ![p][s].pc = "ready", ![p][s].answer = Apology(s)]
             /\ failed' = failed \cup {work[p][s].req}
             /\ gateways' \in {gateways, Saved(work[p][s].req)}
             /\ UNCHANGED inbox
    <3>1. Found(p, s)
      BY <2>2 DEF Found
    <3>2. s = "update"
      BY <3>1 DEF LoopsFit, LoopFits
    <3>3. Says(work[p][s].req).gateway \in spoiled'
      BY <2>2, <2>a, <3>2 DEF Pending
    <3>4. work' = [work EXCEPT ![p][s] =
                     [work[p][s] EXCEPT !.pc = "ready", !.answer = Apology(s)]]
      BY <2>2 DEF RequestsTypeOK
    <3> DEFINE hand == [work[p][s] EXCEPT !.pc = "ready", !.answer = Apology(s)]
    <3>5. MovesAlone(p, s) /\ work'[p][s] = hand
      <4>1. work' = [work EXCEPT ![p][s] = hand]
        BY <3>4
      <4>2. UNCHANGED loop /\ UNCHANGED inbox
        BY <2>2, <2>a
      <4> HIDE DEF hand
      <4> QED
        BY <4>1, <4>2, HandAlone
    <3> QED
      BY <2>2, <2>a, <3>1, <3>3, <3>5 DEF Finished
  <2> QED
    BY <1>12, <2>1, <2>2, Zenon DEF DatabaseFails
<1>13. ASSUME NEW p \in Procs, NEW s \in Responders, Reply(p, s) PROVE Moved(p, s)
  BY <1>13 DEF Reply, Replied, MovesAlone, LoopKept, RequestsTypeOK
<1> HIDE DEF AskedOne, Moved, Quiet
<1>14. AskedOne \/ Quiet \/ \E p \in Procs, s \in Responders : Moved(p, s)
  <2>1. {"update", "get"} \subseteq Responders
    BY DEF Responders
  <2> QED
    BY <2>1, <1>1, <1>2, <1>3, <1>4, <1>5, <1>6, <1>7, <1>8, <1>9, <1>10, <1>11,
       <1>12, <1>13 DEF Step, Handlers
<1> QED
  BY <1>14 DEF AskedOne, Moved, Quiet

-----------------------------------------------------------------------------
(* The loops go on holding what they should.                               *)

\* What a request says, and so where it belongs, does not change.
LEMMA SuitsGrow ==
    ASSUME RequestsTypeOK, Step, NEW s
    PROVE  Suits(s) \subseteq Suits(s)'
BY SaysStays DEF Suits

LEMMA StorableGrow ==
    ASSUME RequestsTypeOK, Step
    PROVE  Storable \subseteq Storable'
BY SaysStays, SuitsGrow DEF Storable, Suits

\* The places of a queue hold requests, and a piece of work is about one.
LEMMA HeldTypes ==
    ASSUME RequestsTypeOK, NEW p \in Procs, NEW s \in Responders
    PROVE  /\ inbox[p][s] \in Seq(Requests)
           /\ \A i \in 1 .. Len(inbox[p][s]) : inbox[p][s][i] \in Requests
           /\ work[p][s] # None =>
                /\ work[p][s] \in Work
                /\ work[p][s].req \in Requests
                /\ work[p][s].pc \in {"found", "ready"}
BY DEF RequestsTypeOK, Work

LEMMA KeptFits ==
    ASSUME RequestsTypeOK, Step, NEW p \in Procs, NEW s \in Responders,
           LoopFits(p, s), LoopKept(p, s)
    PROVE  LoopFits(p, s)'
BY SuitsGrow, StorableGrow DEF LoopKept, LoopFits, Found

LEMMA QueuedFits ==
    ASSUME RequestsTypeOK, Step, NEW p \in Procs, NEW s \in Responders,
           LoopFits(p, s), NEW r \in Requests, NEW c \in Contents,
           Ask(r, c), Queued(p, s, r, c)
    PROVE  LoopFits(p, s)'
<1>0. inbox'[p][s] = Append(inbox[p][s], r) /\ inbox[p][s] \in Seq(Requests)
  BY HeldTypes DEF Queued
<1>r. r \in Suits(s)'
  <2>1. request'[r] = [content |-> c, state |-> "open", answer |-> {}]
    BY DEF Ask, RequestsTypeOK
  <2>2. [content |-> c, state |-> "open", answer |-> {}] \in Exchange
    BY DEF Exchange, Answers
  <2> QED
    BY <2>1, <2>2, NoneAssumption DEF Suits, Says, Queued, Hears
<1>1. ASSUME NEW i \in 1 .. Len(inbox'[p][s])
      PROVE  inbox'[p][s][i] \in Suits(s)'
  <2>1. CASE i \in 1 .. Len(inbox[p][s])
    <3>1. inbox'[p][s][i] = inbox[p][s][i] /\ inbox[p][s][i] \in Suits(s)
      BY <1>0, <2>1 DEF LoopFits
    <3> QED
      BY <3>1, SuitsGrow
  <2>2. CASE i = Len(inbox[p][s]) + 1
    <3>1. inbox'[p][s][i] = r
      BY <1>0, <2>2
    <3> QED
      BY <1>r, <3>1
  <2> QED
    BY <1>0, <2>1, <2>2
<1>2. work'[p][s] = work[p][s] /\ loop'[p][s] = "listening"
  BY DEF Queued, Hears
<1> QED
  BY <1>1, <1>2, SuitsGrow, StorableGrow DEF LoopFits, Found

\* What a loop that takes its next request has in hand.
LEMMA TakenHand ==
    ASSUME RequestsTypeOK, NEW p \in Procs, NEW s \in Responders, Taken(p, s)
    PROVE  /\ work'[p][s] # None /\ work'[p][s].req = inbox[p][s][1]
           /\ work'[p][s].pc = "found" =>
                /\ s = "update" /\ Usable(Says(inbox[p][s][1]))
                /\ work'[p][s].answer = {"success"}
           /\ work'[p][s].pc # "found" /\ s = "update"
              /\ Usable(Says(inbox[p][s][1])) =>
                  \/ gateways[Says(inbox[p][s][1]).gateway] = None
                  \/ Says(inbox[p][s][1]).gateway \in spoiled'
<1> DEFINE r == inbox[p][s][1]
           Refused == s = "update" /\ Usable(Says(r)) =>
                        \/ gateways[Says(r).gateway] = None
                        \/ Says(r).gateway \in spoiled'
<1>1. \/ /\ work'[p][s] = [req |-> r, pc |-> "found", answer |-> {"success"}]
         /\ s = "update" /\ Usable(Says(r))
      \/ /\ \E answer \in Answers :
              work'[p][s] = [req |-> r, pc |-> "ready", answer |-> answer]
         /\ Refused
  BY Zenon DEF Taken
<1>r. r \in Requests
  <2>1. 1 \in 1 .. Len(inbox[p][s])
    BY HeldTypes DEF Taken
  <2> QED
    BY <2>1, HeldTypes
<1>2. CASE /\ work'[p][s] = [req |-> r, pc |-> "found", answer |-> {"success"}]
           /\ s = "update" /\ Usable(Says(r))
  <2>1. work'[p][s] \in Work
    BY <1>r, <1>2 DEF Work, Answers
  <2> QED
    BY <1>2, <2>1, NoneAssumption
<1>3. ASSUME NEW answer \in Answers,
             work'[p][s] = [req |-> r, pc |-> "ready", answer |-> answer]
      PROVE  work'[p][s] # None /\ work'[p][s].req = r /\ work'[p][s].pc = "ready"
  <2>1. work'[p][s] \in Work
    BY <1>r, <1>3 DEF Work
  <2> QED
    BY <1>3, <2>1, NoneAssumption
<1> QED
  BY <1>1, <1>2, <1>3

LEMMA TakenFits ==
    ASSUME RequestsTypeOK, Step, NEW p \in Procs, NEW s \in Responders,
           LoopFits(p, s), Taken(p, s)
    PROVE  LoopFits(p, s)'
<1> DEFINE r == inbox[p][s][1]
<1>0. /\ inbox[p][s] \in Seq(Requests) /\ inbox[p][s] # <<>>
      /\ inbox'[p][s] = RemoveAt(inbox[p][s], 1)
  BY HeldTypes DEF Taken
<1>r. r \in Suits(s)
  <2>1. 1 \in 1 .. Len(inbox[p][s])
    BY <1>0
  <2> QED
    BY <2>1 DEF LoopFits
<1>1. ASSUME NEW i \in 1 .. Len(inbox'[p][s])
      PROVE  inbox'[p][s][i] \in Suits(s)'
  <2>1. i \in 1 .. Len(inbox[p][s]) - 1 /\ inbox'[p][s][i] = inbox[p][s][i + 1]
    BY <1>0, RestOfQueue
  <2>2. i + 1 \in 1 .. Len(inbox[p][s])
    BY <1>0, <2>1
  <2>3. inbox[p][s][i + 1] \in Suits(s)
    BY <2>2 DEF LoopFits
  <2> QED
    BY <2>1, <2>3, SuitsGrow
<1>h. /\ work'[p][s].req = r
      /\ work'[p][s].pc = "found" =>
           /\ s = "update" /\ Usable(Says(r))
           /\ work'[p][s].answer = {"success"}
  BY TakenHand
<1> HIDE DEF r
<1>3. work'[p][s] # None => work'[p][s].req \in Suits(s)'
  BY <1>r, <1>h, SuitsGrow
<1>4. Found(p, s)' => /\ s = "update"
                      /\ work'[p][s].req \in Storable'
                      /\ work'[p][s].answer = {"success"}
  <2>1. SUFFICES ASSUME work'[p][s].pc = "found"
                 PROVE  /\ s = "update"
                        /\ r \in Storable'
                        /\ work'[p][s].answer = {"success"}
    BY <1>h DEF Found
  <2>2. s = "update" /\ Usable(Says(r)) /\ work'[p][s].answer = {"success"}
    BY <1>h, <2>1
  <2>3. r \in Storable
    BY <1>r, <2>2 DEF Storable
  <2> QED
    BY <2>2, <2>3, StorableGrow
<1>5. loop'[p][s] = "listening"
  BY DEF Taken, LoopFits
<1> QED
  BY <1>1, <1>3, <1>4, <1>5 DEF LoopFits

LEMMA OtherEffectsFit ==
    ASSUME RequestsTypeOK, Step, NEW p \in Procs, NEW s \in Responders,
           LoopFits(p, s), Finished(p, s) \/ Replied(p, s) \/ Emptied(p, s)
    PROVE  LoopFits(p, s)'
<1>1. CASE Emptied(p, s)
  <2>1. inbox'[p][s] = <<>> /\ work'[p][s] = None
    BY <1>1 DEF Emptied
  <2> QED
    BY <2>1 DEF LoopFits, Found
<1>2. CASE Finished(p, s) \/ Replied(p, s)
  <2>1. loop'[p][s] = loop[p][s] /\ inbox'[p][s] = inbox[p][s] /\ work[p][s] # None
    BY <1>2 DEF Finished, Replied, Found
  <2>2. work'[p][s] # None =>
          work'[p][s].req = work[p][s].req /\ work'[p][s].pc = "ready"
    <3>1. work[p][s] \in Work
      BY <2>1, HeldTypes
    <3>2. CASE Replied(p, s)
      BY <3>2 DEF Replied
    <3>3. CASE Finished(p, s)
      <4>1. \/ work'[p][s] = [work[p][s] EXCEPT !.pc = "ready"]
            \/ work'[p][s] = [work[p][s] EXCEPT !.pc = "ready", !.answer = Apology(s)]
        BY <3>3, Zenon DEF Finished
      <4> QED
        BY <3>1, <4>1 DEF Work
    <3> QED
      BY <1>2, <3>2, <3>3
  <2> QED
    BY <2>1, <2>2, SuitsGrow DEF LoopFits, Found
<1> QED
  BY <1>1, <1>2

\* What StepEffects says of one loop.
LEMMA LoopEffects ==
    ASSUME RequestsTypeOK, LoopsFit, Step, NEW q \in Procs, NEW t \in Responders
    PROVE  \/ \E r \in Requests, c \in Contents : Ask(r, c) /\ Queued(q, t, r, c)
           \/ LoopKept(q, t) \/ Taken(q, t) \/ Finished(q, t) \/ Replied(q, t) \/ Emptied(q, t)
           \/ inbox[q][t] = <<>> /\ work[q][t] = None /\ UNCHANGED <<inbox, work>>
<1>1. ASSUME NEW p \in Procs, NEW s \in Responders, MovesAlone(p, s),
             Taken(p, s) \/ Finished(p, s) \/ Replied(p, s)
      PROVE  LoopKept(q, t) \/ Taken(q, t) \/ Finished(q, t) \/ Replied(q, t)
  BY <1>1, Zenon DEF MovesAlone
<1> QED
  BY <1>1, StepEffects, Zenon

LEMMA LoopsFitStep ==
    ASSUME RequestsTypeOK, LoopsFit, Step
    PROVE  LoopsFit'
<1> SUFFICES ASSUME NEW q \in Procs, NEW t \in Responders PROVE LoopFits(q, t)'
  BY DEF LoopsFit
<1>0. LoopFits(q, t)
  BY DEF LoopsFit
<1>1. LoopKept(q, t) => LoopFits(q, t)'
  BY <1>0, KeptFits
<1>2. ASSUME NEW r \in Requests, NEW c \in Contents, Ask(r, c), Queued(q, t, r, c)
      PROVE  LoopFits(q, t)'
  BY <1>0, <1>2, QueuedFits
<1>3. Taken(q, t) \/ Finished(q, t) \/ Replied(q, t) \/ Emptied(q, t) => LoopFits(q, t)'
  BY <1>0, TakenFits, OtherEffectsFit
<1>4. ASSUME inbox[q][t] = <<>>, work[q][t] = None, UNCHANGED <<inbox, work>>
      PROVE  LoopFits(q, t)'
  BY <1>4 DEF LoopFits, Found
<1>5. \/ \E r \in Requests, c \in Contents : Ask(r, c) /\ Queued(q, t, r, c)
      \/ LoopKept(q, t) \/ Taken(q, t) \/ Finished(q, t) \/ Replied(q, t) \/ Emptied(q, t)
      \/ inbox[q][t] = <<>> /\ work[q][t] = None /\ UNCHANGED <<inbox, work>>
  BY LoopEffects
<1> QED
  BY <1>1, <1>2, <1>3, <1>4, <1>5

-----------------------------------------------------------------------------
(* What is answered is right.                                              *)

\* Requests that wait for an answer.
OpenRequests == {r \in Requests : Open(r)}

\* What may be answered to a request.
Rightful ==
    [r \in Requests |->
        truth[r] \cup
        {Apology(s) : s \in {t \in Responders :
                               r \in failed /\ SubjectOf(t) = Says(r).subject}}]

\* What a loop is about to answer is right, while somebody waits for it.
AnswerReady(p, s) ==
    /\ work[p][s] # None /\ work[p][s].pc = "ready"
    /\ work[p][s].req \in OpenRequests
    => work[p][s].answer \in Rightful[work[p][s].req]

AnswersReady == \A p \in Procs, s \in Responders : AnswerReady(p, s)

AnswersRightful ==
    \A r \in Requests :
        request[r] # None /\ request[r].state = "answered" =>
            request[r].answer \in Rightful[r]

\* History is not forgotten.
LEMMA HistoryGrows ==
    ASSUME Step
    PROVE  failed \subseteq failed' /\ spoiled \subseteq spoiled'
<1> DEFINE Grows == failed \subseteq failed' /\ spoiled \subseteq spoiled'
<1>1. ASSUME NEW r \in Requests, TimeOut(r) \/ \E c \in Contents : Ask(r, c) PROVE Grows
  BY <1>1 DEF TimeOut, Ask
<1>2. ASSUME NEW p \in Procs, Start(p) \/ Die(p) \/ SaveStatus(p) PROVE Grows
  BY <1>2 DEF Start, Die, SaveStatus
<1>3. ASSUME NEW p \in Procs, NEW s \in Responders,
             GoDeaf(p, s) \/ DatabaseFails(p, s) \/ Reply(p, s)
      PROVE  Grows
  BY <1>3 DEF GoDeaf, DatabaseFails, Reply
<1>4. ASSUME NEW p \in Procs, NEW i,
             TakeUpdate(p, i) \/ TakeGet(p, i) \/ \E s \in Responders : TakeList(p, s, i)
      PROVE  Grows
  BY <1>4 DEF TakeUpdate, TakeGet, TakeList
<1>5. CASE \/ \E g \in Gateways, row \in Rows \cup {None} : OtherWrites(g, row)
           \/ \E k \in Configs : ChangeConfig(k)
  BY <1>5 DEF OtherWrites, ChangeConfig
<1> QED
  BY <1>1, <1>2, <1>3, <1>4, <1>5 DEF Step, Handlers

\* What was right once remains so, and what is so now is right for a request
\* that is open.
LEMMA RightfulGrows ==
    ASSUME RequestsTypeOK, Step, Remember, NEW r \in Requests, request[r] # None
    PROVE  /\ Rightful[r] \subseteq Rightful'[r]
           /\ r \in OpenRequests' => Truths(r)' \subseteq Rightful'[r]
           /\ \A s \in Responders :
                r \in failed' /\ SubjectOf(s) = Says(r).subject =>
                  Apology(s) \in Rightful'[r]
<1>1. Says(r)' = Says(r)
  BY SaysStays
<1>2. failed \subseteq failed'
  BY HistoryGrows
<1>3. truth[r] \subseteq truth'[r] /\ (Open(r)' => Truths(r)' \subseteq truth'[r])
  BY DEF Remember
<1>4. Rightful'[r] = truth'[r] \cup
        {Apology(s) : s \in {t \in Responders :
                               r \in failed' /\ SubjectOf(t) = Says(r).subject}}
  BY <1>1 DEF Rightful
<1>5. Rightful[r] = truth[r] \cup
        {Apology(s) : s \in {t \in Responders :
                               r \in failed /\ SubjectOf(t) = Says(r).subject}}
  BY DEF Rightful
<1>6. Rightful[r] \subseteq Rightful'[r]
  BY <1>2, <1>3, <1>4, <1>5
<1>7. r \in OpenRequests' => Truths(r)' \subseteq Rightful'[r]
  BY <1>3, <1>4 DEF OpenRequests
<1>8. \A s \in Responders :
        r \in failed' /\ SubjectOf(s) = Says(r).subject => Apology(s) \in Rightful'[r]
  BY <1>4
<1> QED
  BY <1>6, <1>7, <1>8

\* An exchange that is open was open, if it has begun before the step; one
\* that is answered was answered before, or is by a reply.
LEMMA ExchangeStep ==
    ASSUME RequestsTypeOK, LoopsFit, Step, NEW r \in Requests
    PROVE  /\ request[r] # None /\ r \in OpenRequests' => r \in OpenRequests
           /\ request'[r] # None /\ request'[r].state = "answered" =>
                \/ request'[r] = request[r]
                \/ /\ r \in OpenRequests
                   /\ \E p \in Procs, s \in Responders :
                        /\ work[p][s] # None /\ work[p][s].pc = "ready"
                        /\ work[p][s].req = r
                        /\ request'[r].answer = work[p][s].answer
<1> DEFINE Goal ==
           /\ request[r] # None /\ r \in OpenRequests' => r \in OpenRequests
           /\ request'[r] # None /\ request'[r].state = "answered" =>
                \/ request'[r] = request[r]
                \/ /\ r \in OpenRequests
                   /\ \E p \in Procs, s \in Responders :
                        /\ work[p][s] # None /\ work[p][s].pc = "ready"
                        /\ work[p][s].req = r
                        /\ request'[r].answer = work[p][s].answer
<1>1. CASE request'[r] = request[r]
  BY <1>1 DEF OpenRequests, Open
<1>2. ASSUME NEW q \in Requests, TimeOut(q), request'[r] # request[r] PROVE Goal
  <2>1. q = r /\ request'[r] = [request[r] EXCEPT !.state = "timed out"]
    BY <1>2 DEF TimeOut, RequestsTypeOK
  <2>2. request[r] \in Exchange
    BY <1>2, <2>1 DEF TimeOut, Open, RequestsTypeOK
  <2>3. request'[r].state = "timed out"
    BY <2>1, <2>2 DEF Exchange
  <2> QED
    BY <2>3 DEF OpenRequests, Open
<1>3. ASSUME NEW q \in Requests, NEW c \in Contents, Ask(q, c), request'[r] # request[r]
      PROVE  Goal
  <2>1. /\ request[r] = None
        /\ request'[r] = [content |-> c, state |-> "open", answer |-> {}]
    BY <1>3 DEF Ask, RequestsTypeOK
  <2> QED
    BY <2>1
<1>4. ASSUME NEW p \in Procs, NEW s \in Responders, Reply(p, s), request'[r] # request[r]
      PROVE  Goal
  <2>1. /\ work[p][s] # None /\ work[p][s].pc = "ready" /\ work[p][s].req = r /\ Open(r)
        /\ request'[r] = [request[r] EXCEPT !.state = "answered", !.answer = work[p][s].answer]
    BY <1>4 DEF Reply, RequestsTypeOK
  <2>2. request[r] \in Exchange
    BY <2>1 DEF Open, RequestsTypeOK
  <2>3. request'[r].state = "answered" /\ request'[r].answer = work[p][s].answer
    BY <2>1, <2>2 DEF Exchange
  <2> QED
    BY <2>1, <2>3 DEF OpenRequests, Open
<1>5. \/ UNCHANGED request
      \/ \E q \in Requests : TimeOut(q) \/ \E c \in Contents : Ask(q, c)
      \/ \E p \in Procs, s \in Responders : Reply(p, s)
  BY StepEffects DEF Taken, Finished
<1> QED
  BY <1>1, <1>2, <1>3, <1>4, <1>5

\* A loop that takes a request, or finishes an update, has a right answer.
LEMMA TakenReady ==
    ASSUME RequestsTypeOK, LoopsFit, Step, Remember,
           NEW p \in Procs, NEW s \in Responders, Taken(p, s)
    PROVE  AnswerReady(p, s)'
<1>1. PICK r : r = inbox[p][s][1]
  OBVIOUS
<1>2. r \in Suits(s) /\ r \in Requests /\ request[r] # None
  <2>1. 1 \in 1 .. Len(inbox[p][s])
    BY HeldTypes DEF Taken
  <2> QED
    BY <1>1, <2>1 DEF LoopsFit, LoopFits, Suits
<1>3. Truths(r)' = Truths(r)
  BY DEF Taken, tables, Truths, Says
<1>4. \/ work'[p][s] = [req |-> r, pc |-> "found", answer |-> {"success"}]
      \/ \E answer \in Answers :
           /\ work'[p][s] = [req |-> r, pc |-> "ready", answer |-> answer]
           /\ answer \in Truths(r) \/ (r \in failed' /\ answer = Apology(s))
  BY <1>1, Zenon DEF Taken
<1>5. CASE work'[p][s] = [req |-> r, pc |-> "found", answer |-> {"success"}]
  BY <1>5 DEF AnswerReady
<1>6. ASSUME NEW answer \in Answers,
             work'[p][s] = [req |-> r, pc |-> "ready", answer |-> answer],
             answer \in Truths(r) \/ (r \in failed' /\ answer = Apology(s))
      PROVE  AnswerReady(p, s)'
  <2>1. r \in OpenRequests' => answer \in Rightful'[r]
    BY <1>2, <1>3, <1>6, RightfulGrows DEF Suits
  <2>2. work'[p][s].req = r /\ work'[p][s].answer = answer
    BY <1>6
  <2> QED
    BY <2>1, <2>2 DEF AnswerReady
<1> QED
  BY <1>4, <1>5, <1>6

LEMMA FinishedReady ==
    ASSUME RequestsTypeOK, LoopsFit, Step, Remember,
           NEW p \in Procs, NEW s \in Responders, Finished(p, s)
    PROVE  AnswerReady(p, s)'
<1>1. PICK r : r = work[p][s].req
  OBVIOUS
<1>2. /\ s = "update" /\ r \in Suits(s) /\ r \in Storable /\ r \in Requests
      /\ request[r] # None /\ Says(r).subject = "update" /\ Usable(Says(r))
      /\ work[p][s].answer = {"success"} /\ work[p][s] \in Work
  BY <1>1, HeldTypes DEF Finished, LoopsFit, LoopFits, Suits, Storable, Found, SubjectOf
<1>3. \/ /\ work'[p][s] = [work[p][s] EXCEPT !.pc = "ready"]
         /\ gateways' = [gateways EXCEPT
              ![Says(r).gateway] = NormalizeStatus(Says(r).word)]
      \/ /\ work'[p][s] = [work[p][s] EXCEPT !.pc = "ready", !.answer = Apology(s)]
         /\ r \in failed'
  BY <1>1, Zenon DEF Finished, Saved
<1>4. CASE /\ work'[p][s] = [work[p][s] EXCEPT !.pc = "ready"]
           /\ gateways' = [gateways EXCEPT
                ![Says(r).gateway] = NormalizeStatus(Says(r).word)]
  <2>1. Says(r)' = Says(r)
    BY <1>2, SaysStays
  <2>2. Says(r).gateway \in Gateways
    BY <1>2, AskedContent
  <2>3. NormalizeStatus(Says(r).word) # None
    BY <1>2 DEF Usable
  <2>4. gateways'[Says(r).gateway] = NormalizeStatus(Says(r).word)
    BY <1>4, <2>2 DEF RequestsTypeOK
  <2>5. {"success"} \in Truths(r)'
    BY <1>2, <2>1, <2>3, <2>4 DEF Truths
  <2>6. r \in OpenRequests' => {"success"} \in Rightful'[r]
    BY <1>2, <2>5, RightfulGrows
  <2>7. work'[p][s].req = r /\ work'[p][s].answer = {"success"}
    BY <1>1, <1>2, <1>4 DEF Work
  <2> QED
    BY <2>6, <2>7 DEF AnswerReady
<1>5. CASE /\ work'[p][s] = [work[p][s] EXCEPT !.pc = "ready", !.answer = Apology(s)]
           /\ r \in failed'
  <2>1. Apology(s) \in Rightful'[r]
    BY <1>2, <1>5, RightfulGrows DEF Suits
  <2>2. work'[p][s].req = r /\ work'[p][s].answer = Apology(s)
    BY <1>1, <1>2, <1>5 DEF Work
  <2> QED
    BY <2>1, <2>2 DEF AnswerReady
<1> QED
  BY <1>3, <1>4, <1>5

LEMMA KeptReady ==
    ASSUME RequestsTypeOK, LoopsFit, Step, Remember,
           NEW p \in Procs, NEW s \in Responders, AnswerReady(p, s),
           work'[p][s] = work[p][s]
    PROVE  AnswerReady(p, s)'
<1> SUFFICES ASSUME work[p][s] # None, work[p][s].pc = "ready",
                    work[p][s].req \in OpenRequests'
             PROVE  work[p][s].answer \in Rightful'[work[p][s].req]
  BY DEF AnswerReady
<1>1. PICK r : r = work[p][s].req
  OBVIOUS
<1>2. r \in Requests /\ request[r] # None
  BY <1>1, HeldTypes DEF LoopsFit, LoopFits, Suits
<1>3. r \in OpenRequests
  BY <1>1, <1>2, ExchangeStep
<1>4. work[p][s].answer \in Rightful[r]
  BY <1>1, <1>3 DEF AnswerReady
<1> QED
  BY <1>1, <1>2, <1>4, RightfulGrows

LEMMA AnswersReadyStep ==
    ASSUME RequestsTypeOK, LoopsFit, AnswersReady, Step, Remember
    PROVE  AnswersReady'
<1> SUFFICES ASSUME NEW p \in Procs, NEW s \in Responders PROVE AnswerReady(p, s)'
  BY DEF AnswersReady
<1>0. AnswerReady(p, s)
  BY DEF AnswersReady
<1>1. Taken(p, s) => AnswerReady(p, s)'
  BY TakenReady
<1>2. Finished(p, s) => AnswerReady(p, s)'
  BY FinishedReady
<1>3. work'[p][s] = work[p][s] => AnswerReady(p, s)'
  BY <1>0, KeptReady
<1>4. work'[p][s] = None => AnswerReady(p, s)'
  BY DEF AnswerReady
<1>5. \/ Taken(p, s) \/ Finished(p, s)
      \/ work'[p][s] = work[p][s] \/ work'[p][s] = None
  BY LoopEffects DEF LoopKept, Queued, Replied, Emptied
<1> QED
  BY <1>1, <1>2, <1>3, <1>4, <1>5

LEMMA AnswersRightfulStep ==
    ASSUME RequestsTypeOK, LoopsFit, AnswersReady, AnswersRightful, Step, Remember
    PROVE  AnswersRightful'
<1> SUFFICES ASSUME NEW r \in Requests, request'[r] # None, request'[r].state = "answered"
             PROVE  request'[r].answer \in Rightful'[r]
  BY DEF AnswersRightful
<1>1. CASE request'[r] = request[r]
  BY <1>1, RightfulGrows DEF AnswersRightful
<1>2. CASE request'[r] # request[r]
  <2>1. /\ r \in OpenRequests
        /\ \E p \in Procs, s \in Responders :
             /\ work[p][s] # None /\ work[p][s].pc = "ready"
             /\ work[p][s].req = r
             /\ request'[r].answer = work[p][s].answer
    BY <1>2, ExchangeStep
  <2>2. request'[r].answer \in Rightful[r]
    BY <2>1 DEF AnswersReady, AnswerReady
  <2> QED
    BY <2>1, <2>2, RightfulGrows DEF OpenRequests, Open
<1> QED
  BY <1>1, <1>2

-----------------------------------------------------------------------------
(* Updates converge.                                                       *)

\* Updates of a gateway that are stored if it is found, and what they store.
Updates(g) == {r \in Storable : Says(r).gateway = g}

WantedStatus == [r \in Requests |-> NormalizeStatus(Says(r).word)]

Waits(p, g) ==
    \E i \in 1 .. Len(inbox[p]["update"]) : inbox[p]["update"][i] \in Updates(g)

Holds(p, g) == Found(p, "update") /\ work[p]["update"].req \in Updates(g)

\* Place i of the queue has the last update of a gateway in it.
LastAt(p, g, i) ==
    /\ i \in 1 .. Len(inbox[p]["update"])
    /\ inbox[p]["update"][i] \in Updates(g)
    /\ \A j \in i + 1 .. Len(inbox[p]["update"]) :
         inbox[p]["update"][j] \notin Updates(g)

\* The last update of a gateway in a process is the last that was asked.
LastIsLatest(p, g) ==
    /\ \A i \in Nat :
         LastAt(p, g, i) => WantedStatus[inbox[p]["update"][i]] = latest[g]
    /\ Holds(p, g) /\ ~ Waits(p, g) => WantedStatus[work[p]["update"].req] = latest[g]

LastsAreLatest == \A p \in Procs, g \in Gateways : LastIsLatest(p, g)

RowSettled(g) ==
    /\ gateways[g] # None /\ latest[g] # None
    /\ \A p \in Procs : ~ Waits(p, g) /\ ~ Holds(p, g)
    => gateways[g] = latest[g]

AllSettled == \A g \in Gateways \ spoiled : RowSettled(g)

\* What a request that was sent says, and so what it wants, stays.
LEMMA UpdatesStay ==
    ASSUME RequestsTypeOK, Step, NEW r \in Requests, request[r] # None, NEW g
    PROVE  /\ r \in Updates(g)' <=> r \in Updates(g)
           /\ WantedStatus'[r] = WantedStatus[r]
BY SaysStays DEF Updates, Storable, Suits, WantedStatus

\* Everything in the queue or hand of a loop was sent.
LEMMA HeldWasSent ==
    ASSUME RequestsTypeOK, LoopsFit, NEW p \in Procs, NEW s \in Responders
    PROVE  /\ \A i \in 1 .. Len(inbox[p][s]) :
                inbox[p][s][i] \in Requests /\ request[inbox[p][s][i]] # None
           /\ work[p][s] # None =>
                work[p][s].req \in Requests /\ request[work[p][s].req] # None
BY DEF LoopsFit, LoopFits, Suits

\* A loop that keeps its queue keeps the updates in it.
LEMMA SameQueue ==
    ASSUME RequestsTypeOK, LoopsFit, Step, NEW p \in Procs, NEW g,
           inbox'[p]["update"] = inbox[p]["update"]
    PROVE  /\ Waits(p, g)' <=> Waits(p, g)
           /\ \A i \in Nat : LastAt(p, g, i)' <=> LastAt(p, g, i)
           /\ \A i \in Nat : LastAt(p, g, i) =>
                WantedStatus'[inbox[p]["update"][i]] = WantedStatus[inbox[p]["update"][i]]
<1> DEFINE q == inbox[p]["update"]
<1>1. q \in Seq(Requests)
  BY HeldTypes DEF Responders
<1>2. \A i \in 1 .. Len(q) :
        /\ q[i] \in Updates(g)' <=> q[i] \in Updates(g)
        /\ WantedStatus'[q[i]] = WantedStatus[q[i]]
  BY HeldWasSent, UpdatesStay DEF Responders
<1>3. inbox'[p]["update"] = q /\ Len(q) \in Nat
  BY <1>1
<1>4. \A i \in Nat : \A j \in i + 1 .. Len(q) : j \in 1 .. Len(q)
  BY <1>3
<1>a. Waits(p, g)' <=> Waits(p, g)
  BY <1>2, <1>3 DEF Waits
<1>b. \A i \in Nat : LastAt(p, g, i)' <=> LastAt(p, g, i)
  BY <1>2, <1>3, <1>4 DEF LastAt
<1>c. \A i \in Nat : LastAt(p, g, i) => WantedStatus'[q[i]] = WantedStatus[q[i]]
  BY <1>2 DEF LastAt
<1> QED
  BY <1>a, <1>b, <1>c

\* A loop that keeps what it has in hand, keeps it as it was.
LEMMA SameHand ==
    ASSUME RequestsTypeOK, LoopsFit, Step, NEW p \in Procs, NEW g,
           work'[p]["update"] = work[p]["update"]
    PROVE  /\ Holds(p, g)' <=> Holds(p, g)
           /\ Holds(p, g) =>
                WantedStatus'[work[p]["update"].req] = WantedStatus[work[p]["update"].req]
BY HeldWasSent, UpdatesStay DEF Responders, Holds, Found

\* A loop that keeps both, while no new status is asked, keeps its last.
LEMMA KeptLast ==
    ASSUME RequestsTypeOK, LoopsFit, Step, NEW p \in Procs, NEW g \in Gateways,
           LastIsLatest(p, g), inbox'[p]["update"] = inbox[p]["update"],
           work'[p]["update"] = work[p]["update"] \/ ~ Found(p, "update")',
           latest'[g] = latest[g]
    PROVE  LastIsLatest(p, g)'
<1>1. \A i \in Nat : LastAt(p, g, i)' => WantedStatus'[inbox'[p]["update"][i]] = latest'[g]
  BY SameQueue DEF LastIsLatest
<1>2. Holds(p, g)' /\ ~ Waits(p, g)' => WantedStatus'[work'[p]["update"].req] = latest'[g]
  <2>1. CASE work'[p]["update"] = work[p]["update"]
    BY <2>1, SameQueue, SameHand DEF LastIsLatest
  <2>2. CASE ~ Found(p, "update")'
    BY <2>2 DEF Holds
  <2> QED
    BY <2>1, <2>2
<1> QED
  BY <1>1, <1>2 DEF LastIsLatest

\* A loop that has nothing has no last update.
LEMMA NoLast ==
    ASSUME NEW p, NEW g, inbox'[p]["update"] = <<>>, work'[p]["update"] = None
    PROVE  LastIsLatest(p, g)' /\ ~ Waits(p, g)' /\ ~ Holds(p, g)'
BY DEF LastIsLatest, LastAt, Holds, Found, Waits

\* What a new request says, and whether it is an update that counts.
LEMMA AskedUpdate ==
    ASSUME RequestsTypeOK, NEW r \in Requests, NEW c \in Contents, Ask(r, c), NEW g
    PROVE  /\ r \in Updates(g)' <=>
                /\ c.subject = "update" /\ c.gateway = g
                /\ NormalizeStatus(c.word) # None
           /\ WantedStatus'[r] = NormalizeStatus(c.word)
<1>1. request'[r] = [content |-> c, state |-> "open", answer |-> {}]
  BY DEF Ask, RequestsTypeOK
<1>2. [content |-> c, state |-> "open", answer |-> {}] \in Exchange
  BY DEF Exchange, Answers
<1>3. request'[r] # None /\ Says(r)' = c
  BY <1>1, <1>2, NoneAssumption DEF Says
<1>4. WantedStatus'[r] = NormalizeStatus(c.word)
  BY <1>3 DEF WantedStatus
<1>5. r \in Updates(g)' <=> c.subject = "update" /\ c.gateway = g /\ Usable(c)
  BY <1>3 DEF Updates, Storable, Suits, SubjectOf
<1> QED
  BY <1>4, <1>5 DEF Usable

\* The latest status of a gateway is that of the new request, if any process
\* hears it, and else as it was.
LEMMA AskedLatest ==
    ASSUME RequestsTypeOK, NEW r \in Requests, NEW c \in Contents, Ask(r, c),
           NEW g \in Gateways
    PROVE  \/ latest'[g] = latest[g]
              /\ (r \in Updates(g)' => \A p \in Procs : ~ Hears(p, "update", c))
           \/ /\ r \in Updates(g)'
              /\ latest'[g] = WantedStatus'[r]
              /\ \E p \in Procs : Hears(p, "update", c)
<1>1. /\ r \in Updates(g)' <=>
           /\ c.subject = "update" /\ c.gateway = g
           /\ NormalizeStatus(c.word) # None
      /\ WantedStatus'[r] = NormalizeStatus(c.word)
  BY AskedUpdate
<1>2. latest' = IF /\ c.subject = "update"
                   /\ NormalizeStatus(c.word) # None
                   /\ \E p \in Procs : Hears(p, "update", c)
                THEN [latest EXCEPT ![c.gateway] = NormalizeStatus(c.word)]
                ELSE latest
  BY DEF Ask, Hears
<1> QED
  BY <1>1, <1>2 DEF RequestsTypeOK

\* A new request of a loop's queue is its last update, if it is one.
LEMMA QueuedLast ==
    ASSUME RequestsTypeOK, LoopsFit, Step, NEW p \in Procs, NEW g \in Gateways,
           LastIsLatest(p, g), NEW r \in Requests, NEW c \in Contents,
           Ask(r, c), Queued(p, "update", r, c)
    PROVE  LastIsLatest(p, g)' /\ (Waits(p, g) => Waits(p, g)')
<1> DEFINE q == inbox[p]["update"]
           n == Len(inbox[p]["update"])
<1>1. q \in Seq(Requests) /\ n \in Nat
  BY HeldTypes DEF Responders
<1>2. inbox'[p]["update"] = Append(q, r) /\ work'[p]["update"] = work[p]["update"]
  BY DEF Queued
<1>3. /\ Len(inbox'[p]["update"]) = n + 1
      /\ inbox'[p]["update"][n + 1] = r
      /\ \A i \in 1 .. n : inbox'[p]["update"][i] = q[i]
  BY <1>1, <1>2
<1>4. \A i \in 1 .. n :
        /\ q[i] \in Updates(g)' <=> q[i] \in Updates(g)
        /\ WantedStatus'[q[i]] = WantedStatus[q[i]]
  BY HeldWasSent, UpdatesStay DEF Responders
<1>5. Hears(p, "update", c)
  BY DEF Queued
<1>6. \/ latest'[g] = latest[g] /\ r \notin Updates(g)'
      \/ r \in Updates(g)' /\ latest'[g] = WantedStatus'[r]
  BY <1>5, AskedLatest
<1>7. Waits(p, g) => Waits(p, g)'
  <2> SUFFICES ASSUME NEW i \in 1 .. n, q[i] \in Updates(g) PROVE Waits(p, g)'
    BY DEF Waits
  <2>1. i \in 1 .. Len(inbox'[p]["update"])
    BY <1>1, <1>3
  <2> QED
    BY <2>1, <1>3, <1>4 DEF Waits
<1>8. ASSUME NEW i \in Nat, LastAt(p, g, i)'
      PROVE  WantedStatus'[inbox'[p]["update"][i]] = latest'[g]
  <2>1. CASE i = n + 1
    <3>1. r \in Updates(g)'
      BY <1>3, <1>8, <2>1 DEF LastAt
    <3> QED
      BY <1>3, <1>6, <2>1, <3>1
  <2>2. CASE i # n + 1
    <3>1. i \in 1 .. n /\ n + 1 \in i + 1 .. n + 1
      BY <1>1, <1>3, <1>8, <2>2 DEF LastAt
    <3>2. r \notin Updates(g)'
      BY <1>3, <1>8, <3>1 DEF LastAt
    <3>3. \A j \in i + 1 .. n : j \in 1 .. n /\ j \in i + 1 .. n + 1
      BY <1>1, <3>1
    <3>4. LastAt(p, g, i)
      BY <1>3, <1>4, <1>8, <3>1, <3>3 DEF LastAt
    <3>5. WantedStatus[q[i]] = latest[g]
      BY <3>4 DEF LastIsLatest
    <3> QED
      BY <1>3, <1>4, <1>6, <3>1, <3>2, <3>5
  <2> QED
    BY <2>1, <2>2
<1>9. Holds(p, g)' /\ ~ Waits(p, g)' => WantedStatus'[work'[p]["update"].req] = latest'[g]
  <2> SUFFICES ASSUME Holds(p, g)', ~ Waits(p, g)'
               PROVE  WantedStatus'[work'[p]["update"].req] = latest'[g]
    OBVIOUS
  <2>1. r \notin Updates(g)'
    <3>1. n + 1 \in 1 .. Len(inbox'[p]["update"])
      BY <1>1, <1>3
    <3> QED
      BY <1>3, <3>1 DEF Waits
  <2>2. Holds(p, g) /\ ~ Waits(p, g)
    BY <1>2, <1>7, SameHand
  <2> QED
    BY <1>2, <1>6, <2>1, <2>2, SameHand DEF LastIsLatest
<1> QED
  BY <1>7, <1>8, <1>9 DEF LastIsLatest

\* The last update of the queue is still that, or it is in hand.
LEMMA TakenLast ==
    ASSUME RequestsTypeOK, LoopsFit, Step, NEW p \in Procs, NEW g \in Gateways,
           LastIsLatest(p, g), Taken(p, "update")
    PROVE  /\ LastIsLatest(p, g)'
           /\ Waits(p, g) => Waits(p, g)' \/ inbox[p]["update"][1] \in Updates(g)
<1> DEFINE q == inbox[p]["update"]
           n == Len(inbox[p]["update"])
<1>1. q \in Seq(Requests) /\ n \in Nat \ {0} /\ q # <<>>
  BY HeldTypes DEF Responders, Taken
<1>2. /\ Len(inbox'[p]["update"]) = n - 1
      /\ \A i \in 1 .. n - 1 : inbox'[p]["update"][i] = q[i + 1]
  BY <1>1, RestOfQueue DEF Taken
<1>3. \A i \in 1 .. n :
        /\ q[i] \in Updates(g)' <=> q[i] \in Updates(g)
        /\ WantedStatus'[q[i]] = WantedStatus[q[i]]
  BY HeldWasSent, UpdatesStay DEF Responders
<1>4. latest'[g] = latest[g]
  BY DEF Taken
<1>5. Waits(p, g) => Waits(p, g)' \/ q[1] \in Updates(g)
  <2> SUFFICES ASSUME NEW i \in 1 .. n, q[i] \in Updates(g), i # 1 PROVE Waits(p, g)'
    BY DEF Waits
  <2>1. i - 1 \in 1 .. n - 1 /\ (i - 1) + 1 = i
    BY <1>1
  <2>2. inbox'[p]["update"][i - 1] = q[i]
    BY <1>2, <2>1
  <2> QED
    BY <1>2, <1>3, <2>1, <2>2 DEF Waits
<1>6. ASSUME NEW i \in Nat, LastAt(p, g, i)'
      PROVE  WantedStatus'[inbox'[p]["update"][i]] = latest'[g]
  <2>1. /\ i \in 1 .. n - 1 /\ i + 1 \in 1 .. n
        /\ inbox'[p]["update"][i] = q[i + 1]
    BY <1>1, <1>2, <1>6 DEF LastAt
  <2>2. ASSUME NEW j \in (i + 1) + 1 .. n PROVE q[j] \notin Updates(g)
    <3>1. j - 1 \in i + 1 .. n - 1 /\ j - 1 \in 1 .. n - 1 /\ (j - 1) + 1 = j /\ j \in 1 .. n
      BY <1>1, <2>1
    <3>2. inbox'[p]["update"][j - 1] = q[j]
      BY <1>2, <3>1
    <3>3. inbox'[p]["update"][j - 1] \notin Updates(g)'
      BY <1>2, <1>6, <3>1 DEF LastAt
    <3> QED
      BY <1>3, <3>1, <3>2, <3>3
  <2>3. q[i + 1] \in Updates(g)
    BY <1>3, <1>6, <2>1 DEF LastAt
  <2>4. LastAt(p, g, i + 1)
    BY <2>1, <2>2, <2>3 DEF LastAt
  <2>5. WantedStatus[q[i + 1]] = latest[g]
    BY <2>1, <2>4 DEF LastIsLatest
  <2> QED
    BY <1>3, <1>4, <2>1, <2>5
<1>7. Holds(p, g)' /\ ~ Waits(p, g)' => WantedStatus'[work'[p]["update"].req] = latest'[g]
  <2> SUFFICES ASSUME Holds(p, g)', ~ Waits(p, g)'
               PROVE  WantedStatus'[work'[p]["update"].req] = latest'[g]
    OBVIOUS
  <2>1. work'[p]["update"].req = q[1] /\ 1 \in 1 .. n
    <3>1. work'[p]["update"].req = q[1]
      BY TakenHand DEF Responders
    <3> QED
      BY <1>1, <3>1
  <2>2. ASSUME NEW j \in 1 + 1 .. n PROVE q[j] \notin Updates(g)
    <3>1. j - 1 \in 1 .. n - 1 /\ (j - 1) + 1 = j /\ j \in 1 .. n
      BY <1>1
    <3>2. inbox'[p]["update"][j - 1] = q[j]
      BY <1>2, <3>1
    <3>3. inbox'[p]["update"][j - 1] \notin Updates(g)'
      BY <1>2, <3>1 DEF Waits
    <3> QED
      BY <1>3, <3>1, <3>2, <3>3
  <2>3. q[1] \in Updates(g)
    BY <1>3, <2>1 DEF Holds
  <2>4. LastAt(p, g, 1)
    BY <2>1, <2>2, <2>3 DEF LastAt
  <2>5. WantedStatus[q[1]] = latest[g]
    BY <2>4 DEF LastIsLatest
  <2> QED
    BY <1>3, <1>4, <2>1, <2>5
<1> QED
  BY <1>5, <1>6, <1>7 DEF LastIsLatest

\* Nothing else a loop does asks a new status.
LEMMA UnaskedLatest ==
    ASSUME RequestsTypeOK, LoopsFit, Step, NEW g \in Gateways
    PROVE  \/ latest'[g] = latest[g]
           \/ \E r \in Requests, c \in Contents :
                /\ Ask(r, c)
                /\ \A p \in Procs, s \in Responders :
                     \/ LoopKept(p, s) /\ ~ Hears(p, s, c)
                     \/ Queued(p, s, r, c)
<1>1. ASSUME NEW p \in Procs, NEW s \in Responders,
             Taken(p, s) \/ Finished(p, s) \/ Reply(p, s)
      PROVE  UNCHANGED latest
  <2>1. CASE Taken(p, s)
    BY <2>1, Zenon DEF Taken
  <2>2. CASE Finished(p, s)
    BY <2>2, Zenon DEF Finished
  <2>3. CASE Reply(p, s)
    BY <2>3 DEF Reply
  <2> QED
    BY <1>1, <2>1, <2>2, <2>3
<1> QED
  BY <1>1, StepEffects

LEMMA LastsAreLatestStep ==
    ASSUME RequestsTypeOK, LoopsFit, LastsAreLatest, Step
    PROVE  LastsAreLatest'
<1> SUFFICES ASSUME NEW p \in Procs, NEW g \in Gateways PROVE LastIsLatest(p, g)'
  BY DEF LastsAreLatest
<1>0. LastIsLatest(p, g) /\ "update" \in Responders
  BY DEF LastsAreLatest, Responders
<1>1. ASSUME NEW r \in Requests, NEW c \in Contents, Ask(r, c),
             \/ LoopKept(p, "update") /\ ~ Hears(p, "update", c)
             \/ Queued(p, "update", r, c)
      PROVE  LastIsLatest(p, g)'
  <2>1. CASE Queued(p, "update", r, c)
    BY <1>0, <1>1, <2>1, QueuedLast
  <2>2. CASE LoopKept(p, "update") /\ latest'[g] = latest[g]
    BY <1>0, <2>2, KeptLast DEF LoopKept
  <2>3. CASE LoopKept(p, "update") /\ ~ Hears(p, "update", c) /\ latest'[g] # latest[g]
    <3>1. c.subject = "update"
      BY <1>1, <2>3, AskedLatest, AskedUpdate
    <3>2. loop[p]["update"] # "listening"
      BY <2>3, <3>1 DEF Hears, SubjectOf
    <3>3. inbox'[p]["update"] = <<>> /\ work'[p]["update"] = None
      BY <1>0, <2>3, <3>2 DEF LoopKept, LoopsFit, LoopFits
    <3> QED
      BY <3>3, NoLast
  <2> QED
    BY <1>1, <2>1, <2>2, <2>3
<1>2. ASSUME latest'[g] = latest[g],
             LoopKept(p, "update") \/ Finished(p, "update") \/ Replied(p, "update")
      PROVE  LastIsLatest(p, g)'
  <2>1. inbox'[p]["update"] = inbox[p]["update"]
    BY <1>2 DEF LoopKept, Finished, Replied
  <2>2. work'[p]["update"] = work[p]["update"] \/ ~ Found(p, "update")'
    <3>1. ASSUME Finished(p, "update") PROVE ~ Found(p, "update")'
      <4>1. work[p]["update"] \in Work
        BY <1>0, <3>1, HeldTypes DEF Finished, Found
      <4>2. \/ work'[p]["update"] = [work[p]["update"] EXCEPT !.pc = "ready"]
            \/ work'[p]["update"] =
                 [work[p]["update"] EXCEPT !.pc = "ready", !.answer = Apology("update")]
        BY <3>1, Zenon DEF Finished
      <4> QED
        BY <4>1, <4>2 DEF Work, Found
    <3> QED
      BY <1>2, <3>1 DEF LoopKept, Replied, Found
  <2> QED
    BY <1>0, <1>2, <2>1, <2>2, KeptLast
<1>3. ASSUME \/ Emptied(p, "update")
             \/ inbox[p]["update"] = <<>> /\ work[p]["update"] = None
                /\ UNCHANGED <<inbox, work>>
      PROVE  LastIsLatest(p, g)'
  BY <1>3, NoLast DEF Emptied
<1>4. CASE Taken(p, "update")
  BY <1>0, <1>4, TakenLast
<1>5. CASE latest'[g] = latest[g]
  <2>1. ASSUME NEW r \in Requests, NEW c \in Contents, Ask(r, c), Queued(p, "update", r, c)
        PROVE  LastIsLatest(p, g)'
    BY <1>1, <2>1
  <2> QED
    BY <1>0, <1>2, <1>3, <1>4, <1>5, <2>1, LoopEffects
<1> QED
  BY <1>0, <1>1, <1>5, UnaskedLatest

\* A loop that keeps what it has holds no update that it does not hold after.
LEMMA KeptPending ==
    ASSUME RequestsTypeOK, LoopsFit, Step, NEW p \in Procs, NEW g,
           LoopKept(p, "update"), ~ Waits(p, g)', ~ Holds(p, g)'
    PROVE  ~ Waits(p, g) /\ ~ Holds(p, g)
BY SameQueue, SameHand DEF LoopKept

\* A loop from which no update of a gateway would be dropped has none.
LEMMA NonePending ==
    ASSUME RequestsTypeOK, NEW p \in Procs, NEW g, g \notin Pending(p, "update")
    PROVE  ~ Waits(p, g) /\ ~ Holds(p, g)
<1>1. ASSUME Waits(p, g) PROVE FALSE
  <2>1. PICK i \in 1 .. Len(inbox[p]["update"]) : inbox[p]["update"][i] \in Updates(g)
    BY <1>1 DEF Waits
  <2>2. inbox[p]["update"][i] \in ToSet(inbox[p]["update"])
    BY <2>1, HeldTypes, MemberHasPlace DEF Responders
  <2>3. Says(inbox[p]["update"][i]).gateway = g
    BY <2>1 DEF Updates
  <2> QED
    BY <2>2, <2>3 DEF Pending
<1>2. ASSUME Holds(p, g) PROVE FALSE
  BY <1>2 DEF Pending, Holds, Found, Updates
<1> QED
  BY <1>1, <1>2

\* A loop that drops an update of a gateway spoils it.
LEMMA EmptiedPending ==
    ASSUME RequestsTypeOK, NEW p \in Procs, NEW g, Emptied(p, "update"), g \notin spoiled'
    PROVE  ~ Waits(p, g) /\ ~ Holds(p, g)
BY NonePending DEF Emptied

\* Where no update of a gateway is left anywhere, the gateway has the status
\* asked last: a request that joins a queue is left in it, ...
LEMMA AskedSettled ==
    ASSUME RequestsTypeOK, LoopsFit, LastsAreLatest, Step, NEW g \in Gateways,
           RowSettled(g),
           NEW r \in Requests, NEW c \in Contents, Ask(r, c),
           \A p \in Procs, s \in Responders :
             \/ LoopKept(p, s) /\ ~ Hears(p, s, c)
             \/ Queued(p, s, r, c)
    PROVE  RowSettled(g)'
<1> SUFFICES ASSUME gateways'[g] # None, latest'[g] # None,
                    \A p \in Procs : ~ Waits(p, g)' /\ ~ Holds(p, g)'
             PROVE  gateways'[g] = latest'[g]
  BY DEF RowSettled
<1>0. "update" \in Responders
  BY DEF Responders
<1>1. ASSUME NEW p \in Procs PROVE ~ Waits(p, g) /\ ~ Holds(p, g)
  <2>1. CASE LoopKept(p, "update")
    BY <2>1, KeptPending
  <2>2. CASE Queued(p, "update", r, c)
    <3>1. LastIsLatest(p, g)
      BY DEF LastsAreLatest
    <3>2. ~ Waits(p, g)
      BY <2>2, <3>1, QueuedLast
    <3>3. ~ Holds(p, g)
      BY <2>2, SameHand DEF Queued
    <3> QED
      BY <3>2, <3>3
  <2> QED
    BY <1>0, <2>1, <2>2
<1>2. latest'[g] = latest[g]
  <2> SUFFICES ASSUME r \in Updates(g)', NEW p \in Procs, Hears(p, "update", c)
               PROVE  FALSE
    BY AskedLatest
  <2>1. Queued(p, "update", r, c)
    BY <1>0
  <2>2. inbox[p]["update"] \in Seq(Requests)
    BY <1>0, HeldTypes
  <2>3. /\ Len(inbox'[p]["update"]) = Len(inbox[p]["update"]) + 1
        /\ inbox'[p]["update"][Len(inbox[p]["update"]) + 1] = r
    BY <2>1, <2>2 DEF Queued
  <2>4. Len(inbox[p]["update"]) + 1 \in 1 .. Len(inbox'[p]["update"])
    BY <2>2, <2>3
  <2>5. Waits(p, g)'
    BY <2>3, <2>4 DEF Waits
  <2> QED
    BY <2>5
<1>3. gateways'[g] = gateways[g]
  BY DEF Ask, tables
<1> QED
  BY <1>1, <1>2, <1>3 DEF RowSettled

\* ... one that is taken goes on to its save, if the gateway is there, ...
LEMMA TakenSettled ==
    ASSUME RequestsTypeOK, LoopsFit, LastsAreLatest, Step, NEW g \in Gateways \ spoiled',
           RowSettled(g),
           NEW p \in Procs, NEW s \in Responders, MovesAlone(p, s), Taken(p, s)
    PROVE  RowSettled(g)'
<1> SUFFICES ASSUME gateways'[g] # None, latest'[g] # None,
                    \A q \in Procs : ~ Waits(q, g)' /\ ~ Holds(q, g)'
             PROVE  gateways'[g] = latest'[g]
  BY DEF RowSettled
<1>0. "update" \in Responders
  BY DEF Responders
<1>1. gateways' = gateways /\ latest' = latest
  BY Zenon DEF Taken, tables
<1>2. ASSUME NEW q \in Procs PROVE ~ Waits(q, g) /\ ~ Holds(q, g)
  <2>1. CASE q # p \/ s # "update"
    BY <1>0, <2>1, KeptPending DEF MovesAlone
  <2>2. CASE q = p /\ s = "update"
    <3>1. ~ Holds(p, g)
      BY <2>2 DEF Taken, Holds, Found
    <3>2. ASSUME Waits(p, g) PROVE FALSE
      <4> DEFINE r == inbox[p]["update"][1]
      <4>1. r \in Updates(g)
        <5>1. LastIsLatest(p, g)
          BY DEF LastsAreLatest
        <5> QED
          BY <2>2, <3>2, <5>1, TakenLast
      <4>2. work'[p]["update"] # None /\ work'[p]["update"].req = r
        BY <1>0, <2>2, TakenHand
      <4>3. 1 \in 1 .. Len(inbox[p]["update"])
        BY <1>0, <2>2, HeldTypes DEF Taken
      <4>4. r \in Updates(g)'
        BY <1>0, <4>1, <4>3, HeldWasSent, UpdatesStay
      <4>5. work'[p]["update"].pc # "found"
        BY <2>2, <4>2, <4>4 DEF Holds, Found
      <4>6. gateways[g] = None
        BY <1>0, <2>2, <4>1, <4>5, TakenHand DEF Updates, Storable
      <4> QED
        BY <1>1, <4>6
    <3> QED
      BY <2>2, <3>1, <3>2
  <2> QED
    BY <2>1, <2>2
<1> QED
  BY <1>1, <1>2 DEF RowSettled

\* ... and the last that is saved is what was asked last.
LEMMA FinishedSettled ==
    ASSUME RequestsTypeOK, LoopsFit, LastsAreLatest, Step, NEW g \in Gateways \ spoiled',
           RowSettled(g),
           NEW p \in Procs, NEW s \in Responders, MovesAlone(p, s), Finished(p, s)
    PROVE  RowSettled(g)'
<1> SUFFICES ASSUME gateways'[g] # None, latest'[g] # None,
                    \A q \in Procs : ~ Waits(q, g)' /\ ~ Holds(q, g)'
             PROVE  gateways'[g] = latest'[g]
  BY DEF RowSettled
<1>1. PICK r : r = work[p][s].req
  OBVIOUS
<1>2. /\ s = "update" /\ r \in Storable /\ r \in Requests /\ request[r] # None
      /\ Says(r).gateway \in Gateways
  <2>1. s = "update" /\ r \in Storable /\ r \in Requests /\ request[r] # None
    BY <1>1 DEF Finished, LoopsFit, LoopFits, Storable, Suits
  <2> QED
    BY <2>1, AskedContent
<1>3. \/ gateways' = [gateways EXCEPT ![Says(r).gateway] = NormalizeStatus(Says(r).word)]
      \/ Says(r).gateway \in spoiled' /\ UNCHANGED gateways
  BY <1>1, Zenon DEF Finished, Saved
<1>4. latest' = latest /\ inbox'[p]["update"] = inbox[p]["update"] /\ Found(p, "update")
  BY <1>2, Zenon DEF Finished
<1>5. \A q \in Procs : q # p => ~ Waits(q, g) /\ ~ Holds(q, g)
  BY <1>2, KeptPending DEF MovesAlone
<1>6. ~ Waits(p, g)
  BY <1>4, SameQueue
<1>7. CASE r \in Updates(g)
  <2>1. Says(r).gateway = g
    BY <1>7 DEF Updates
  <2>2. gateways'[g] = NormalizeStatus(Says(r).word)
    BY <1>3, <2>1 DEF RequestsTypeOK
  <2>3. Holds(p, g)
    BY <1>1, <1>2, <1>4, <1>7 DEF Holds
  <2>4. WantedStatus[r] = latest[g]
    BY <1>1, <1>2, <1>6, <2>3 DEF LastsAreLatest, LastIsLatest
  <2> QED
    BY <1>2, <1>4, <2>2, <2>4 DEF WantedStatus
<1>8. CASE r \notin Updates(g)
  <2>1. Says(r).gateway # g
    BY <1>2, <1>8 DEF Updates
  <2>2. gateways'[g] = gateways[g]
    BY <1>2, <1>3, <2>1 DEF RequestsTypeOK
  <2>3. ~ Holds(p, g)
    BY <1>1, <1>2, <1>8 DEF Holds
  <2> QED
    BY <1>4, <1>5, <1>6, <2>2, <2>3 DEF RowSettled
<1> QED
  BY <1>7, <1>8

\* Nothing else changes the row or the updates that are left, but at a gateway
\* that it spoils.
LEMMA QuietSettled ==
    ASSUME RequestsTypeOK, LoopsFit, Step, NEW g \in Gateways \ spoiled', RowSettled(g),
           gateways'[g] = gateways[g], UNCHANGED latest,
           \A p \in Procs :
             \/ LoopKept(p, "update") \/ Emptied(p, "update")
             \/ inbox[p]["update"] = <<>> /\ work[p]["update"] = None
             \/ Replied(p, "update")
    PROVE  RowSettled(g)'
<1> SUFFICES ASSUME gateways'[g] # None, latest'[g] # None,
                    \A p \in Procs : ~ Waits(p, g)' /\ ~ Holds(p, g)'
             PROVE  gateways'[g] = latest'[g]
  BY DEF RowSettled
<1>1. ASSUME NEW p \in Procs PROVE ~ Waits(p, g) /\ ~ Holds(p, g)
  <2>1. CASE LoopKept(p, "update")
    BY <2>1, KeptPending
  <2>2. CASE Emptied(p, "update")
    BY <2>2, EmptiedPending
  <2>3. CASE inbox[p]["update"] = <<>> /\ work[p]["update"] = None
    BY <2>3 DEF Waits, Holds, Found
  <2>4. CASE Replied(p, "update")
    BY <2>4, SameQueue DEF Replied, Holds, Found
  <2> QED
    BY <2>1, <2>2, <2>3, <2>4
<1> QED
  BY <1>1 DEF RowSettled

LEMMA AllSettledStep ==
    ASSUME RequestsTypeOK, LoopsFit, LastsAreLatest, AllSettled, Step
    PROVE  AllSettled'
<1> SUFFICES ASSUME NEW g \in Gateways \ spoiled' PROVE RowSettled(g)'
  BY DEF AllSettled
<1>0. RowSettled(g) /\ "update" \in Responders
  BY HistoryGrows DEF AllSettled, Responders
<1>1. ASSUME NEW r \in Requests, NEW c \in Contents, Ask(r, c),
             \A p \in Procs, s \in Responders :
               \/ LoopKept(p, s) /\ ~ Hears(p, s, c)
               \/ Queued(p, s, r, c)
      PROVE  RowSettled(g)'
  BY <1>0, <1>1, AskedSettled
<1>2. ASSUME NEW p \in Procs, NEW s \in Responders, MovesAlone(p, s),
             Taken(p, s) \/ Finished(p, s)
      PROVE  RowSettled(g)'
  BY <1>0, <1>2, TakenSettled, FinishedSettled
<1>3. ASSUME NEW p \in Procs, NEW s \in Responders, MovesAlone(p, s), Replied(p, s), Reply(p, s)
      PROVE  RowSettled(g)'
  <2>1. gateways' = gateways /\ latest' = latest
    BY <1>3 DEF Reply, tables
  <2>2. \A q \in Procs : LoopKept(q, "update") \/ Replied(q, "update")
    BY <1>0, <1>3 DEF MovesAlone
  <2> QED
    BY <1>0, <2>1, <2>2, QuietSettled
<1>4. ASSUME \A p \in Procs, s \in Responders :
               \/ LoopKept(p, s) \/ Emptied(p, s)
               \/ /\ inbox[p][s] = <<>> /\ work[p][s] = None
                  /\ UNCHANGED <<inbox, work>>,
             UNCHANGED latest,
             \A h \in Gateways : h \in spoiled' \/ gateways'[h] = gateways[h]
      PROVE  RowSettled(g)'
  BY <1>0, <1>4, QuietSettled
<1> QED
  BY <1>1, <1>2, <1>3, <1>4, StepEffects

-----------------------------------------------------------------------------
(* The theorems.                                                           *)

RequestsInv ==
    /\ RequestsTypeOK
    /\ LoopsFit
    /\ AnswersReady /\ AnswersRightful
    /\ LastsAreLatest /\ AllSettled

LEMMA RequestsInvInit ==
    RequestsInit => RequestsInv
<1> SUFFICES ASSUME RequestsInit PROVE RequestsInv
  OBVIOUS
<1>1. RequestsTypeOK
  <2>1. gateways \in [Gateways -> Rows \cup {None}]
    BY DEF RequestsInit, Rows, Statuses
  <2> QED
    BY <2>1, EventsAssumption DEF RequestsInit, RequestsTypeOK
<1>2. LoopsFit
  BY DEF RequestsInit, LoopsFit, LoopFits, Found
<1>3. AnswersReady /\ AnswersRightful
  BY DEF RequestsInit, AnswersReady, AnswerReady, AnswersRightful
<1>4. LastsAreLatest
  BY DEF RequestsInit, LastsAreLatest, LastIsLatest, LastAt, Holds, Found, Responders
<1>5. AllSettled
  BY DEF RequestsInit, AllSettled, RowSettled
<1> QED
  BY <1>1, <1>2, <1>3, <1>4, <1>5 DEF RequestsInv

LEMMA RequestsInvStep ==
    RequestsInv /\ [RequestsNext]_requestsVars => RequestsInv'
<1> SUFFICES ASSUME RequestsInv, [RequestsNext]_requestsVars PROVE RequestsInv'
  OBVIOUS
<1> USE DEF RequestsInv
<1>1. CASE UNCHANGED requestsVars
  <2>1. /\ gateways' = gateways /\ configs' = configs /\ loop' = loop
        /\ inbox' = inbox /\ work' = work /\ request' = request
        /\ events' = events /\ failed' = failed /\ truth' = truth
        /\ latest' = latest /\ spoiled' = spoiled
    BY <1>1 DEF requestsVars, tables, responders
  <2>2. RequestsTypeOK' /\ LoopsFit'
    BY <2>1 DEF RequestsTypeOK, LoopsFit, LoopFits, Found, Storable, Suits, Says
  <2>3. AnswersReady' /\ AnswersRightful'
    <3>1. Rightful' = Rightful
      BY <2>1, Zenon DEF Rightful, Says
    <3>2. OpenRequests' = OpenRequests
      BY <2>1 DEF OpenRequests, Open
    <3>3. AnswersReady'
      BY <2>1, <3>1, <3>2, Zenon DEF AnswersReady, AnswerReady
    <3>4. AnswersRightful'
      BY <2>1, <3>1, Zenon DEF AnswersRightful
    <3> QED
      BY <3>3, <3>4
  <2>4. LastsAreLatest' /\ AllSettled'
    <3>1. WantedStatus' = WantedStatus
      BY <2>1, Zenon DEF WantedStatus, Says
    <3>2. Storable' = Storable
      BY <2>1, Zenon DEF Storable, Suits, Says
    <3>3. \A g : Updates(g)' = Updates(g)
      BY <2>1, <3>2, Zenon DEF Updates, Says
    <3>4. LastsAreLatest'
      BY <2>1, <3>1, <3>3 DEF LastsAreLatest, LastIsLatest, LastAt, Waits, Holds, Found
    <3>5. AllSettled'
      BY <2>1, <3>3, Zenon DEF AllSettled, RowSettled, Waits, Holds, Found
    <3> QED
      BY <3>4, <3>5
  <2> QED
    BY <2>2, <2>3, <2>4
<1>2. CASE Step /\ Remember
  BY <1>2, RequestsTypes, LoopsFitStep, AnswersReadyStep, AnswersRightfulStep,
     LastsAreLatestStep, AllSettledStep
<1> QED
  BY <1>1, <1>2, NextIsStep

\* The inductive invariant: types, what the loops hold, that what they are
\* about to answer and what was answered is right, that in each process the
\* last update of a gateway is the last asked, and that with no update left
\* the row has it.
THEOREM RequestsInvariant == RequestsSpec => []RequestsInv
<1>1. RequestsInit => RequestsInv
  BY RequestsInvInit
<1>2. RequestsInv /\ [RequestsNext]_requestsVars => RequestsInv'
  BY RequestsInvStep
<1> QED
  BY <1>1, <1>2, PTL DEF RequestsSpec

\* The variables of the responders keep their types: above all, no word of a
\* request that normalizeStatus does not know reaches the status column.
THEOREM RequestsTyped == RequestsSpec => []RequestsTypeOK
<1>1. RequestsInv => RequestsTypeOK
  BY DEF RequestsInv
<1> QED
  BY <1>1, RequestsInvariant, PTL

\* Whatever process answers first, the requester was told what was so at some
\* moment since it asked, or the apology of a responder whose database failed.
THEOREM AnswersWereTrueAlways == RequestsSpec => []AnswersWereTrue
<1>1. RequestsInv => AnswersWereTrue
  BY DEF RequestsInv, AnswersRightful, Rightful, AnswersWereTrue
<1> QED
  BY <1>1, RequestsInvariant, PTL

\* However the finds and saves of the processes interleave, once no process
\* has an update of a gateway left its row has the status asked last.
THEOREM UpdatesConvergeAlways == RequestsSpec => []UpdatesConverge
<1>1. RequestsInv => UpdatesConverge
  <2> SUFFICES ASSUME RequestsInv, NEW g \in Gateways \ spoiled, gateways[g] # None,
                      latest[g] # None, \A p \in Procs : g \notin Pending(p, "update")
               PROVE  gateways[g] = latest[g]
    BY DEF UpdatesConverge
  <2>1. ASSUME NEW p \in Procs PROVE ~ Waits(p, g) /\ ~ Holds(p, g)
    BY NonePending DEF RequestsInv
  <2> QED
    BY <2>1 DEF RequestsInv, AllSettled, RowSettled
<1> QED
  BY <1>1, RequestsInvariant, PTL

=============================================================================
