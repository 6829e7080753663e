-------------------------------- MODULE Intake --------------------------------
(***************************************************************************)
(* What taking in a stream promises to those who publish on it and those   *)
(* who read the table it ends up in.  A message is taken again and again,  *)
(* attempt by attempt, until it is settled; each attempt records it once   *)
(* at most, an early attempt maybe after a late one; nothing is settled    *)
(* that was not recorded, and nothing recorded gets lost, unless there is  *)
(* nobody any more to whom it belongs.  The contract of the durable        *)
(* consumers in Events.                                                    *)
(***************************************************************************)
EXTENDS Naturals

CONSTANTS Messages, Attempts

VARIABLES
    fate,     \* per message: "unpublished", "wanted" in the table, "void" as
              \* there is nothing to record, or "stuck": never taken for good
    taken,    \* per message, attempts that were made to take it
    records,  \* pairs of a message and the attempt that recorded it
    settled   \* messages that are not taken any more

Init ==
    /\ fate = [m \in Messages |-> "unpublished"]
    /\ taken = [m \in Messages |-> {}]
    /\ records = {}
    /\ settled = {}

Publish(m) ==
    /\ fate[m] = "unpublished"
    /\ \E f \in {"wanted", "void", "stuck"} : fate' = [fate EXCEPT ![m] = f]
    /\ UNCHANGED <<taken, records, settled>>

Take(m, i) ==
    /\ fate[m] # "unpublished" /\ m \notin settled
    /\ taken[m] = 1 .. i - 1
    /\ taken' = [taken EXCEPT ![m] = 1 .. i]
    /\ UNCHANGED <<fate, records, settled>>

\* An attempt that was overtaken may still record, after others settled.
Record(m, i) ==
    /\ fate[m] = "wanted"
    /\ i \in taken[m]
    /\ <<m, i>> \notin records
    /\ records' = records \cup {<<m, i>>}
    /\ UNCHANGED <<fate, taken, settled>>

Settle(m) ==
    /\ m \notin settled
    /\ taken[m] # {}
    /\ \/ fate[m] = "void"
       \/ \E i \in taken[m] : <<m, i>> \in records
    /\ settled' = settled \cup {m}
    /\ UNCHANGED <<fate, taken, records>>

\* Whom the messages belong to goes for good, with all records of them.
Erase(gone) ==
    /\ \A m \in gone : fate[m] = "wanted"
    /\ fate' = [m \in Messages |-> IF m \in gone THEN "void" ELSE fate[m]]
    /\ records' = {r \in records : r[1] \notin gone}
    /\ UNCHANGED <<taken, settled>>

Next ==
    \/ \E m \in Messages :
         \/ Publish(m) \/ Settle(m)
         \/ \E i \in Attempts : Take(m, i) \/ Record(m, i)
    \/ \E gone \in SUBSET Messages : Erase(gone)

Spec == Init /\ [][Next]_<<fate, taken, records, settled>>

=============================================================================
