----------------------------- MODULE Onboarding -----------------------------
(***************************************************************************)
(* What onboarding promises the provisioning service, in terms of the key  *)
(* table alone: a call is let in only while its gateway has no key, a key  *)
(* is stored only for a call that was let in, a confirmation comes only    *)
(* with the key, and only deletion takes keys away.  Several calls may be  *)
(* in at a time, so a gateway may get several keys.  The one thing that    *)
(* lets a call in late is another handler's save of what it loaded before  *)
(* the first key.  The contract that keys.service and its responders       *)
(* implement, in all processes together.                                   *)
(***************************************************************************)
CONSTANTS
    Gateways, Calls, Handlers,
    Null        \* a handler that holds nothing

VARIABLES
    stage,      \* of each gateway: "unknown", "present" or "deleted"
    keyed,      \* the calls whose key each gateway has
    entered,    \* the calls that were let in for each gateway and are not over
    confirmed,  \* the calls that were told "success"
    held,       \* what each other handler has loaded and not saved
    spoiled     \* the gateways that a save opened again

vars == <<stage, keyed, entered, confirmed, held, spoiled>>

Init ==
    /\ stage = [g \in Gateways |-> "unknown"]
    /\ keyed = [g \in Gateways |-> {}]
    /\ entered = [g \in Gateways |-> {}]
    /\ confirmed = {}
    /\ held = [h \in Handlers |-> Null]
    /\ spoiled = {}

Open(g) == stage[g] = "present" /\ (keyed[g] = {} \/ g \in spoiled)

Register(g) ==
    /\ stage[g] = "unknown"
    /\ stage' = [stage EXCEPT ![g] = "present"]
    /\ UNCHANGED <<keyed, entered, confirmed, held, spoiled>>

Enter(a, g) ==
    /\ Open(g)
    /\ \A f \in Gateways : a \notin keyed[f] \cup entered[f]
    /\ entered' = [entered EXCEPT ![g] = @ \cup {a}]
    /\ UNCHANGED <<stage, keyed, confirmed, held, spoiled>>

\* The key is stored; the confirmation may get lost.
Onboard(a, g) ==
    /\ stage[g] = "present"
    /\ a \in entered[g]
    /\ keyed' = [keyed EXCEPT ![g] = @ \cup {a}]
    /\ entered' = [entered EXCEPT ![g] = @ \ {a}]
    /\ confirmed' \in {confirmed, confirmed \cup {a}}
    /\ UNCHANGED <<stage, held, spoiled>>

Leave(a, g) ==
    /\ a \in entered[g]
    /\ entered' = [entered EXCEPT ![g] = @ \ {a}]
    /\ UNCHANGED <<stage, keyed, confirmed, held, spoiled>>

\* A handler that loads a gateway is unaware of its keys only while it has
\* none, or after it was spoiled.
Load(h, g) ==
    /\ held[h] = Null
    /\ stage[g] = "present"
    /\ \E unaware \in BOOLEAN :
         /\ unaware => Open(g)
         /\ held' = [held EXCEPT ![h] = [gateway |-> g, unaware |-> unaware]]
    /\ UNCHANGED <<stage, keyed, entered, confirmed, spoiled>>

Save(h) ==
    /\ held[h] # Null
    /\ held' = [held EXCEPT ![h] = Null]
    /\ stage' = [stage EXCEPT ![held[h].gateway] = "present"]
    /\ \/ UNCHANGED spoiled
       \/ held[h].unaware /\ spoiled' = spoiled \cup {held[h].gateway}
    /\ UNCHANGED <<keyed, entered, confirmed>>

Delete(g) ==
    /\ stage[g] = "present"
    /\ stage' = [stage EXCEPT ![g] = "deleted"]
    /\ keyed' = [keyed EXCEPT ![g] = {}]
    /\ UNCHANGED <<entered, confirmed, held, spoiled>>

Next ==
    \/ \E g \in Gateways :
         \/ Register(g)
         \/ Delete(g)
         \/ \E a \in Calls : Enter(a, g) \/ Onboard(a, g) \/ Leave(a, g)
    \/ \E h \in Handlers :
         \/ \E g \in Gateways : Load(h, g)
         \/ Save(h)

Spec == Init /\ [][Next]_vars

=============================================================================
