----------------------------- MODULE NatsClient -----------------------------
(***************************************************************************)
(* The NATS client that the modules of one process share, from the start   *)
(* of the process to its end: the application connects while its modules   *)
(* are initialised, one after the other, subscribes the durable consumers  *)
(* and serves HTTP only afterwards.  nats.js reconnects by itself a number *)
(* of times and then closes the connection; ensureConnected still finds    *)
(* the fields set, so nothing connects again before the process restarts.  *)
(* closeConnection is called by no running server: main.ts enables no      *)
(* shutdown hooks, a stopped process just goes.                            *)
(***************************************************************************)
EXTENDS Naturals

CONSTANTS
    Procs,        \* processes of the management API
    Listeners,    \* JetStream subjects with a durable consumer
    MaxMishaps    \* bound: failures of any kind

ASSUME MishapsAssumption == MaxMishaps \in Nat

VARIABLES
    proc,      \* per process, its life: down, booting or serving HTTP
    link,      \* its connection: none, up, lost (reconnecting) or closed
    loop,      \* per process and listener, the loop that takes messages
    durables,  \* listeners whose durable consumer the server keeps
    mishaps    \* failures so far

clientVars == <<proc, link, loop, durables, mishaps>>

ProcStates == {"down", "booting", "serving"}

LinkStates == {"none", "up", "lost", "closed"}

LoopStates == {"absent", "running", "ended"}

Silent == [l \in Listeners |-> "absent"]

ClientInit ==
    /\ proc = [p \in Procs |-> "down"]
    /\ link = [p \in Procs |-> "none"]
    /\ loop = [p \in Procs |-> Silent]
    /\ durables = {}
    /\ mishaps = 0

Mishap ==
    /\ mishaps < MaxMishaps
    /\ mishaps' = mishaps + 1

\* Hears(p, l): messages of l can reach a handler of p.
Hears(p, l) == loop[p][l] = "running" /\ link[p] = "up"

\* Deaf(p, l): none will, until the process is started again.
Deaf(p, l) == loop[p][l] = "ended"

-----------------------------------------------------------------------------
(* Start of the application.                                               *)

\* The process starts and the first hook connects: hooks of the modules run
\* one after the other, so it alone finds the fields of the client null.  A
\* start whose connect fails exits and changes nothing.
Boot(p) ==
    /\ proc[p] = "down"
    /\ proc' = [proc EXCEPT ![p] = "booting"]
    /\ link' = [link EXCEPT ![p] = "up"]
    /\ UNCHANGED <<loop, durables, mishaps>>

\* subscribe: the durable is made or found, with whatever it has pending,
\* and a loop is started that nobody waits for.
Subscribe(p, l) ==
    /\ proc[p] = "booting"
    /\ link[p] = "up"
    /\ loop[p][l] = "absent"
    /\ durables' = durables \cup {l}
    /\ loop' = [loop EXCEPT ![p][l] = "running"]
    /\ UNCHANGED <<proc, link, mishaps>>

\* app.listen, after every hook of every module.
Serve(p) ==
    /\ proc[p] = "booting"
    /\ \A l \in Listeners : loop[p][l] # "absent"
    /\ proc' = [proc EXCEPT ![p] = "serving"]
    /\ UNCHANGED <<link, loop, durables, mishaps>>

Gone(p) ==
    /\ proc' = [proc EXCEPT ![p] = "down"]
    /\ link' = [link EXCEPT ![p] = "none"]
    /\ loop' = [loop EXCEPT ![p] = Silent]

\* A hook rejects, or waits for a server that is out of reach until its
\* request times out: bootstrap().catch exits the process.
BootFails(p) ==
    /\ proc[p] = "booting"
    /\ \/ link[p] \in {"lost", "closed"} /\ UNCHANGED mishaps
       \/ Mishap
    /\ Gone(p)
    /\ UNCHANGED durables

\* A crash, or a signal to stop.
Die(p) ==
    /\ proc[p] # "down"
    /\ Mishap
    /\ Gone(p)
    /\ UNCHANGED durables

-----------------------------------------------------------------------------
(* The loops and the connection they depend on.                            *)

\* consumeJetStreamMessages: consume() or the iteration rejects, the error is
\* logged, the loop ends and the process goes on without it.
LoopFails(p, l) ==
    /\ loop[p][l] = "running"
    /\ Mishap
    /\ loop' = [loop EXCEPT ![p][l] = "ended"]
    /\ UNCHANGED <<proc, link, durables>>

\* The server is out of reach (external).
LinkLost(p) ==
    /\ link[p] = "up"
    /\ Mishap
    /\ link' = [link EXCEPT ![p] = "lost"]
    /\ UNCHANGED <<proc, loop, durables>>

\* nats.js reconnects and keeps the subscriptions (external).
Reconnect(p) ==
    /\ link[p] = "lost"
    /\ link' = [link EXCEPT ![p] = "up"]
    /\ UNCHANGED <<proc, loop, durables, mishaps>>

\* nats.js has used up its attempts and closes for good (external).
GiveUp(p) ==
    /\ link[p] = "lost"
    /\ link' = [link EXCEPT ![p] = "closed"]
    /\ loop' = [loop EXCEPT ![p] =
                  [l \in Listeners |-> IF loop[p][l] = "absent"
                                       THEN "absent" ELSE "ended"]]
    /\ UNCHANGED <<proc, durables, mishaps>>

\* Steps that leave every handler of the process alone; the others end it.
ClientStep(p) ==
    \/ Boot(p)
    \/ \E l \in Listeners : Subscribe(p, l) \/ LoopFails(p, l)
    \/ Serve(p)
    \/ LinkLost(p)
    \/ Reconnect(p)
    \/ GiveUp(p)

ProcessEnds(p) == BootFails(p) \/ Die(p)

ClientTypeOK ==
    /\ proc \in [Procs -> ProcStates]
    /\ link \in [Procs -> LinkStates]
    /\ loop \in [Procs -> [Listeners -> LoopStates]]
    /\ durables \subseteq Listeners
    /\ mishaps \in 0 .. MaxMishaps

=============================================================================
