-------------------------- MODULE MCStatusRequests --------------------------
EXTENDS StatusRequests, TLC

CONSTANT g1

Content(subject, word) == [subject |-> subject, gateway |-> g1, word |-> word]

\* Two statuses that can be told apart from the first, an invalid update,
\* two queries and a list.
MCContents ==
    {Content("update", "online"), Content("update", "paused"),
     Content("update", "junk"), Content("get", "own"),
     Content("get", "foreign"), Content("list", "all")}

\* Processes and requests are interchangeable: no property names one.
MCSymmetry == Permutations(Procs) \cup Permutations(Requests)

=============================================================================
