----------------------------- MODULE MCCommands -----------------------------
(***************************************************************************)
(* Small instances of Commands.                                            *)
(***************************************************************************)
EXTENDS Commands, TLC

ConfigBody(freq, status) == [type |-> "CONFIG", freq |-> freq, status |-> status]

FirmwareBody(fw) == [type |-> "FIRMWARE", fw |-> fw]

\* One request of each kind: a status without a frequency, a version.
MCRequests == {ConfigBody(Null, "paused"), FirmwareBody("v2")}

\* A configuration with a status that nobody knows, bodies with blank
\* fields.
MCEveryRequest ==
    {ConfigBody("fast", "reboot"), ConfigBody(Null, Blank),
     FirmwareBody("v2"), FirmwareBody(Blank)}

\* A device that declares its firmware, and one that does not.
MCDeclarations == {[freq |-> "own", fw |-> "v0"]}

MCNoFirmware == {[freq |-> "own", fw |-> Blank]}

\* Command ids and consumer processes are interchangeable.
Symmetry == Permutations(CommandIds) \cup Permutations(Workers)

=============================================================================
