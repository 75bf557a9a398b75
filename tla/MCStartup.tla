------------------------------ MODULE MCStartup ------------------------------
(* Node for TLC, with the mirrors that loadSettings makes of an environment *)
(* an operator may well have written.                                       *)
EXTENDS MCNode, Settings

(* The last entry of EXTRA_INBOUNDS is there twice, and no inbound has the *)
(* tag of the first.                                                       *)
AwkwardEnvironment ==
    LET Extra(tag) == [colon |-> TRUE, tag |-> tag, port |-> 1]
    IN  [vlessPort |-> Unset, wsPort |-> Unset, inboundTag |-> Primary, wsTag |-> Unset,
         flow |-> Unset, extra |-> <<Extra("grpc-in"), Extra("ws-in"), Extra("ws-in")>>,
         rest |-> TRUE]
AwkwardMirrors == MirrorTags(AwkwardEnvironment)

(* Environments with at most two entries in EXTRA_INBOUNDS. *)
MCEnvironments ==
    [vlessPort : Ports \cup {Unset}, wsPort : Ports \cup {Unset},
     inboundTag : Tags \cup {Unset}, wsTag : Tags \cup {Unset},
     flow : {Flow}, extra : UNION {[1..n -> ExtraEntries] : n \in 0..2}, rest : {TRUE}]

AllMirrorsSound == \A env \in MCEnvironments : Loads(env) => SoundMirrors(env)
AllPortsAsked   == \A env \in MCEnvironments : Loads(env) => AskedPorts(env)

(* Whatever the environment, a process that got past loadSettings mirrors  *)
(* no inbound onto itself, and none twice, for each visit removes and adds *)
(* the users once: the ws inbound never, and an extra one only where       *)
(* EXTRA_INBOUNDS itself repeats that tag (parseExtraInbounds, Validate,   *)
(* main).                                                                  *)
MirrorsAreSound == main # "down" => AllMirrorsSound

(* Whatever the environment, such a process uses the ports asked for, or   *)
(* the defaults where none was; a mistyped one ends it (intEnvOr,          *)
(* Validate).                                                              *)
PortsAreAsked == main # "down" => AllPortsAsked
=============================================================================
