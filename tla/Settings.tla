------------------------------- MODULE Settings -------------------------------
(***************************************************************************)
(* The environment of vless-api, what loadSettings makes of it, and the    *)
(* mirrors that main gives the store (settings.go, main.go).  A text is    *)
(* what is left of it when trimmed; Unset is an absent or empty one, and   *)
(* Garbage any that does not parse.  The variables whose check is a        *)
(* pattern of their own (token, API port, address, names, key, short id,   *)
(* fingerprint, paths) are one: `rest`.                                    *)
(***************************************************************************)
EXTENDS Integers, Sequences

CONSTANTS Tags,        \* tags of inbounds
          DefaultTag,
          NoTag,       \* the empty tag
          PortTexts,   \* numbers in the environment
          Unset, Garbage

ASSUME SettingsAssumption ==
    /\ DefaultTag \in Tags
    /\ {NoTag, Unset, Garbage} \cap Tags = {}
    /\ PortTexts \subseteq Int
    /\ Unset \notin Int /\ Garbage \notin Int /\ Unset # Garbage

-----------------------------------------------------------------------------
Ports == PortTexts \cup {Garbage}
Flow == "xtls-rprx-vision"

(* An entry of EXTRA_INBOUNDS, cut at its first colon; an empty entry is   *)
(* no entry. *)
ExtraEntries == [colon : {TRUE}, tag : Tags \cup {NoTag}, port : Ports]
                  \cup [colon : {FALSE}, tag : {NoTag}, port : {Garbage}]

Environments ==
    [vlessPort : Ports \cup {Unset}, wsPort : Ports \cup {Unset},
     inboundTag : Tags \cup {Unset}, wsTag : Tags \cup {Unset},
     flow : {Unset, Flow, Garbage}, extra : Seq(ExtraEntries), rest : BOOLEAN]

EnvOr(text, fallback) == IF text = Unset THEN fallback ELSE text

(* Mutant: a number that does not parse is taken for absent. *)
IntEnvOrLenient(text, fallback) == IF text \in {Unset, Garbage} THEN fallback ELSE text

IntEnvOr(text, fallback) ==
    IF text = Unset THEN fallback ELSE IF text = Garbage THEN -1 ELSE text

InRange(port) == port \in 1..65535

(* parseExtraInbounds compares with the default tag, not with the one set. *)
Parses(e) == e.colon /\ InRange(e.port) /\ e.tag # DefaultTag

Mirror(tag, port) == [tag |-> tag, port |-> port]

ExtraInbounds(env) == [i \in 1..Len(env.extra) |-> Mirror(env.extra[i].tag, env.extra[i].port)]

SettingsOf(env) ==
    [vlessPort |-> IntEnvOr(env.vlessPort, 443), wsPort |-> IntEnvOr(env.wsPort, 0),
     inboundTag |-> EnvOr(env.inboundTag, DefaultTag), wsTag |-> env.wsTag,
     flow |-> EnvOr(env.flow, Flow), rest |-> env.rest, extra |-> ExtraInbounds(env)]

(* Mutant: EXTRA_INBOUNDS may have the ws inbound again. *)
ValidWithWsAgain(s) ==
    /\ InRange(s.vlessPort)
    /\ s.flow \in {Unset, Flow}
    /\ s.rest
    /\ s.wsTag # Unset => s.wsTag # s.inboundTag /\ InRange(s.wsPort)
    /\ \A i \in DOMAIN s.extra : s.extra[i].tag # s.inboundTag

Valid(s) ==
    /\ InRange(s.vlessPort)
    /\ s.flow \in {Unset, Flow}
    /\ s.rest
    /\ s.wsTag # Unset => s.wsTag # s.inboundTag /\ InRange(s.wsPort)
    /\ \A i \in DOMAIN s.extra : s.extra[i].tag \notin {s.inboundTag, s.wsTag}

(* loadSettings returns no error, and main goes on. *)
Loads(env) ==
    /\ \A i \in DOMAIN env.extra : Parses(env.extra[i])
    /\ Valid(SettingsOf(env))

(* The mirrors as main gives them to the store, ws first. *)
MirrorsOf(s) ==
    (IF s.wsTag = Unset THEN <<>> ELSE <<Mirror(s.wsTag, s.wsPort)>>) \o s.extra

MirrorTags(env) ==
    [i \in 1..Len(MirrorsOf(SettingsOf(env))) |-> MirrorsOf(SettingsOf(env))[i].tag]

-----------------------------------------------------------------------------
(* What the rest of the program relies on. *)

(* The store mirrors no inbound onto itself, and gets a mirror twice only  *)
(* where EXTRA_INBOUNDS itself has that one twice; the ws inbound is never *)
(* among those.                                                            *)
SoundMirrors(env) ==
    LET tags == MirrorTags(env)
    IN  /\ \A i \in DOMAIN tags : tags[i] # SettingsOf(env).inboundTag
        /\ \A i, j \in DOMAIN tags :
              i # j /\ tags[i] = tags[j] =>
                  /\ tags[i] # env.wsTag
                  /\ \E k, l \in DOMAIN env.extra :
                        k # l /\ env.extra[k].tag = tags[i] /\ env.extra[l].tag = tags[i]

(* A port put to use is the one asked for, or the default where none was.  *)
AskedPorts(env) ==
    /\ SettingsOf(env).vlessPort = IF env.vlessPort = Unset THEN 443 ELSE env.vlessPort
    /\ \A i \in DOMAIN MirrorsOf(SettingsOf(env)) :
          LET m == MirrorsOf(SettingsOf(env))[i]
          IN  InRange(m.port) /\ (m.tag = env.wsTag => m.port = env.wsPort)
=============================================================================
