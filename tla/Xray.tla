-------------------------------- MODULE Xray --------------------------------
(***************************************************************************)
(* The running Xray process as vless-api sees it: the systemd unit behind  *)
(* `systemctl start|stop|restart` (runtime.go) and the user tables behind  *)
(* `xray api adu|rmu|inbounduser` (xrayapi.go).  Xray reads config.json    *)
(* when it boots and never writes it; users changed through the API are    *)
(* lost when it exits.  A command may fail after it took effect, wholly or *)
(* in part: CommandRuntime.run gives up after 15 s and kills the client,   *)
(* not the job systemd or Xray already accepted.                           *)
(***************************************************************************)
EXTENDS Clients

CONSTANT Inbounds    \* tags of the managed inbounds present in config.json

VARIABLES file,      \* config.json: the client list of every managed inbound
          xray,      \* the unit: "up", "booting" (config not read yet), "down"
          live       \* the users the running process accepts on each inbound

NoUsers == [t \in Inbounds |-> {}]
Roster  == [Inbounds -> SUBSET Entry]

XrayTypeOK == /\ file \in Roster
              /\ xray \in {"up", "booting", "down"}
              /\ live \in Roster

-----------------------------------------------------------------------------
(* The process on its own. *)

(* A started process reads config.json, whatever it holds at that moment. *)
Boots == /\ xray = "booting"
         /\ xray' = "up"
         /\ live' = file

(* A start that ends in a dead unit. *)
BootFails == /\ xray = "booting"
             /\ xray' = "down"
             /\ UNCHANGED live

(* Xray dies and systemd starts it again, or a job that systemctl gave up  *)
(* waiting for restarts it now.                                            *)
Dies == /\ xray = "up"
        /\ xray' = "booting"
        /\ live' = NoUsers

-----------------------------------------------------------------------------
(* systemctl, with the ways a failed or timed-out command may leave things. *)

Start == /\ xray' = IF xray = "down" THEN "booting" ELSE xray
         /\ UNCHANGED live
StartFails == Start \/ UNCHANGED <<xray, live>>

Stop == /\ xray' = "down"
        /\ live' = NoUsers
StopFails == Stop \/ UNCHANGED <<xray, live>>

Restart == /\ xray' = "booting"
           /\ live' = NoUsers
RestartFails == Restart \/ Stop \/ UNCHANGED <<xray, live>>

-----------------------------------------------------------------------------
(* xray api.  Nothing answers unless the process is up. *)

(* rmu passes over names the inbound does not have.  Its success is taken  *)
(* for the removal of all others: the code looks at the exit status and    *)
(* not, as for adu, at the count.                                          *)
RemoveUsers(tag, names) ==
    /\ xray = "up"
    /\ live' = [live EXCEPT ![tag] = Without(@, names)]

RemoveUsersFails(tag, names) ==
    \E gone \in (IF xray = "up" THEN SUBSET names ELSE {{}}) :
        live' = [live EXCEPT ![tag] = Without(@, gone)]

(* adu refuses a name the inbound has; the count it prints must be the     *)
(* number of users sent.                                                   *)
Refused(tag, added) == {e \in added : e.name \in NamesOf(live[tag])}

AddUsers(tag, added) ==
    /\ xray = "up"
    /\ Refused(tag, added) = {}
    /\ live' = [live EXCEPT ![tag] = @ \cup added]

AddUsersFails(tag, added) ==
    \E in \in (IF xray = "up" THEN SUBSET (added \ Refused(tag, added)) ELSE {{}}) :
        live' = [live EXCEPT ![tag] = @ \cup in]

(* inbounduser lists the names of the live inbound. *)
InboundUsers(tag) == NamesOf(live[tag])
=============================================================================
