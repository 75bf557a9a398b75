------------------------------- MODULE Health -------------------------------
(***************************************************************************)
(* GET /api/health and GET /api/status (server.go): the users of the file, *)
(* which the mutex guards, the state of the unit, and a connection to the  *)
(* VLESS port, observed one after the other while mutations, the service   *)
(* endpoints, Xray itself and a person with an editor change all three.    *)
(***************************************************************************)
EXTENDS Xray

CONSTANTS Primary,   \* VLESS_INBOUND_TAG
          Callers    \* goroutines that serve health and status

ASSUME PrimaryAssumption == Primary \in Inbounds

VARIABLES mutating,  \* a mutation holds s.mu
          pc,        \* where each call is
          route,     \* health or status
          seen,      \* what it has observed so far
          held,      \* history: what has held at a moment of the call
          smooth     \* history: all has held at every moment of the call, and
                     \*          no command of it has failed

vars == <<file, xray, live, mutating, pc, route, seen, held, smooth>>

-----------------------------------------------------------------------------
(* config: List returned no error; unit: IsActive returned none.  A unit   *)
(* is active, for systemd, from the moment its process runs; only a booted *)
(* Xray listens.                                                           *)
Nothing == [config |-> FALSE, unit |-> FALSE, running |-> FALSE, listening |-> FALSE]

Healthy(c) == seen[c].config /\ seen[c].unit /\ seen[c].running /\ seen[c].listening

ConfigHolds == WellFormed(file[Primary])
Facts == (IF ConfigHolds THEN {"config"} ELSE {})
            \cup (IF xray # "down" THEN {"running"} ELSE {})
            \cup (IF xray = "up" THEN {"listening"} ELSE {})
AllFacts == {"config", "running", "listening"}

(* The types, and how far a call has come: it dials only where the unit    *)
(* runs, and only status fails (health, status).                           *)
TypeOK ==
    /\ XrayTypeOK
    /\ mutating \in BOOLEAN
    /\ pc \in [Callers -> {"idle", "list", "unit", "dial", "done", "failed"}]
    /\ route \in [Callers -> {"health", "status"}]
    /\ seen \in [Callers -> [config : BOOLEAN, unit : BOOLEAN, running : BOOLEAN,
                             listening : BOOLEAN]]
    /\ held \in [Callers -> SUBSET AllFacts]
    /\ smooth \in [Callers -> BOOLEAN]
    /\ \A c \in Callers :
          /\ pc[c] = "dial" => seen[c].running /\ route[c] = "health"
          /\ pc[c] = "failed" => route[c] = "status"
          /\ seen[c].listening => pc[c] = "done" /\ seen[c].running

Init ==
    /\ file = NoUsers
    /\ xray = "up"
    /\ live = NoUsers
    /\ mutating = FALSE
    /\ pc = [c \in Callers |-> "idle"]
    /\ route = [c \in Callers |-> "health"]
    /\ seen = [c \in Callers |-> Nothing]
    /\ held = [c \in Callers |-> {}]
    /\ smooth = [c \in Callers |-> TRUE]

-----------------------------------------------------------------------------
(* Histories of every step: what holds after it, for each call under way.  *)
(* fails: the calls of which a command failed in this step.                *)
Witness(fails) ==
    /\ held' = [c \in Callers |-> IF pc'[c] = "idle" THEN {} ELSE held[c] \cup Facts']
    /\ smooth' = [c \in Callers |->
                    pc'[c] = "idle" \/ (smooth[c] /\ c \notin fails /\ Facts' = AllFacts)]

World == UNCHANGED <<file, xray, live, mutating>>
Goto(c, label) == pc' = [pc EXCEPT ![c] = label]

Call(c) ==
    /\ pc[c] = "idle"
    /\ route' \in {[route EXCEPT ![c] = r] : r \in {"health", "status"}}
    /\ Goto(c, "list")
    /\ UNCHANGED seen /\ World /\ Witness({})

(* Mutant: a mutation under way counts as a configuration error. *)
ListImpatient(c) ==
    /\ pc[c] = "list"
    /\ UNCHANGED route /\ World
    /\ \E ok \in BOOLEAN :
          /\ ok => ConfigHolds /\ ~mutating
          /\ seen' = [seen EXCEPT ![c].config = ok]
          /\ Goto(c, IF ok \/ route[c] = "health" THEN "unit" ELSE "failed")
          /\ Witness(IF ~ok /\ ConfigHolds /\ ~mutating THEN {c} ELSE {})

(* List waits for the mutex.  It fails on a file that decodeUserRecords    *)
(* rejects, or when the file cannot be read; status ends with that.        *)
List(c) ==
    /\ pc[c] = "list"
    /\ UNCHANGED route /\ World
    /\ ~mutating
    /\ \E ok \in BOOLEAN :
          /\ ok => ConfigHolds
          /\ seen' = [seen EXCEPT ![c].config = ok]
          /\ Goto(c, IF ok \/ route[c] = "health" THEN "unit" ELSE "failed")
          /\ Witness(IF ~ok /\ ConfigHolds THEN {c} ELSE {})

(* Mutant: the port is dialled whatever the unit's state. *)
IsActiveUnread(c) ==
    /\ pc[c] = "unit"
    /\ UNCHANGED route /\ World
    /\ \E ok \in BOOLEAN :
          /\ seen' = [seen EXCEPT ![c] = [@ EXCEPT !.unit = ok,
                                                  !.running = ok /\ xray # "down"]]
          /\ Goto(c, IF route[c] = "health" THEN "dial" ELSE IF ok THEN "done" ELSE "failed")
          /\ Witness(IF ok THEN {} ELSE {c})

(* systemctl is-active answers, or fails otherwise than with exit code 3.  *)
IsActive(c) ==
    /\ pc[c] = "unit"
    /\ UNCHANGED route /\ World
    /\ \E ok \in BOOLEAN :
          /\ seen' = [seen EXCEPT ![c] = [@ EXCEPT !.unit = ok,
                                                  !.running = ok /\ xray # "down"]]
          /\ Goto(c, IF route[c] = "health" THEN (IF seen'[c].running THEN "dial" ELSE "done")
                     ELSE IF ok THEN "done" ELSE "failed")
          /\ Witness(IF ok THEN {} ELSE {c})

(* Mutant: a running unit is taken for a listening one. *)
DialSkipped(c) ==
    /\ pc[c] = "dial"
    /\ seen' = [seen EXCEPT ![c].listening = TRUE]
    /\ Goto(c, "done")
    /\ UNCHANGED route /\ World /\ Witness({})

(* The connection is accepted by a booted Xray, within a second or not. *)
Dial(c) ==
    /\ pc[c] = "dial"
    /\ UNCHANGED route /\ World
    /\ Goto(c, "done")
    /\ \E ok \in BOOLEAN :
          /\ ok => xray = "up"
          /\ seen' = [seen EXCEPT ![c].listening = ok]
          /\ Witness(IF ok THEN {} ELSE {c})

Return(c) ==
    /\ pc[c] \in {"done", "failed"}
    /\ Goto(c, "idle")
    /\ seen' = [seen EXCEPT ![c] = Nothing]
    /\ UNCHANGED route /\ World /\ Witness({})

-----------------------------------------------------------------------------
(* The world around a call. *)

Calls == <<pc, route, seen>>

(* A mutation takes the mutex, writes the file, restarts Xray or calls it, *)
(* and gives the mutex back.                                               *)
Mutation ==
    /\ \/ ~mutating /\ mutating' = TRUE /\ UNCHANGED <<file, xray, live>>
       \/ /\ mutating /\ UNCHANGED <<mutating, xray, live>>
          /\ \E list \in SUBSET Entry :
                WellFormed(list) /\ file' = [t \in Inbounds |-> list]
       \/ mutating /\ Restart /\ UNCHANGED <<mutating, file>>
       \/ mutating /\ mutating' = FALSE /\ UNCHANGED <<file, xray, live>>
    /\ UNCHANGED Calls /\ Witness({})

XrayMoves ==
    /\ Boots \/ BootFails \/ Dies \/ Start \/ Stop \/ Restart
    /\ UNCHANGED <<file, mutating>> /\ UNCHANGED Calls /\ Witness({})

(* A person edits config.json. *)
Edit ==
    /\ \E list \in SUBSET Entry : file' = [file EXCEPT ![Primary] = list]
    /\ UNCHANGED <<xray, live, mutating>> /\ UNCHANGED Calls /\ Witness({})

Next ==
    \/ \E c \in Callers : Call(c) \/ List(c) \/ IsActive(c) \/ Dial(c) \/ Return(c)
    \/ Mutation \/ XrayMoves \/ Edit

Spec == Init /\ [][Next]_vars

-----------------------------------------------------------------------------
(* Properties. *)

(* Healthy is never said of a node that was not: at one moment of the call *)
(* the file was in order, at one the unit ran and at one Xray listened,    *)
(* though each had its own moment (health).                                *)
HealthyIsEarned ==
    \A c \in Callers : pc[c] = "done" /\ Healthy(c) => held[c] = AllFacts

(* No false alarm: if the file was in order and Xray listened throughout   *)
(* the call, a mutation under way or not, and no command failed, the       *)
(* answer is healthy, and status does not fail (health, status).           *)
NoFalseAlarm ==
    \A c \in Callers : pc[c] \in {"done", "failed"} /\ smooth[c] =>
        /\ pc[c] = "done" /\ seen[c].running
        /\ route[c] = "health" => Healthy(c)

-----------------------------------------------------------------------------
(* The inductive invariant behind them. *)

(* What a call has seen has held at a moment of it. *)
Evidence(c) ==
    /\ seen[c].config => "config" \in held[c]
    /\ seen[c].running => "running" \in held[c]
    /\ seen[c].listening => "listening" \in held[c]
    /\ pc[c] = "idle" => seen[c] = Nothing

(* A call that nothing has disturbed so far has seen nothing amiss.        *)
Undisturbed(c) == smooth[c] /\ pc[c] # "idle" =>
    /\ Facts = AllFacts
    /\ pc[c] # "list" => seen[c].config
    /\ pc[c] \in {"dial", "done"} => seen[c].unit /\ seen[c].running
    /\ pc[c] = "done" /\ route[c] = "health" => seen[c].listening
    /\ pc[c] # "failed"

(* A call believes nothing that has not been so, and doubts nothing that   *)
(* has been so all the while (health, status).                             *)
Honest == \A c \in Callers : Evidence(c) /\ Undisturbed(c)
HealthInv == TypeOK /\ Honest
=============================================================================
