---------------------------- MODULE HealthProofs ----------------------------
(***************************************************************************)
(* That health says of a node what the node was, for any callers, names,   *)
(* ids and inbounds: Health!HealthInv, and from it HealthyIsEarned and     *)
(* NoFalseAlarm.                                                           *)
(***************************************************************************)
EXTENDS Health, TLAPS

Observations == [config : BOOLEAN, unit : BOOLEAN, running : BOOLEAN, listening : BOOLEAN]

-----------------------------------------------------------------------------
(* Facts. *)

LEMMA FactsAre ==
    /\ Facts \in SUBSET AllFacts
    /\ "config" \in Facts <=> ConfigHolds
    /\ "running" \in Facts <=> xray # "down"
    /\ "listening" \in Facts <=> xray = "up"
BY DEF Facts, AllFacts

LEMMA AllHold == Facts = AllFacts <=> ConfigHolds /\ xray = "up"
BY DEF Facts, AllFacts

LEMMA SameFacts == World => Facts' = Facts
BY DEF World, Facts, ConfigHolds

(* The histories keep what they have, and end with the call. *)
LEMMA WitnessFacts ==
    ASSUME NEW fails, Witness(fails), NEW c \in Callers
    PROVE  /\ pc'[c] = "idle" => held'[c] = {}
           /\ pc'[c] # "idle" => held'[c] = held[c] \cup Facts'
           /\ smooth'[c] /\ pc'[c] # "idle" =>
                 smooth[c] /\ c \notin fails /\ Facts' = AllFacts
BY DEF Witness

LEMMA WitnessTyped ==
    ASSUME NEW fails, Witness(fails), TypeOK
    PROVE  held' \in [Callers -> SUBSET AllFacts] /\ smooth' \in [Callers -> BOOLEAN]
<1>1. Facts' \in SUBSET AllFacts
  BY DEF Facts, AllFacts
<1>2. held' \in [Callers -> SUBSET AllFacts]
  BY <1>1 DEF Witness, TypeOK
<1>3. smooth \in [Callers -> BOOLEAN]
  BY DEF TypeOK
<1>4. smooth' \in [Callers -> BOOLEAN]
  BY <1>3, Zenon DEF Witness
<1> QED
  BY <1>2, <1>4

-----------------------------------------------------------------------------
(* Types. *)

LEMMA HealthTyped == TypeOK /\ [Next]_vars => TypeOK'
<1> SUFFICES ASSUME TypeOK, [Next]_vars
             PROVE  TypeOK'
  OBVIOUS
<1> DEFINE Shape == /\ pc' \in [Callers -> {"idle", "list", "unit", "dial", "done", "failed"}]
                    /\ route' \in [Callers -> {"health", "status"}]
                    /\ seen' \in [Callers -> Observations]
                    /\ \A c \in Callers :
                          /\ pc'[c] = "dial" => seen'[c].running /\ route'[c] = "health"
                          /\ pc'[c] = "failed" => route'[c] = "status"
                          /\ seen'[c].listening => pc'[c] = "done" /\ seen'[c].running
           Around == XrayTypeOK' /\ mutating' \in BOOLEAN
<1>1. World => Around
  BY DEF World, TypeOK, XrayTypeOK
<1>2. ASSUME Shape, Around, NEW fails, Witness(fails)
      PROVE  TypeOK'
  BY <1>2, WitnessTyped DEF TypeOK, Observations
<1>3. UNCHANGED Calls => Shape
  BY DEF Calls, TypeOK, Observations
<1>4. /\ \A c \in Callers : seen[c] \in Observations
      /\ \A b \in BOOLEAN, o \in Observations :
            /\ [o EXCEPT !.config = b] \in Observations
            /\ [o EXCEPT !.listening = b] \in Observations
            /\ \A r \in BOOLEAN : [o EXCEPT !.unit = b, !.running = r] \in Observations
  BY DEF TypeOK, Observations
<1>5. Nothing \in Observations /\ ~Nothing.listening
  BY DEF Nothing, Observations
<1>6. ASSUME NEW c \in Callers, Call(c)
      PROVE  TypeOK'
  <2>1. Shape
    BY <1>6 DEF Call, Goto, TypeOK, Observations
  <2> QED
    BY <1>1, <1>2, <1>6, <2>1 DEF Call
<1>7. ASSUME NEW c \in Callers, List(c)
      PROVE  TypeOK'
  <2>1. Shape
    BY <1>7 DEF List, Goto, TypeOK, Observations
  <2> QED
    BY <1>1, <1>2, <1>7, <2>1 DEF List
<1>8. ASSUME NEW c \in Callers, IsActive(c)
      PROVE  TypeOK'
  <2>1. PICK ok \in BOOLEAN :
           /\ seen' = [seen EXCEPT ![c] = [@ EXCEPT !.unit = ok, !.running = ok /\ xray # "down"]]
           /\ Goto(c, IF route[c] = "health" THEN (IF seen'[c].running THEN "dial" ELSE "done")
                      ELSE IF ok THEN "done" ELSE "failed")
    BY <1>8 DEF IsActive
  <2>2. pc[c] = "unit" /\ route' = route
    BY <1>8 DEF IsActive
  <2>3. seen' \in [Callers -> Observations]
    <3>1. (ok /\ xray # "down") \in BOOLEAN
      OBVIOUS
    <3>2. [seen[c] EXCEPT !.unit = ok, !.running = ok /\ xray # "down"] \in Observations
      BY <1>4, <3>1
    <3> QED
      BY <1>4, <2>1, <3>2 DEF TypeOK
  <2>4. /\ \A d \in Callers : d # c => seen'[d] = seen[d] /\ pc'[d] = pc[d]
        /\ ~seen'[c].listening
    BY <2>1, <2>2 DEF Goto, TypeOK
  <2>5. pc'[c] = IF route[c] = "health" THEN (IF seen'[c].running THEN "dial" ELSE "done")
                 ELSE IF ok THEN "done" ELSE "failed"
    BY <2>1 DEF Goto, TypeOK
  <2>6. Shape
    BY <2>1, <2>2, <2>3, <2>4, <2>5 DEF Goto, TypeOK
  <2> QED
    BY <1>1, <1>2, <1>8, <2>6 DEF IsActive
<1>9. ASSUME NEW c \in Callers, Dial(c)
      PROVE  TypeOK'
  <2>1. Shape
    BY <1>9 DEF Dial, Goto, TypeOK, Observations
  <2> QED
    BY <1>1, <1>2, <1>9, <2>1 DEF Dial
<1>10. ASSUME NEW c \in Callers, Return(c)
       PROVE  TypeOK'
  <2>1. Shape
    BY <1>5, <1>10 DEF Return, Goto, TypeOK, Observations
  <2> QED
    BY <1>1, <1>2, <1>10, <2>1 DEF Return
<1>11. CASE Mutation
  <2>1. Around
    BY <1>11 DEF Mutation, Restart, TypeOK, XrayTypeOK, Roster, NoUsers
  <2> QED
    BY <1>2, <1>3, <1>11, <2>1 DEF Mutation
<1>12. CASE XrayMoves
  <2>1. Around
    BY <1>12 DEF XrayMoves, Boots, BootFails, Dies, Start, Stop, Restart, TypeOK,
                 XrayTypeOK, Roster, NoUsers
  <2> QED
    BY <1>2, <1>3, <1>12, <2>1 DEF XrayMoves
<1>13. CASE Edit
  <2>1. Around
    BY <1>13 DEF Edit, TypeOK, XrayTypeOK, Roster
  <2> QED
    BY <1>2, <1>3, <1>13, <2>1 DEF Edit
<1>14. CASE UNCHANGED vars
  BY <1>14 DEF vars, TypeOK, XrayTypeOK
<1> QED
  BY <1>6, <1>7, <1>8, <1>9, <1>10, <1>11, <1>12, <1>13, <1>14 DEF Next

-----------------------------------------------------------------------------
(* A step preserves the invariant for each call: for those it leaves       *)
(* alone, and for the one that takes it.                                   *)

LEMMA Bystander ==
    ASSUME Honest, NEW fails, Witness(fails), NEW c \in Callers,
           pc'[c] = pc[c], seen'[c] = seen[c], route'[c] = route[c]
    PROVE  Evidence(c)' /\ Undisturbed(c)'
<1>1. Evidence(c) /\ Undisturbed(c)
  BY DEF Honest
<1>2. Evidence(c)'
  BY <1>1, WitnessFacts DEF Evidence, Nothing
<1>3. Undisturbed(c)'
  BY <1>1, WitnessFacts DEF Undisturbed
<1> QED
  BY <1>2, <1>3

LEMMA Others ==
    ASSUME TypeOK, Honest, NEW c \in Callers, NEW d \in Callers, d # c,
           Call(c) \/ List(c) \/ IsActive(c) \/ Dial(c) \/ Return(c)
    PROVE  Evidence(d)' /\ Undisturbed(d)'
<1>1. pc'[d] = pc[d] /\ seen'[d] = seen[d] /\ route'[d] = route[d]
  BY DEF Call, List, IsActive, Dial, Return, Goto, TypeOK
<1>2. PICK fails : Witness(fails)
  BY DEF Call, List, IsActive, Dial, Return
<1> QED
  BY <1>1, <1>2, Bystander

LEMMA CallStep ==
    ASSUME TypeOK, Honest, NEW c \in Callers, Call(c)
    PROVE  Evidence(c)' /\ Undisturbed(c)'
<1>1. pc'[c] = "list" /\ seen'[c] = Nothing
  BY DEF Call, Goto, TypeOK, Honest, Evidence
<1>2. Evidence(c)'
  BY <1>1 DEF Evidence, Nothing
<1>3. Undisturbed(c)'
  BY <1>1, WitnessFacts DEF Call, Undisturbed
<1> QED
  BY <1>2, <1>3

(* A configuration that List accepts holds when it is read; one that it    *)
(* refuses was read in vain or does not hold.                              *)
LEMMA ListStep ==
    ASSUME TypeOK, Honest, NEW c \in Callers, List(c)
    PROVE  Evidence(c)' /\ Undisturbed(c)'
<1>1. PICK ok \in BOOLEAN :
         /\ ok => ConfigHolds
         /\ seen' = [seen EXCEPT ![c].config = ok]
         /\ Goto(c, IF ok \/ route[c] = "health" THEN "unit" ELSE "failed")
         /\ Witness(IF ~ok /\ ConfigHolds THEN {c} ELSE {})
  BY DEF List
<1>2. pc'[c] = IF ok \/ route[c] = "health" THEN "unit" ELSE "failed"
  BY <1>1 DEF Goto, TypeOK
<1>3. /\ seen'[c].config = ok /\ seen'[c].running = seen[c].running
      /\ seen'[c].listening = seen[c].listening
  BY <1>1 DEF TypeOK
<1>4. Facts' = Facts
  BY SameFacts DEF List
<1>5. held'[c] = held[c] \cup Facts
  BY <1>1, <1>2, <1>4, WitnessFacts
<1>6. Evidence(c)'
  BY <1>1, <1>2, <1>3, <1>5, FactsAre DEF Evidence, Honest
<1>7. smooth'[c] => Facts = AllFacts /\ ok
  BY <1>1, <1>2, <1>4, WitnessFacts, AllHold
<1>8. Undisturbed(c)'
  BY <1>2, <1>3, <1>4, <1>7 DEF Undisturbed
<1> QED
  BY <1>6, <1>8

(* systemctl calls a unit active only while it runs. *)
LEMMA IsActiveStep ==
    ASSUME TypeOK, Honest, NEW c \in Callers, IsActive(c)
    PROVE  Evidence(c)' /\ Undisturbed(c)'
<1>1. PICK ok \in BOOLEAN :
         /\ seen' = [seen EXCEPT ![c] = [@ EXCEPT !.unit = ok, !.running = ok /\ xray # "down"]]
         /\ Goto(c, IF route[c] = "health" THEN (IF seen'[c].running THEN "dial" ELSE "done")
                    ELSE IF ok THEN "done" ELSE "failed")
         /\ Witness(IF ok THEN {} ELSE {c})
  BY DEF IsActive
<1>2. /\ seen'[c].unit = ok /\ seen'[c].running = (ok /\ xray # "down")
      /\ seen'[c].config = seen[c].config /\ seen'[c].listening = seen[c].listening
  BY <1>1 DEF TypeOK
<1>3. pc'[c] = IF route[c] = "health" THEN (IF seen'[c].running THEN "dial" ELSE "done")
               ELSE IF ok THEN "done" ELSE "failed"
  BY <1>1 DEF Goto, TypeOK
<1>4. Facts' = Facts /\ pc[c] = "unit" /\ route' = route
  BY SameFacts DEF IsActive
<1>5. held'[c] = held[c] \cup Facts
  BY <1>1, <1>3, <1>4, WitnessFacts
<1>6. Evidence(c)'
  BY <1>2, <1>3, <1>5, FactsAre DEF Evidence, Honest
<1>7. smooth'[c] => smooth[c] /\ Facts = AllFacts /\ ok /\ xray = "up"
  BY <1>1, <1>3, <1>4, WitnessFacts, AllHold
<1>8. smooth'[c] => seen[c].config
  BY <1>4, <1>7 DEF Honest, Undisturbed
<1>9. Undisturbed(c)'
  BY <1>2, <1>3, <1>4, <1>7, <1>8 DEF Undisturbed
<1> QED
  BY <1>6, <1>9

(* A connection is made only to a booted Xray. *)
LEMMA DialStep ==
    ASSUME TypeOK, Honest, NEW c \in Callers, Dial(c)
    PROVE  Evidence(c)' /\ Undisturbed(c)'
<1>1. PICK ok \in BOOLEAN :
         /\ ok => xray = "up"
         /\ seen' = [seen EXCEPT ![c].listening = ok]
         /\ Witness(IF ok THEN {} ELSE {c})
  BY DEF Dial
<1>2. /\ seen'[c].listening = ok /\ seen'[c].running = seen[c].running
      /\ seen'[c].unit = seen[c].unit /\ seen'[c].config = seen[c].config
  BY <1>1 DEF TypeOK
<1>3. pc'[c] = "done" /\ pc[c] = "dial" /\ route' = route /\ Facts' = Facts
  BY SameFacts DEF Dial, Goto, TypeOK
<1>4. held'[c] = held[c] \cup Facts
  BY <1>1, <1>3, WitnessFacts
<1>5. Evidence(c)'
  BY <1>1, <1>2, <1>3, <1>4, FactsAre DEF Evidence, Honest
<1>6. smooth'[c] => smooth[c] /\ Facts = AllFacts /\ ok
  BY <1>1, <1>3, WitnessFacts
<1>7. smooth'[c] => seen[c].config /\ seen[c].unit /\ seen[c].running
  BY <1>3, <1>6 DEF Honest, Undisturbed
<1>8. Undisturbed(c)'
  BY <1>2, <1>3, <1>6, <1>7 DEF Undisturbed
<1> QED
  BY <1>5, <1>8

LEMMA ReturnStep ==
    ASSUME TypeOK, Honest, NEW c \in Callers, Return(c)
    PROVE  Evidence(c)' /\ Undisturbed(c)'
<1>1. pc'[c] = "idle" /\ seen'[c] = Nothing
  BY DEF Return, Goto, TypeOK
<1> QED
  BY <1>1 DEF Evidence, Undisturbed, Nothing

LEMMA HealthStep == TypeOK /\ Honest /\ [Next]_vars => Honest'
<1> SUFFICES ASSUME TypeOK, Honest, [Next]_vars, NEW d \in Callers
             PROVE  Evidence(d)' /\ Undisturbed(d)'
  BY DEF Honest
<1>1. ASSUME NEW c \in Callers, Call(c) \/ List(c) \/ IsActive(c) \/ Dial(c) \/ Return(c)
      PROVE  Evidence(d)' /\ Undisturbed(d)'
  <2>1. CASE d # c
    BY <1>1, <2>1, Others
  <2>2. CASE d = c
    BY <1>1, <2>2, CallStep, ListStep, IsActiveStep, DialStep, ReturnStep
  <2> QED
    BY <2>1, <2>2
<1>2. ASSUME Mutation \/ XrayMoves \/ Edit
      PROVE  Evidence(d)' /\ Undisturbed(d)'
  <2>1. UNCHANGED Calls /\ Witness({})
    BY <1>2 DEF Mutation, XrayMoves, Edit
  <2> QED
    BY <2>1, Bystander DEF Calls
<1>3. CASE UNCHANGED vars
  BY <1>3 DEF vars, Honest, Evidence, Undisturbed, Facts, ConfigHolds
<1> QED
  BY <1>1, <1>2, <1>3 DEF Next

LEMMA HealthInitially == Init => HealthInv
<1> SUFFICES ASSUME Init
             PROVE  HealthInv
  OBVIOUS
<1>1. TypeOK
  BY DEF Init, TypeOK, XrayTypeOK, NoUsers, Roster, Nothing
<1>2. Honest
  BY DEF Init, Honest, Evidence, Undisturbed, Nothing
<1> QED
  BY <1>1, <1>2 DEF HealthInv

-----------------------------------------------------------------------------
(* HealthInv: what a call of health or status has seen has held at a       *)
(* moment of it, and one that nothing has disturbed has seen nothing amiss.*)
THEOREM HealthInvariance == Spec => []HealthInv
<1>1. HealthInv /\ [Next]_vars => HealthInv'
  BY HealthTyped, HealthStep DEF HealthInv
<1> QED
  BY <1>1, HealthInitially, PTL DEF Spec

(* HealthyIsEarned: whoever is told that the node is healthy, at one       *)
(* moment of the call the file was in order, at one the unit ran and at    *)
(* one Xray listened.                                                      *)
THEOREM HealthyIsEarnedAlways == Spec => []HealthyIsEarned
<1>1. HealthInv => HealthyIsEarned
  <2> SUFFICES ASSUME TypeOK, Honest, NEW c \in Callers, Healthy(c)
               PROVE  held[c] = AllFacts
    BY DEF HealthyIsEarned, HealthInv
  <2>1. AllFacts \subseteq held[c]
    BY DEF Honest, Evidence, Healthy, AllFacts
  <2> QED
    BY <2>1 DEF TypeOK
<1> QED
  BY <1>1, HealthInvariance, PTL

(* NoFalseAlarm: while the file stays in order and Xray listens, no        *)
(* command failing, health answers healthy and status does not fail, a     *)
(* mutation under way or not.                                              *)
THEOREM NoFalseAlarmAlways == Spec => []NoFalseAlarm
<1>1. HealthInv => NoFalseAlarm
  BY DEF HealthInv, Honest, Undisturbed, NoFalseAlarm, Healthy, TypeOK
<1> QED
  BY <1>1, HealthInvariance, PTL
=============================================================================
