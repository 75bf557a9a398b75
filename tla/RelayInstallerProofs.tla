------------------------ MODULE RelayInstallerProofs ------------------------
(***************************************************************************)
(* What install-relay.sh leaves on a host, however often it is run, with   *)
(* whatever settings, and wherever it fails, is interrupted or loses its   *)
(* power.                                                                  *)
(***************************************************************************)
EXTENDS RelayInstaller, TLAPS

LEMMA InstalledFacts ==
    /\ None \notin Settings
    /\ \A s : Installed(s) \in [Files -> {s}]
    /\ \A s \in Settings : Installed(s) # Nothing
    /\ disk \in [Files -> Settings \cup {None}] => (disk = Nothing <=> Count = {})
    /\ \A s \in Settings : disk = Installed(s) =>
          Count = Files /\ disk["config"] = s /\ disk["unit"] = s
<1>1. None \notin Settings
  BY NoneAssumption
<1>2. ASSUME disk \in [Files -> Settings \cup {None}]
      PROVE  disk = Nothing <=> Count = {}
  BY <1>2 DEF Nothing, Installed, Count
<1>3. ASSUME NEW s \in Settings, disk = Installed(s)
      PROVE  Count = Files /\ disk["config"] = s /\ disk["unit"] = s
  BY <1>1, <1>3 DEF Count, Installed, Files
<1>4. ASSUME NEW s \in Settings
      PROVE  Installed(s) # Nothing
  BY <1>1, <1>4 DEF Installed, Nothing, Files
<1> QED
  BY <1>1, <1>2, <1>3, <1>4 DEF Installed

LEMMA RelayInit == Init => RInv
<1> SUFFICES ASSUME Init
             PROVE  RInv
  OBVIOUS
<1>1. TypeOK
  BY DEF Init, TypeOK, Nothing, Installed, Labels
<1>2. Accounts
  BY DEF Init, Accounts, FoundIsKept, FlagsInv, Early, ProgressInv, HostInv, OutcomeInv
<1> QED
  BY <1>1, <1>2 DEF RInv

LEMMA RelayTyped == TypeOK /\ FlagsInv /\ [Next]_vars => TypeOK'
<1> SUFFICES ASSUME TypeOK, FlagsInv, [Next]_vars
             PROVE  TypeOK'
  OBVIOUS
<1>0. \A f \in {"config", "unit", "logrotate"} : disk[f] \in Settings \cup {None}
  BY DEF TypeOK, Files
<1> USE DEF TypeOK, FlagsInv, Early, Labels, Step, Kept, host, flags
<1>1. CASE \E s \in Settings : Start(s)
  <2>1. PICK s \in Settings : Start(s)
    BY <1>1
  <2>2. before' \in [disk : [Files -> Settings \cup {None}], enabled : BOOLEAN]
    BY <2>1 DEF Start
  <2>3. /\ pc' = "logDirectory" /\ ~written' /\ written' \in BOOLEAN
        /\ new' \in BOOLEAN /\ created' \in BOOLEAN /\ outcome' = "none" /\ asked' = s
        /\ disk' = disk /\ logs' = logs /\ enabled' = enabled /\ relay' = relay
        /\ slipped' = slipped
    BY <2>1 DEF Start
  <2> QED
    BY <2>2, <2>3
<1>2. CASE MakeLogDirectory
  <2>1. CASE /\ logs /\ Step("logDirectory", "candidates") /\ UNCHANGED <<host, flags>>
    BY <1>0, <2>1
  <2>2. CASE /\ ~logs /\ Step("logDirectory", "logFiles") /\ logs' = TRUE
             /\ UNCHANGED <<disk, enabled, relay, flags>>
    BY <1>0, <2>2
  <2> QED
    BY <1>2, <2>1, <2>2 DEF MakeLogDirectory
<1>3. CASE MakeLogFiles
  BY <1>0, <1>3 DEF MakeLogFiles
<1>4. CASE WriteCandidates
  BY <1>0, <1>4 DEF WriteCandidates
<1>5. CASE Detect
  <2>1. pc = "detect" /\ ~written /\ UNCHANGED <<host, written, created, asked, before, slipped>>
    BY <1>5 DEF Detect, Refuse
  <2>2. pc' \in {"port", "exit"} /\ new' \in BOOLEAN /\ outcome' \in {outcome, "refused"}
    BY <1>5 DEF Detect, Refuse
  <2> QED
    BY <2>1, <2>2
<1>6. CASE VerifyPort
  BY <1>0, <1>6 DEF VerifyPort, Refuse
<1>7. CASE \E i \in 1..3 : InstallFile(i)
  <2>1. PICK i \in 1..3 : InstallFile(i)
    BY <1>7
  <2>2. disk' \in [Files -> Settings \cup {None}]
    BY <2>1 DEF InstallFile, Step
  <2>3. pc' \in {"install2", "install3", "enable"} /\ pc \in {"install1", "install2", "install3"}
    BY <2>1 DEF InstallFile, Step
  <2> QED
    BY <1>0, <2>1, <2>2, <2>3 DEF InstallFile
<1>8. CASE Enable
  BY <1>0, <1>8 DEF Enable
<1>9. CASE Restart
  BY <1>0, <1>9 DEF Restart
<1>10. CASE Verify
  BY <1>0, <1>10 DEF Verify
<1>11. CASE OnError
  BY <1>0, <1>11 DEF OnError
<1>12. CASE Disable
  BY <1>0, <1>12 DEF Disable
<1>13. CASE Delete
  BY <1>0, <1>13 DEF Delete, Nothing, Installed
<1>14. CASE Cleanup
  BY <1>0, <1>14 DEF Cleanup
<1>15. CASE Signal
  BY <1>0, <1>15 DEF Signal
<1>16. CASE PowerCut
  BY <1>0, <1>16 DEF PowerCut
<1>17. CASE RelayMoves
  BY <1>0, <1>17 DEF RelayMoves
<1>18. CASE UNCHANGED vars
  BY <1>0, <1>18 DEF vars
<1> QED
  BY <1>1, <1>2, <1>3, <1>4, <1>5, <1>6, <1>7, <1>8, <1>9, <1>10, <1>11, <1>12, <1>13, <1>14, <1>15, <1>16, <1>17, <1>18 DEF Next

LEMMA RelayStep == TypeOK /\ Accounts /\ [Next]_vars => Accounts'
<1> SUFFICES ASSUME TypeOK, Accounts, [Next]_vars
             PROVE  Accounts'
  OBVIOUS
<1>0. /\ FoundIsKept /\ FlagsInv /\ ProgressInv /\ HostInv /\ OutcomeInv
      /\ (disk = Nothing <=> Count = {})
      /\ \A s \in Settings : Installed(s) # Nothing /\ (disk = Installed(s) =>
            Count = Files /\ disk["config"] = s /\ disk["unit"] = s)
      /\ disk \in [Files -> Settings \cup {None}] /\ asked \in Settings
      /\ None \notin Settings
  BY InstalledFacts DEF Accounts, TypeOK
<1>c. disk' = disk => Count' = Count
  BY DEF Count
<1> USE DEF TypeOK, Accounts, FoundIsKept, FlagsInv, Early, ProgressInv, HostInv, Settled, OutcomeInv, Labels, Step, Kept, host, flags
<1>1. CASE \E s \in Settings : Start(s)
  <2>1. FoundIsKept'
    BY <1>0, <1>c, <1>1 DEF Start
  <2>2. FlagsInv'
    BY <1>0, <1>c, <1>1 DEF Start
  <2>3. ProgressInv'
    BY <1>0, <1>c, <1>1 DEF Start
  <2>4. HostInv'
    BY <1>0, <1>c, <1>1 DEF Start
  <2>5. OutcomeInv'
    BY <1>0, <1>c, <1>1 DEF Start
  <2> QED
    BY <2>1, <2>2, <2>3, <2>4, <2>5
<1>2. CASE MakeLogDirectory
  <2>1. FoundIsKept'
    BY <1>0, <1>c, <1>2 DEF MakeLogDirectory
  <2>2. FlagsInv'
    BY <1>0, <1>c, <1>2 DEF MakeLogDirectory
  <2>3. ProgressInv'
    BY <1>0, <1>c, <1>2 DEF MakeLogDirectory
  <2>4. HostInv'
    BY <1>0, <1>c, <1>2 DEF MakeLogDirectory
  <2>5. OutcomeInv'
    BY <1>0, <1>c, <1>2 DEF MakeLogDirectory
  <2> QED
    BY <2>1, <2>2, <2>3, <2>4, <2>5
<1>3. CASE MakeLogFiles
  BY <1>0, <1>c, <1>3 DEF MakeLogFiles
<1>4. CASE WriteCandidates
  BY <1>0, <1>c, <1>4 DEF WriteCandidates
<1>5. CASE Detect
  <2>1. FoundIsKept'
    BY <1>0, <1>c, <1>5 DEF Detect, Refuse
  <2>2. FlagsInv'
    <3>1. pc = "detect" /\ ~written /\ disk = before.disk
      BY <1>0, <1>5 DEF Detect
    <3>2. /\ pc' \in {"port", "exit"} /\ UNCHANGED <<disk, written, before>>
          /\ new' = new \/ Count = {}
      BY <1>5 DEF Detect, Refuse
    <3> QED
      BY <1>0, <3>1, <3>2
  <2>3. ProgressInv'
    BY <1>0, <1>c, <1>5 DEF Detect, Refuse
  <2>4. HostInv'
    BY <1>0, <1>c, <1>5 DEF Detect, Refuse
  <2>5. OutcomeInv'
    BY <1>0, <1>c, <1>5 DEF Detect, Refuse
  <2> QED
    BY <2>1, <2>2, <2>3, <2>4, <2>5
<1>6. CASE VerifyPort
  <2>1. FoundIsKept'
    BY <1>0, <1>c, <1>6 DEF VerifyPort, Refuse
  <2>2. FlagsInv'
    BY <1>0, <1>c, <1>6 DEF VerifyPort, Refuse
  <2>3. ProgressInv'
    BY <1>0, <1>c, <1>6 DEF VerifyPort, Refuse
  <2>4. HostInv'
    BY <1>0, <1>c, <1>6 DEF VerifyPort, Refuse
  <2>5. OutcomeInv'
    BY <1>0, <1>c, <1>6 DEF VerifyPort, Refuse
  <2> QED
    BY <2>1, <2>2, <2>3, <2>4, <2>5
<1>7. CASE \E i \in 1..3 : InstallFile(i)
  <2>1. PICK i \in 1..3 : InstallFile(i)
    BY <1>7
  <2>2. \/ pc = "install1" /\ pc' = "install2" /\ disk' = [disk EXCEPT !["config"] = asked]
        \/ pc = "install2" /\ pc' = "install3" /\ disk' = [disk EXCEPT !["unit"] = asked]
        \/ pc = "install3" /\ pc' = "enable" /\ disk' = [disk EXCEPT !["logrotate"] = asked]
    <3>1. Order[1] = "config" /\ Order[2] = "unit" /\ Order[3] = "logrotate"
      BY DEF Order
    <3> QED
      BY <2>1, <3>1 DEF InstallFile
  <2>3. /\ logs' = TRUE /\ enabled' = enabled /\ relay' = relay /\ UNCHANGED flags
        /\ UNCHANGED <<asked, outcome, before, slipped>>
        /\ written /\ new /\ before.disk = Nothing
    BY <1>0, <2>1 DEF InstallFile
  <2>4. disk' # Nothing
    BY <1>0, <2>2 DEF Nothing, Installed, Files
  <2>5. pc' = "enable" => disk' = Installed(asked)
    BY <1>0, <2>2 DEF Installed, Files
  <2>6. FoundIsKept' /\ FlagsInv' /\ OutcomeInv'
    BY <1>0, <2>2, <2>3
  <2>7. ProgressInv'
    BY <1>0, <2>2, <2>3, <2>5 DEF Files
  <2>8. HostInv'
    BY <1>0, <2>2, <2>3, <2>4
  <2> QED
    BY <2>6, <2>7, <2>8
<1>8. CASE Enable
  BY <1>0, <1>c, <1>8 DEF Enable
<1>9. CASE Restart
  BY <1>0, <1>c, <1>9 DEF Restart, CanRun
<1>10. CASE Verify
  BY <1>0, <1>c, <1>10 DEF Verify
<1>11. CASE OnError
  BY <1>0, <1>c, <1>11 DEF OnError
<1>12. CASE Disable
  BY <1>0, <1>c, <1>12 DEF Disable
<1>13. CASE Delete
  <2>1. FoundIsKept'
    BY <1>0, <1>c, <1>13 DEF Delete
  <2>2. FlagsInv'
    BY <1>0, <1>c, <1>13 DEF Delete
  <2>3. ProgressInv'
    BY <1>0, <1>c, <1>13 DEF Delete
  <2>4. HostInv'
    BY <1>0, <1>c, <1>13 DEF Delete
  <2>5. OutcomeInv'
    BY <1>0, <1>c, <1>13 DEF Delete
  <2> QED
    BY <2>1, <2>2, <2>3, <2>4, <2>5
<1>14. CASE Cleanup
  BY <1>0, <1>c, <1>14 DEF Cleanup
<1>15. CASE Signal
  BY <1>0, <1>c, <1>15 DEF Signal
<1>16. CASE PowerCut
  BY <1>0, <1>c, <1>16 DEF PowerCut, CanRun
<1>17. CASE RelayMoves
  BY <1>0, <1>c, <1>17 DEF RelayMoves, CanRun
<1>18. CASE UNCHANGED vars
  BY <1>0, <1>c, <1>18 DEF vars
<1> QED
  BY <1>1, <1>2, <1>3, <1>4, <1>5, <1>6, <1>7, <1>8, <1>9, <1>10, <1>11, <1>12, <1>13, <1>14, <1>15, <1>16, <1>17, <1>18 DEF Next

-----------------------------------------------------------------------------
(* Every reachable state has the types, and the flags of the two traps     *)
(* never ask for the undoing of something that an earlier run has          *)
(* installed: only what a new installation has written is rolled back, and *)
(* it is never written where files were found (RInv; detect_existing_installation, on_error,     *)
(* cleanup).                                                               *)
THEOREM RelayInvariance == Spec => []RInv
<1>1. RInv /\ [Next]_vars => RInv'
  BY RelayTyped, RelayStep DEF RInv, Accounts
<1> QED
  BY RelayInit, <1>1, PTL DEF Spec

(* A run that finds any file of an installation leaves all of them as they *)
(* are, however it ends, and so do all the steps of its rollback           *)
(* (FoundIsKept; detect_existing_installation).                            *)
THEOREM FoundIsKeptAlways == Spec => []FoundIsKept
<1>1. RInv => FoundIsKept
  BY DEF RInv, Accounts
<1> QED
  BY <1>1, RelayInvariance, PTL

(* A first run that fails at any command leaves nothing installed, enabled *)
(* or running, unless a signal, a power cut or a failed systemctl kept the *)
(* rollback from its work (FailureUndone; rollback_new_installation).      *)
THEOREM FailureUndoneAlways == Spec => []FailureUndone
<1>1. RInv => FailureUndone
  BY DEF RInv, Accounts, HostInv, OutcomeInv, FailureUndone
<1> QED
  BY <1>1, RelayInvariance, PTL

(* What a run has reported installed starts at boot with the settings      *)
(* asked for, and so does every whole installation that nothing has hit in *)
(* the making (InstalledBoots; main, cleanup).                             *)
THEOREM InstalledBootsAlways == Spec => []InstalledBoots
<1>1. RInv => InstalledBoots
  <2> SUFFICES ASSUME RInv, pc = "idle"
               PROVE  /\ outcome = "ok" => disk = Installed(asked) /\ enabled /\ CanRun
                      /\ enabled /\ Count = Files /\ ~slipped => CanRun
    BY DEF InstalledBoots
  <2>1. outcome = "ok" => disk = Installed(asked) /\ enabled /\ logs
    BY DEF RInv, Accounts, OutcomeInv
  <2>2. outcome = "ok" => CanRun
    BY <2>1, InstalledFacts DEF RInv, TypeOK, CanRun
  <2>3. ASSUME enabled, Count = Files, ~slipped
        PROVE  CanRun
    <3>1. logs
      BY <2>3 DEF RInv, Accounts, HostInv, Settled
    <3>2. disk["unit"] # None /\ disk["config"] # None
      BY <2>3 DEF Count, Files
    <3> QED
      BY <3>1, <3>2 DEF CanRun
  <2> QED
    BY <2>1, <2>2, <2>3
<1> QED
  BY <1>1, RelayInvariance, PTL
=============================================================================
