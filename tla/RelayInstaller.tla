---------------------------- MODULE RelayInstaller ----------------------------
(***************************************************************************)
(* install-relay.sh, run again and again on one host for one RELAY_NAME.   *)
(* A command that fails fires the ERR trap, which rolls a new installation *)
(* back, and then the EXIT trap, which cleans up.  A refusal (`exit 1`)    *)
(* and a signal fire the EXIT trap alone, and a power cut fires none.      *)
(* The systemd unit needs its three ingredients to start: the unit file,   *)
(* the configuration, and the log directory (ReadWritePaths).  A file that *)
(* `install` has put there is whole, also after a power cut.               *)
(***************************************************************************)
EXTENDS Naturals

CONSTANTS Settings,   \* origin and port that a relay is installed with
          None

ASSUME NoneAssumption == None \notin Settings

VARIABLES disk,      \* the settings in each installed file
          logs,      \* the log directory is there
          enabled,   \* the unit is enabled
          relay,     \* the settings the relay runs with
          pc,        \* where the script is
          asked,     \* the settings it was called with
          new,       \* new_installation
          written,   \* installation_files_written
          created,   \* created_log_directory
          outcome,   \* how the script ended, or is about to
          before,    \* history: disk and enabled when the script started
          slipped    \* history: a signal, a power cut, or a failed systemctl
                     \*          in the rollback has kept files from their undoing

host == <<disk, logs, enabled, relay>>
flags == <<new, written, created>>
vars == <<host, pc, asked, flags, outcome, before, slipped>>

-----------------------------------------------------------------------------
Files == {"config", "unit", "logrotate"}
Order == <<"config", "unit", "logrotate">>
Installed(s) == [f \in Files |-> s]
Nothing == Installed(None)
Count == {f \in Files : disk[f] # None}

Labels == {"idle", "logDirectory", "logFiles", "candidates", "detect", "port", "install1",
           "install2", "install3", "enable", "restart", "verify", "disable", "delete", "exit"}

(* The types; and only what a new installation has written is rolled back  *)
(* (on_error, detect_existing_installation).                               *)
TypeOK ==
    /\ disk \in [Files -> Settings \cup {None}]
    /\ logs \in BOOLEAN /\ enabled \in BOOLEAN
    /\ relay \in Settings \cup {None}
    /\ pc \in Labels
    /\ asked \in Settings
    /\ new \in BOOLEAN /\ written \in BOOLEAN /\ created \in BOOLEAN
    /\ outcome \in {"none", "ok", "refused", "failed", "interrupted", "lost"}
    /\ before \in [disk : [Files -> Settings \cup {None}], enabled : BOOLEAN]
    /\ slipped \in BOOLEAN
    /\ pc \in {"disable", "delete"} => written /\ new
    /\ written => before.disk = Nothing

Init ==
    /\ disk = Nothing /\ logs \in BOOLEAN /\ enabled = FALSE /\ relay = None
    /\ pc = "idle" /\ asked \in Settings
    /\ new = FALSE /\ written = FALSE /\ created = FALSE
    /\ outcome = "none"
    /\ before = [disk |-> disk, enabled |-> enabled]
    /\ slipped = FALSE

-----------------------------------------------------------------------------
Kept == UNCHANGED <<asked, before, slipped>>
Step(from, to) == pc = from /\ pc' = to /\ UNCHANGED outcome /\ Kept

(* Settings, dependencies, origin and public address are in order. *)
Start(s) ==
    /\ pc = "idle"
    /\ pc' = "logDirectory"
    /\ asked' = s
    /\ new' = FALSE /\ written' = FALSE /\ created' = FALSE
    /\ outcome' = "none"
    /\ before' = [disk |-> disk, enabled |-> enabled]
    /\ UNCHANGED <<host, slipped>>

(* prepare_log_directory. *)
MakeLogDirectory ==
    /\ \/ logs /\ Step("logDirectory", "candidates") /\ UNCHANGED <<host, flags>>
       \/ /\ ~logs /\ Step("logDirectory", "logFiles")
          /\ logs' = TRUE
          /\ UNCHANGED <<disk, enabled, relay, flags>>

MakeLogFiles ==
    /\ Step("logFiles", "candidates")
    /\ created' = TRUE
    /\ UNCHANGED <<host, new, written>>

(* write_candidate_files, and xray run -test. *)
WriteCandidates == Step("candidates", "detect") /\ UNCHANGED <<host, flags>>

Refuse ==
    /\ pc' = "exit"
    /\ outcome' = "refused"
    /\ UNCHANGED <<host, flags>> /\ Kept

(* Mutant: any file that is missing makes for a new installation. *)
DetectLoose ==
    /\ pc = "detect"
    /\ \/ /\ Count # Files
          /\ pc' = "port" /\ new' = TRUE
          /\ UNCHANGED <<host, written, created, outcome>> /\ Kept
       \/ /\ disk = Installed(asked)
          /\ pc' = "port"
          /\ UNCHANGED <<host, flags, outcome>> /\ Kept
       \/ Count = Files /\ disk # Installed(asked) /\ Refuse

(* detect_existing_installation. *)
Detect ==
    /\ pc = "detect"
    /\ \/ /\ Count = {}
          /\ pc' = "port" /\ new' = TRUE
          /\ UNCHANGED <<host, written, created, outcome>> /\ Kept
       \/ /\ disk = Installed(asked)
          /\ pc' = "port"
          /\ UNCHANGED <<host, flags, outcome>> /\ Kept
       \/ Count # {} /\ disk # Installed(asked) /\ Refuse

(* verify_selected_port, with another listener there or not; then the flag *)
(* that install_candidate_files sets before its first file.                *)
VerifyPort ==
    \/ /\ Step("port", IF new THEN "install1" ELSE "enable")
       /\ written' = new
       /\ UNCHANGED <<host, new, created>>
    \/ pc = "port" /\ Refuse

(* install_candidate_files, one install a step. *)
InstallFile(i) ==
    /\ \/ i = 1 /\ Step("install1", "install2")
       \/ i = 2 /\ Step("install2", "install3")
       \/ i = 3 /\ Step("install3", "enable")
    /\ disk' = [disk EXCEPT ![Order[i]] = asked]
    /\ logs' = TRUE
    /\ UNCHANGED <<enabled, relay, flags>>

Enable ==
    /\ Step("enable", "restart")
    /\ enabled' = TRUE
    /\ UNCHANGED <<disk, logs, relay, flags>>

CanRun == disk["unit"] # None /\ disk["config"] # None /\ logs

Restart ==
    /\ Step("restart", "verify")
    /\ relay' = IF CanRun THEN disk["config"] ELSE None
    /\ UNCHANGED <<disk, logs, enabled, flags>>

(* Mutant: the log directory is still taken for one to clean up. *)
VerifyForgetful ==
    /\ pc = "verify"
    /\ relay # None
    /\ pc' = "exit"
    /\ outcome' = "ok"
    /\ new' = FALSE /\ written' = FALSE
    /\ UNCHANGED <<host, created>> /\ Kept

Verify ==
    /\ pc = "verify"
    /\ relay # None
    /\ pc' = "exit"
    /\ outcome' = "ok"
    /\ new' = FALSE /\ written' = FALSE /\ created' = FALSE
    /\ UNCHANGED host /\ Kept

-----------------------------------------------------------------------------
(* Ways out. *)

(* Mutant: on_error rolls back whatever was there. *)
OnErrorAlways ==
    /\ pc \notin {"idle", "exit", "disable", "delete"}
    /\ outcome' = "failed"
    /\ pc' = "disable"
    /\ UNCHANGED <<host, flags>> /\ Kept

(* on_error: a command fails, or the next one does. *)
OnError ==
    /\ pc \notin {"idle", "exit", "disable", "delete"}
    /\ outcome' = "failed"
    /\ pc' = IF written THEN "disable" ELSE "exit"
    /\ UNCHANGED <<host, flags>> /\ Kept

(* rollback_new_installation; systemctl disable may fail unnoticed. *)
Disable ==
    /\ pc = "disable"
    /\ pc' = "delete"
    /\ \/ enabled' = FALSE /\ relay' = None /\ UNCHANGED slipped
       \/ UNCHANGED <<enabled, relay>> /\ slipped' = TRUE
    /\ UNCHANGED <<disk, logs, asked, before, flags, outcome>>

(* Mutant: a file that came to the installation later is forgotten. *)
DeleteSome ==
    /\ Step("delete", "exit")
    /\ disk' = [disk EXCEPT !["config"] = None, !["unit"] = None]
    /\ logs' \in IF created THEN {logs} ELSE {logs, FALSE}
    /\ UNCHANGED <<enabled, relay, flags>>

(* An empty log directory goes too, one that was there before included. *)
Delete ==
    /\ Step("delete", "exit")
    /\ disk' = Nothing
    /\ logs' \in IF created THEN {logs} ELSE {logs, FALSE}
    /\ UNCHANGED <<enabled, relay, flags>>

(* cleanup, the EXIT trap. *)
Cleanup ==
    /\ Step("exit", "idle")
    /\ logs' = (logs /\ ~created)
    /\ UNCHANGED <<disk, enabled, relay, flags>>

Signal ==
    /\ pc \notin {"idle", "exit"}
    /\ pc' = "exit"
    /\ outcome' = "interrupted"
    /\ slipped' = (slipped \/ written)
    /\ UNCHANGED <<host, flags, asked, before>>

PowerCut ==
    /\ pc' = "idle"
    /\ outcome' = IF pc = "idle" THEN outcome ELSE "lost"
    /\ slipped' = (slipped \/ (pc # "idle" /\ written))
    /\ relay' = IF enabled /\ CanRun THEN disk["config"] ELSE None
    /\ UNCHANGED <<disk, logs, enabled, flags, asked, before>>

(* The relay dies, or comes back. *)
RelayMoves ==
    /\ relay' \in {None} \cup (IF enabled /\ CanRun THEN {disk["config"]} ELSE {})
    /\ UNCHANGED <<disk, logs, enabled, pc, asked, flags, outcome, before, slipped>>

Next ==
    \/ \E s \in Settings : Start(s)
    \/ MakeLogDirectory \/ MakeLogFiles \/ WriteCandidates \/ Detect \/ VerifyPort
    \/ \E i \in 1..3 : InstallFile(i)
    \/ Enable \/ Restart \/ Verify
    \/ OnError \/ Disable \/ Delete \/ Cleanup \/ Signal \/ PowerCut \/ RelayMoves

Spec == Init /\ [][Next]_vars

-----------------------------------------------------------------------------
(* Properties. *)

(* A run that finds any file of an installation leaves all of them as they *)
(* are, whatever it was called with and however it ends; README.md:177:    *)
(* "different settings are not silently overwritten"                       *)
(* (detect_existing_installation, on_error).                               *)
FoundIsKept == before.disk # Nothing => disk = before.disk

(* A first run that fails leaves nothing installed, enabled or running, at *)
(* whatever command it fails, unless something kept the rollback from its  *)
(* work (rollback_new_installation, on_error).                             *)
FailureUndone ==
    pc = "idle" /\ outcome = "failed" /\ before.disk = Nothing /\ ~slipped =>
        disk = Nothing /\ ~enabled /\ relay = None

(* What a run has reported installed comes back after a reboot with the    *)
(* settings asked for, and so does every whole installation that no signal *)
(* or power cut has hit in the making (main, cleanup).                     *)
InstalledBoots ==
    pc = "idle" =>
        /\ outcome = "ok" => disk = Installed(asked) /\ enabled /\ CanRun
        /\ enabled /\ Count = Files /\ ~slipped => CanRun

-----------------------------------------------------------------------------
(* The inductive invariant behind them. *)

Early == {"logDirectory", "logFiles", "candidates", "detect", "port"}

(* The flags tell what the run found and what it has written. *)
FlagsInv ==
    /\ written => new
    /\ new => before.disk = Nothing
    /\ pc \in Early => ~written
    /\ pc \in {"install1", "install2", "install3"} => written
    /\ pc \notin {"idle", "exit"} /\ ~written => disk = before.disk

(* How far the installation is. *)
ProgressInv ==
    /\ pc = "port" /\ ~new => disk = Installed(asked)
    /\ pc \in {"install2", "install3"} => disk["config"] = asked
    /\ pc = "install3" => disk["unit"] = asked
    /\ pc \in {"enable", "restart", "verify"} => disk = Installed(asked)
    /\ pc \in {"restart", "verify"} => enabled
    /\ pc \notin {"idle", "exit", "logDirectory"} => logs
    /\ pc \in {"disable", "delete"} => outcome = "failed"

(* Between installations the host has none or a whole one, which no later  *)
(* run takes for something of its own to clean up.                         *)
Settled == pc \in {"idle", "exit"} \/ ~written

HostInv ==
    ~slipped =>
        /\ Settled => disk = Nothing \/ (Count = Files /\ enabled /\ logs)
        /\ Settled /\ created => disk = Nothing
        /\ pc = "logFiles" => disk = Nothing
        /\ pc = "delete" => ~enabled
        /\ disk = Nothing => ~enabled
        /\ ~enabled => relay = None

OutcomeInv ==
    pc \in {"idle", "exit"} =>
        /\ outcome = "failed" /\ before.disk = Nothing /\ ~slipped => disk = Nothing
        /\ outcome = "ok" => disk = Installed(asked) /\ enabled /\ logs /\ ~created

(* What detect_existing_installation found is kept, the three flags of the *)
(* traps say what there is to undo, and unless something slipped the host  *)
(* has no half of an installation (on_error, cleanup, main).               *)
Accounts == FoundIsKept /\ FlagsInv /\ ProgressInv /\ HostInv /\ OutcomeInv
RInv == TypeOK /\ Accounts
=============================================================================
