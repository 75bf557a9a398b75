-------------------------------- MODULE Node --------------------------------
(***************************************************************************)
(* A node over many lifetimes of vless-api: main.go around ConfigStore.    *)
(* The process starts, probes the live API, loads the users, reconciles    *)
(* the mirror inbounds one by one, and serves; and it may die at any step, *)
(* on a crash or on SIGTERM, for main returns as soon as ListenAndServe    *)
(* does and waits for no handler.  config.json and Xray outlive it.        *)
(***************************************************************************)
EXTENDS ConfigStore

CONSTANT InitialNodes   \* records [file, live]: config.json and Xray's users
                        \* when vless-api first starts

(* An id of the primary inbound stands under no other name on a mirror. *)
Tidy(roster) ==
    \A t \in Inbounds : \A d \in roster[t], e \in roster[Primary] :
        d.uuid = e.uuid => d.name = e.name

(* Xray has started on the file; and mirrors have the primary's users, or  *)
(* earlier or other ones, whose ids are their own.                         *)
ASSUME InitialNodesAssumption ==
    /\ InitialNodes \subseteq [file : Roster, live : Roster]
    /\ \A n \in InitialNodes : n.live[Primary] = n.file[Primary] /\ Tidy(n.file)

VARIABLES main,      \* where main is: "down", "probe", "load", "reconcile",
                     \* "query", "register", or "serving"
          mirror,    \* the mirror being reconciled, 1..Len(Mirrors) + 1
          missing,   \* users that reconcileMirror found missing on it
          cut        \* history: the process died inside a mutation that had
                     \*          written the file, and Xray has not reloaded it

nodeVars == <<main, mirror, missing, cut>>
allVars  == <<vars, nodeVars>>

(* No request is served before startup is through, so reconciliation has   *)
(* the file to itself.                                                     *)
NodeTypeOK ==
    /\ TypeOK
    /\ main \in {"down", "probe", "load", "reconcile", "query", "register", "serving"}
    /\ mirror \in 1..(Len(Mirrors) + 1)
    /\ missing \subseteq Entry
    /\ cut \in BOOLEAN
    /\ main # "serving" => lock = Free /\ \A h \in Handlers : pc[h] = "idle"

NodeInit ==
    /\ \E n \in InitialNodes :
          /\ file = n.file
          /\ live = n.live
          /\ issued = UNION {IdsOf(n.file[t]) \cup IdsOf(n.live[t]) : t \in Inbounds}
    /\ xray = "up"
    /\ liveAPI = FALSE
    /\ lock = Free
    /\ pc = [h \in Handlers |-> "idle"]
    /\ op = [h \in Handlers |-> NoRequest]
    /\ work = [h \in Handlers |-> NoWork]
    /\ reply = [h \in Handlers |-> NoReply]
    /\ revoked = {}
    /\ adrift = FALSE
    /\ main = "down"
    /\ mirror = 1
    /\ missing = {}
    /\ cut = FALSE

-----------------------------------------------------------------------------
(* Startup.  Nothing else of the process runs yet, so the mutex is not     *)
(* contended and the store's variables do not move.                        *)

Startup == UNCHANGED <<xray, adrift, storeVars, cut>>

(* systemd starts the service. *)
Launch ==
    /\ main = "down"
    /\ main' = "probe"
    /\ UNCHANGED <<file, live, liveAPI, mirror, missing>> /\ Startup

(* A running Xray may fail to answer as well. *)
Probe ==
    /\ main = "probe"
    /\ liveAPI' \in (IF xray = "up" THEN BOOLEAN ELSE {FALSE})
    /\ main' = "load"
    /\ UNCHANGED <<file, live, mirror, missing>> /\ Startup

(* log.Fatalf when List cannot read or accept the primary list. *)
LoadUsers ==
    /\ main = "load"
    /\ \/ WellFormed(file[Primary]) /\ main' = "reconcile"
       \/ main' = "down"
    /\ mirror' = 1
    /\ missing' = {}
    /\ UNCHANGED <<file, live, liveAPI>> /\ Startup

(* ReconcileMirrorInbounds returns, with its last mirror done or with the  *)
(* error of one; either way main goes on to serve.                         *)
ReconcileReturns ==
    /\ main = "reconcile"
    /\ mirror = Len(Mirrors) + 1
    /\ main' = "serving"
    /\ UNCHANGED <<file, live, liveAPI, mirror, missing>> /\ Startup

ReconcileFails ==
    /\ main \in {"reconcile", "query"}
    /\ mirror <= Len(Mirrors)
    /\ main' = "serving"
    /\ UNCHANGED <<file, live, liveAPI, mirror, missing>> /\ Startup

NextMirror == main' = "reconcile" /\ mirror' = mirror + 1

SkipAbsentMirror ==
    /\ main = "reconcile"
    /\ mirror <= Len(Mirrors)
    /\ TagOf(mirror) \notin Inbounds
    /\ NextMirror
    /\ UNCHANGED <<file, live, liveAPI, missing>> /\ Startup

(* Mutant: the primary's list is rebuilt from the mirror's. *)
ReconcileFileBackwards ==
    LET tag == TagOf(mirror)
    IN  /\ main = "reconcile"
        /\ mirror <= Len(Mirrors)
        /\ tag \in Inbounds
        /\ WellFormed(file[Primary])
        /\ file' = [file EXCEPT ![Primary] = file[tag]]
        /\ \/ liveAPI /\ main' = "query" /\ UNCHANGED mirror
           \/ ~liveAPI /\ NextMirror
        /\ UNCHANGED <<live, liveAPI, missing>> /\ Startup

(* The mirror's list in the file becomes the primary's; persist writes     *)
(* only when they differ.  Without the live API that is all.               *)
ReconcileFile ==
    LET tag == TagOf(mirror)
    IN  /\ main = "reconcile"
        /\ mirror <= Len(Mirrors)
        /\ tag \in Inbounds
        /\ WellFormed(file[Primary])
        /\ \/ SameUserSet(file[tag], file[Primary]) /\ UNCHANGED file
           \/ /\ ~SameUserSet(file[tag], file[Primary])
              /\ file' = [file EXCEPT ![tag] = AddUsersToList({}, file[Primary])]
        /\ \/ liveAPI /\ main' = "query" /\ UNCHANGED mirror
           \/ ~liveAPI /\ NextMirror
        /\ UNCHANGED <<live, liveAPI, missing>> /\ Startup

(* Mutant: the mirror's list in the file stands in for the live one. *)
QueryFileMirror ==
    /\ main = "query"
    /\ xray = "up"
    /\ missing' = {e \in file[Primary] : e.name \notin NamesOf(file[TagOf(mirror)])}
    /\ \/ missing' = {} /\ NextMirror
       \/ missing' # {} /\ main' = "register" /\ UNCHANGED mirror
    /\ UNCHANGED <<file, live, liveAPI>> /\ Startup

(* Names, not ids, decide who is missing on the live mirror. *)
QueryLiveMirror ==
    /\ main = "query"
    /\ xray = "up"
    /\ missing' = {e \in file[Primary] : e.name \notin InboundUsers(TagOf(mirror))}
    /\ \/ missing' = {} /\ NextMirror
       \/ missing' # {} /\ main' = "register" /\ UNCHANGED mirror
    /\ UNCHANGED <<file, live, liveAPI>> /\ Startup

RegisterMissing ==
    /\ main = "register"
    /\ \/ AddUsers(TagOf(mirror), missing) /\ NextMirror
       \/ AddUsersFails(TagOf(mirror), missing) /\ main' = "serving" /\ UNCHANGED mirror
    /\ missing' = {}
    /\ UNCHANGED <<file, liveAPI>> /\ Startup

StartupStep ==
    \/ Launch \/ Probe \/ LoadUsers
    \/ SkipAbsentMirror \/ ReconcileFile \/ QueryLiveMirror \/ RegisterMissing
    \/ ReconcileReturns \/ ReconcileFails

-----------------------------------------------------------------------------
(* The file and Xray may differ from Write on, until the answer. *)
Unfinished == \E h \in Handlers : pc[h] \in {"apply", "restart", "restore", "rerestart"}

(* The process ends: handlers, mutex and pending requests are gone. *)
Die ==
    /\ main # "down"
    /\ main' = "down"
    /\ cut' = (cut \/ Unfinished)
    /\ lock' = Free
    /\ pc' = [h \in Handlers |-> "idle"]
    /\ op' = [h \in Handlers |-> NoRequest]
    /\ work' = [h \in Handlers |-> NoWork]
    /\ reply' = [h \in Handlers |-> NoReply]
    /\ mirror' = 1
    /\ missing' = {}
    /\ UNCHANGED <<file, xray, live, liveAPI, issued, revoked, adrift>>

(* Mutant: the HTTP server is up before startup is through. *)
ServingEarly ==
    /\ main # "down"
    /\ (\E h \in Handlers : Step(h)) \/ ServiceAction
    /\ UNCHANGED nodeVars

Serving ==
    /\ main = "serving"
    /\ (\E h \in Handlers : Step(h)) \/ ServiceAction
    /\ UNCHANGED nodeVars

XrayMoves ==
    \/ XrayBoots /\ cut' = FALSE /\ UNCHANGED <<main, mirror, missing>>
    \/ XrayFails /\ UNCHANGED nodeVars

NodeNext == StartupStep \/ Die \/ Serving \/ XrayMoves

NodeSpec == NodeInit /\ [][NodeNext]_allVars

-----------------------------------------------------------------------------
(* Properties. *)

(* The primary inbound is in step with the file over crashes, restarts and *)
(* reconciliations too, unless a rollback failed or the process died       *)
(* inside a mutation (persistAndApply, ReconcileMirrorInbounds).           *)
PrimaryFollowsFile ==
    xray = "up" /\ ~adrift /\ ~cut =>
        Without(live[Primary], InFlight) = Without(file[Primary], InFlight)

(* No id that was revoked is ever in the file again, whatever dies when:   *)
(* reconciliation copies the primary list, and rollbacks die with their    *)
(* process (ReconcileMirrorInbounds, persistAndApply).                     *)
RevokedStaysOutOfFile ==
    \A t \in Inbounds : IdsOf(file[t]) \cap revoked = {}

(* A reconciliation that returns without an error has brought every        *)
(* installed mirror to parity in the file, and, with the live API, has     *)
(* every user of the file registered by name on every running mirror, even *)
(* when Xray restarted in the midst of it (ReconcileMirrorInbounds).       *)
ReconciledMirrors ==
    /\ \A t \in Inbounds : file[t] = file[Primary]
    /\ liveAPI /\ xray = "up" =>
          \A t \in Inbounds \ {Primary} : NamesOf(file[t]) \subseteq NamesOf(live[t])
ReconcileReachesParity == [][ReconcileReturns => ReconciledMirrors']_allVars

(* Requests still take effect atomically: those a death interrupts take    *)
(* effect at most once and are never acknowledged (main, ConfigStore).     *)
MortalRegistry ==
    INSTANCE UserRegistry WITH users <- Registered, request <- op,
                               InitialUsers <- {n.file[Primary] : n \in InitialNodes}
RegistrySurvives == MortalRegistry!MortalSpec

-----------------------------------------------------------------------------
(* Claims of the documentation that do not hold. *)

(* README.md:58-59: "the file and the running process can never silently   *)
(* disagree" (persistAndApply; a failed rollback is reported).             *)
NeverSilentlyDisagree ==
    main = "serving" /\ lock = Free /\ xray = "up" /\ ~adrift =>
        live[Primary] = file[Primary]

(* store.go:104-106: reconciliation "brings every configured mirror        *)
(* inbound to parity with the primary one, on disk and in the running      *)
(* process" (ReconcileMirrorInbounds without the live API).                *)
ReconcileReachesRunningProcess ==
    [][ReconcileReturns /\ xray = "up" =>
          \A t \in Inbounds : NamesOf(file[t]) \subseteq NamesOf(live[t])]_allVars

(* store.go:118-119: "any drift is corrected on the next boot" of          *)
(* vless-api (ReconcileMirrorInbounds with the live API).                  *)
BootCorrectsDrift ==
    [][ReconcileReturns /\ liveAPI /\ xray = "up" =>
          \A t \in Inbounds \ {Primary} : file[t] \subseteq live[t]]_allVars
=============================================================================
