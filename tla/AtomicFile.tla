----------------------------- MODULE AtomicFile -----------------------------
(***************************************************************************)
(* writeAtomic of store.go, one system call a step, under its two callers: *)
(* persist, which writes the original again when the write fails, and      *)
(* persistAndApply, which writes it back when the change cannot be applied.*)
(* Every call can fail, the process can die and the power can fail between *)
(* any two.  The mutex keeps all other writers away.                       *)
(*                                                                         *)
(* What a file holds survives a power failure once it is synced, and its   *)
(* name once the directory is, which writeAtomic leaves to the kernel.     *)
(***************************************************************************)
CONSTANTS Documents,   \* contents of config.json
          Accepted,    \* those `xray run -test` accepts
          Torn,        \* anything else a file can hold: a part, or nothing
          None         \* no write under way

ASSUME DocumentsAssumption ==
    /\ Accepted \subseteq Documents
    /\ Torn \notin Documents /\ None \notin Documents

VARIABLES config,     \* the file named config.json
          stable,     \* the file of that name on the disk
          temp,       \* the file named .vless-api-config-*.json
          pc,         \* the next system call of writeAtomic
          job,        \* the write under way
          answer,     \* how the last write ended
          found,      \* history: config.json as the first process found it
          statFailed  \* history: fileOwnership has had to guess

vars == <<config, stable, temp, pc, job, answer, found, statFailed>>

-----------------------------------------------------------------------------
(* kept: what a file has of the permissions config.json had at first.      *)
Permissions == {"mode", "owner"}
File  == [doc : Documents \cup {Torn}, synced : BOOLEAN, kept : SUBSET Permissions]
Empty == [doc |-> Torn, synced |-> FALSE, kept |-> {}]

(* original is what load read, kept what fileOwnership found, and again    *)
(* marks the second write of a caller.                                     *)
Jobs == [kind : {"persist", "apply"}, asked : Documents, original : Documents,
         kept : SUBSET Permissions, again : BOOLEAN]
Content == IF job.again THEN job.original ELSE job.asked

Calls == {"create", "chmod", "chown", "write", "sync", "close", "validate", "rename"}

TypeOK ==
    /\ config \in File /\ stable \in File /\ temp \in File
    /\ pc \in {"idle", "apply"} \cup Calls
    /\ job \in Jobs
    /\ answer \in {"none", "ok", "error"}
    /\ found \in Documents
    /\ statFailed \in BOOLEAN

Init ==
    /\ found \in Documents
    /\ config = [doc |-> found, synced |-> TRUE, kept |-> Permissions]
    /\ stable = config
    /\ temp = Empty
    /\ pc = "idle"
    /\ job = [kind |-> "persist", asked |-> found, original |-> found,
              kept |-> Permissions, again |-> FALSE]
    /\ answer = "none"
    /\ statFailed = FALSE

-----------------------------------------------------------------------------
(* The callers. *)

(* The document is loaded and rewritten.  Where os.Stat fails, writeAtomic *)
(* gets 0600 and no owner.                                                 *)
Begin ==
    /\ pc = "idle"
    /\ config.doc \in Documents
    /\ \E kind \in {"persist", "apply"}, d \in Documents, kept \in {config.kept, {}} :
          job' = [kind |-> kind, asked |-> d, original |-> config.doc,
                  kept |-> kept, again |-> FALSE]
    /\ statFailed' = (statFailed \/ job'.kept # config.kept)
    /\ pc' = "create"
    /\ answer' = "none"
    /\ UNCHANGED <<config, stable, temp, found>>

WriteOriginal ==
    /\ job' = [job EXCEPT !.again = TRUE]
    /\ pc' = "create"

(* writeAtomic returns, and the deferred os.Remove has run.  persist       *)
(* answers a failure after a second try, whose own failure it ignores.     *)
Fails ==
    /\ \/ /\ job.kind = "persist" /\ ~job.again
          /\ WriteOriginal
          /\ UNCHANGED answer
       \/ /\ job.kind = "apply" \/ job.again
          /\ pc' = "idle"
          /\ answer' = "error"
          /\ UNCHANGED job
    /\ temp' = Empty
    /\ UNCHANGED <<config, stable, found, statFailed>>

Succeeds ==
    /\ pc' = IF job.kind = "apply" /\ ~job.again THEN "apply" ELSE "idle"
    /\ answer' = IF job.kind = "persist" /\ job.again THEN "error" ELSE "ok"
    /\ UNCHANGED job

(* persistAndApply brings Xray in step, or restores the file. *)
Apply ==
    /\ pc = "apply"
    /\ \/ pc' = "idle" /\ UNCHANGED <<job, answer>>
       \/ WriteOriginal /\ answer' = "none"
    /\ UNCHANGED <<config, stable, temp, found, statFailed>>

-----------------------------------------------------------------------------
(* writeAtomic. *)

Call(from, to) == pc = from /\ pc' = to /\ UNCHANGED <<config, stable, job, answer, found, statFailed>>

CreateTemp == Call("create", "chmod") /\ temp' = Empty
Chmod == Call("chmod", "chown") /\ temp' = [temp EXCEPT !.kept = @ \cup (job.kept \cap {"mode"})]

(* Mutant: the owner is left to the process. *)
ChownSkipped == Call("chown", "write") /\ UNCHANGED temp

Chown == Call("chown", "write") /\ temp' = [temp EXCEPT !.kept = @ \cup (job.kept \cap {"owner"})]

(* Mutant: a short write passes for a whole one. *)
WriteContentShort ==
    Call("write", "sync") /\ \E d \in {Content, Torn} : temp' = [temp EXCEPT !.doc = d]

WriteContent == Call("write", "sync") /\ temp' = [temp EXCEPT !.doc = Content]

(* Mutant: the file is closed without a sync. *)
SyncSkipped == Call("sync", "close") /\ UNCHANGED temp

Sync  == Call("sync", "close") /\ temp' = [temp EXCEPT !.synced = TRUE]
Close == Call("close", "validate") /\ UNCHANGED temp

(* It may refuse or time out on any document, but accepts no other. *)
Validate == Call("validate", "rename") /\ temp.doc \in Accepted /\ UNCHANGED temp

(* Mutant: the error of os.Rename is ignored. *)
RenameUnchecked ==
    /\ pc = "rename"
    /\ config' \in {temp, config}
    /\ temp' = Empty
    /\ Succeeds
    /\ UNCHANGED <<stable, found, statFailed>>

Rename ==
    /\ pc = "rename"
    /\ config' = temp
    /\ temp' = Empty
    /\ Succeeds
    /\ UNCHANGED <<stable, found, statFailed>>

CallFails == pc \in Calls /\ Fails

WriteAtomic ==
    \/ CreateTemp \/ Chmod \/ Chown \/ WriteContent \/ Sync \/ Close \/ Validate
    \/ Rename \/ CallFails

-----------------------------------------------------------------------------
(* The environment.  A temporary file that is left behind is in nobody's   *)
(* way, for os.CreateTemp picks a name that is not taken.                  *)

Forget == pc' = "idle" /\ temp' = Empty /\ answer' = "none" /\ UNCHANGED <<job, found, statFailed>>

(* The kernel writes the directory out when it likes. *)
Writeback ==
    /\ stable' = config
    /\ UNCHANGED <<config, temp, pc, job, answer, found, statFailed>>

Die == Forget /\ UNCHANGED <<config, stable>>

(* The disk has the old name or the new, and of a file what was synced. *)
PowerFailure ==
    /\ \E f \in {config, stable} :
          config' \in (IF f.synced THEN {f} ELSE {f, [f EXCEPT !.doc = Torn]})
    /\ stable' = config'
    /\ Forget

Next == Begin \/ WriteAtomic \/ Apply \/ Writeback \/ Die \/ PowerFailure

Spec == Init /\ [][Next]_vars

-----------------------------------------------------------------------------
(* Properties. *)

(* config.json is at every moment, whatever fails, dies or goes dark, one  *)
(* whole document, and one that Xray has accepted unless it is the one the *)
(* node came with: Xray can boot from it any time (writeAtomic).           *)
AlwaysWhole ==
    \A f \in {config, stable} : f.synced /\ f.doc \in Accepted \cup {found}

(* The file keeps its owner and mode over any number of replacements and   *)
(* rollbacks, so that Xray's own user can still read it; only a failed     *)
(* os.Stat, which nobody reports, loses them (fileOwnership, writeAtomic). *)
PermissionsKept ==
    ~statFailed => config.kept = Permissions /\ stable.kept = Permissions

(* Why this is so: what the temporary file has at each system call, what   *)
(* the callers remember, and that persist has not replaced the file yet.   *)
TempSoFar ==
    /\ pc \in {"sync", "close", "validate", "rename"} => temp.doc = Content
    /\ pc \in {"close", "validate", "rename"} => temp.synced
    /\ pc = "rename" => temp.doc \in Accepted
    /\ pc = "chmod" => temp.kept = {}
    /\ pc = "chown" => temp.kept = job.kept \cap {"mode"}
    /\ pc \in {"write", "sync", "close", "validate", "rename"} => temp.kept = job.kept

CallerSoFar ==
    /\ pc = "apply" => job.kind = "apply"
    /\ pc \in Calls /\ job.kind = "persist" => config.doc = job.original
    /\ pc # "idle" /\ ~statFailed => job.kept = Permissions

(* The inductive invariant of the proofs: at every system call the file in *)
(* the making is as far as the code has brought it (writeAtomic).          *)
AInv == TypeOK /\ TempSoFar /\ CallerSoFar /\ AlwaysWhole /\ PermissionsKept

(* A write replaces the whole document or nothing and says which, also     *)
(* with the second write that persist makes (writeAtomic, persist).        *)
Wanted ==
    IF pc \notin Calls THEN None
    ELSE IF job.kind = "apply" THEN Content ELSE job.asked

Replace == INSTANCE AtomicReplace WITH
    document <- config.doc, flushed <- stable.doc, wanted <- Wanted
ReplaceImplemented == Replace!Spec
=============================================================================
