-------------------------- MODULE AtomicFileProofs --------------------------
(***************************************************************************)
(* Proofs about AtomicFile for any set of documents: its invariant, the    *)
(* two properties that follow from it, and that it implements              *)
(* AtomicReplace.                                                          *)
(***************************************************************************)
EXTENDS AtomicFile, TLAPS

LEMMA InitAInv == Init => AInv
<1> SUFFICES ASSUME Init PROVE AInv
    OBVIOUS
<1>1. found \in Documents /\ Torn \notin Documents
    BY DocumentsAssumption DEF Init
<1>2. TypeOK
    BY <1>1 DEF Init, TypeOK, File, Jobs, Empty, Calls, Permissions
<1>3. TempSoFar /\ CallerSoFar
    BY DEF Init, TempSoFar, CallerSoFar, Calls
<1>4. AlwaysWhole /\ PermissionsKept
    BY DEF Init, AlwaysWhole, PermissionsKept
<1> QED
    BY <1>2, <1>3, <1>4 DEF AInv

-----------------------------------------------------------------------------
(* One lemma for each group of steps. *)

LEMMA BeginAInv == AInv /\ Begin => AInv'
BY DEF AInv, Begin, TypeOK, TempSoFar, CallerSoFar, AlwaysWhole, PermissionsKept,
       File, Jobs, Calls, Permissions

LEMMA WriteOriginalAInv ==
    ASSUME AInv, WriteOriginal, temp' \in {temp, Empty},
           config.doc = job.original \/ job.kind = "apply",
           answer' \in {"none", "ok", "error"}, pc # "idle",
           UNCHANGED <<config, stable, found, statFailed>>
    PROVE  AInv'
<1> USE DEF AInv, WriteOriginal, TypeOK, File, Jobs
<1>1. job' \in Jobs /\ job'.kind = job.kind /\ job'.kept = job.kept /\ job'.original = job.original
    OBVIOUS
<1>2. pc' = "create" /\ temp' \in File
    <2>1. Empty \in File
        BY DEF Empty, Permissions
    <2>2. temp \in File
        OBVIOUS
    <2> QED
        BY <2>1, <2>2
<1>3. TypeOK'
    BY <1>1, <1>2 DEF Calls
<1>4. TempSoFar' /\ CallerSoFar'
    BY <1>1, <1>2 DEF TempSoFar, CallerSoFar, Calls
<1>5. AlwaysWhole' /\ PermissionsKept'
    BY DEF AlwaysWhole, PermissionsKept
<1> QED
    BY <1>3, <1>4, <1>5

LEMMA FailsAInv == AInv /\ CallFails => AInv'
<1> SUFFICES ASSUME AInv, CallFails PROVE AInv'
    OBVIOUS
<1>1. CASE job.kind = "persist" /\ ~job.again /\ WriteOriginal /\ UNCHANGED answer
    BY <1>1, WriteOriginalAInv DEF AInv, TypeOK, CallerSoFar, CallFails, Fails, Calls
<1>2. CASE pc' = "idle" /\ answer' = "error" /\ UNCHANGED job
    BY <1>2 DEF CallFails, Fails, AInv, TypeOK, TempSoFar, CallerSoFar, AlwaysWhole,
                PermissionsKept, File, Calls, Empty, Permissions
<1> QED
    BY <1>1, <1>2 DEF CallFails, Fails

LEMMA ApplyAInv == AInv /\ Apply => AInv'
<1> SUFFICES ASSUME AInv, Apply PROVE AInv'
    OBVIOUS
<1>1. CASE WriteOriginal
    BY <1>1, WriteOriginalAInv DEF Apply, AInv, TypeOK, CallerSoFar
<1>2. CASE pc' = "idle" /\ UNCHANGED <<job, answer>>
    BY <1>2 DEF Apply, AInv, TypeOK, TempSoFar, CallerSoFar, AlwaysWhole, PermissionsKept, Calls
<1> QED
    BY <1>1, <1>2 DEF Apply

LEMMA CallAInv ==
    AInv /\ (CreateTemp \/ Chmod \/ Chown \/ WriteContent \/ Sync \/ Close \/ Validate) => AInv'
<1> SUFFICES ASSUME AInv,
                    CreateTemp \/ Chmod \/ Chown \/ WriteContent \/ Sync \/ Close \/ Validate
             PROVE AInv'
    OBVIOUS
<1> USE DEF AInv, TypeOK, TempSoFar, CallerSoFar, AlwaysWhole, PermissionsKept,
            File, Jobs, Calls, Call, Permissions, Content
<1>1. CASE CreateTemp BY <1>1 DEF CreateTemp, Empty
<1>2. CASE Chmod BY <1>2 DEF Chmod
<1>3. CASE Chown BY <1>3 DEF Chown
<1>4. CASE WriteContent BY <1>4 DEF WriteContent
<1>5. CASE Sync BY <1>5 DEF Sync
<1>6. CASE Close BY <1>6 DEF Close
<1>7. CASE Validate BY <1>7 DEF Validate
<1> QED
    BY <1>1, <1>2, <1>3, <1>4, <1>5, <1>6, <1>7

LEMMA RenameAInv == AInv /\ Rename => AInv'
BY DEF AInv, Rename, Succeeds, TypeOK, TempSoFar, CallerSoFar, AlwaysWhole, PermissionsKept,
       File, Jobs, Calls, Empty, Permissions, Content

LEMMA EnvironmentAInv == AInv /\ (Writeback \/ Die \/ PowerFailure) => AInv'
<1> SUFFICES ASSUME AInv, Writeback \/ Die \/ PowerFailure PROVE AInv'
    OBVIOUS
<1> USE DEF AInv, TypeOK, TempSoFar, CallerSoFar, AlwaysWhole, PermissionsKept,
            File, Jobs, Calls, Empty, Permissions, Content
<1>1. CASE Writeback BY <1>1 DEF Writeback
<1>2. CASE Die BY <1>2 DEF Die, Forget
<1>3. CASE PowerFailure BY <1>3 DEF PowerFailure, Forget
<1> QED
    BY <1>1, <1>2, <1>3

(* Every moment of every write: the file in the making and the files under *)
(* the name config.json are as writeAtomic has brought them.               *)
THEOREM AInvariance == Spec => []AInv
<1>1. AInv /\ [Next]_vars => AInv'
    <2> SUFFICES ASSUME AInv, [Next]_vars PROVE AInv'
        OBVIOUS
    <2>1. CASE Next
        BY <2>1, BeginAInv, FailsAInv, ApplyAInv, CallAInv, RenameAInv, EnvironmentAInv
           DEF Next, WriteAtomic
    <2>2. CASE UNCHANGED vars
        BY <2>2 DEF vars, AInv, TypeOK, TempSoFar, CallerSoFar, AlwaysWhole, PermissionsKept,
                    Content
    <2> QED
        BY <2>1, <2>2
<1> QED
    BY InitAInv, <1>1, PTL DEF Spec

(* config.json is always one whole document that Xray accepted, or the one *)
(* the node came with, over any deaths and power failures (writeAtomic).   *)
THEOREM AlwaysWholeAlways == Spec => []AlwaysWhole
<1>1. AInv => AlwaysWhole
    BY DEF AInv
<1> QED
    BY <1>1, AInvariance, PTL

(* The file keeps its owner and mode unless os.Stat failed (fileOwnership, *)
(* writeAtomic).                                                           *)
THEOREM PermissionsKeptAlways == Spec => []PermissionsKept
<1>1. AInv => PermissionsKept
    BY DEF AInv
<1> QED
    BY <1>1, AInvariance, PTL

-----------------------------------------------------------------------------
(* The refinement, step by step.                                           *)

LEMMA InitReplace == Init => Replace!Init
BY DEF Init, Replace!Init, Wanted, Calls

LEMMA BeginReplace == AInv /\ Begin => Replace!Ask
BY DEF AInv, TypeOK, Begin, Replace!Ask, Wanted, Content, Calls, Jobs

LEMMA FailsReplace == AInv /\ CallFails => Replace!Refuse \/ UNCHANGED Replace!vars
<1> SUFFICES ASSUME AInv, CallFails PROVE Replace!Refuse \/ UNCHANGED Replace!vars
    OBVIOUS
<1>1. Wanted # None
    BY DocumentsAssumption DEF AInv, TypeOK, CallFails, Wanted, Content, Jobs
<1>2. CASE job.kind = "persist" /\ ~job.again
    BY <1>2 DEF CallFails, Fails, WriteOriginal, Replace!vars, Wanted, Calls, AInv, TypeOK, Jobs
<1>3. CASE ~(job.kind = "persist" /\ ~job.again)
    BY <1>1, <1>3 DEF CallFails, Fails, Replace!Refuse, Wanted, Calls
<1> QED
    BY <1>2, <1>3

LEMMA ApplyReplace == AInv /\ Apply => Replace!Ask \/ UNCHANGED Replace!vars
BY DEF AInv, TypeOK, CallerSoFar, Apply, WriteOriginal, Replace!Ask, Replace!vars, Wanted,
       Content, Calls, Jobs

LEMMA CallReplace ==
    AInv /\ (CreateTemp \/ Chmod \/ Chown \/ WriteContent \/ Sync \/ Close \/ Validate)
        => UNCHANGED Replace!vars
BY DEF CreateTemp, Chmod, Chown, WriteContent, Sync, Close, Validate, Call, Replace!vars,
       Wanted, Content, Calls

LEMMA RenameReplace == AInv /\ Rename => Replace!Replace \/ Replace!Refuse
<1> SUFFICES ASSUME AInv, Rename PROVE Replace!Replace \/ Replace!Refuse
    OBVIOUS
<1>1. Wanted # None /\ Wanted' = None
    BY DocumentsAssumption DEF AInv, TypeOK, Rename, Succeeds, Wanted, Content, Jobs, Calls
<1>2. config'.doc = Content /\ stable'.doc = stable.doc
    BY DEF AInv, TempSoFar, Rename
<1>3. CASE job.kind = "persist" /\ job.again
    BY <1>1, <1>2, <1>3 DEF AInv, CallerSoFar, Rename, Succeeds, Replace!Refuse, Content, Calls
<1>4. CASE ~(job.kind = "persist" /\ job.again)
    BY <1>1, <1>2, <1>4 DEF AInv, TypeOK, Jobs, Rename, Succeeds, Replace!Replace, Wanted, Content, Calls
<1> QED
    BY <1>3, <1>4

LEMMA EnvironmentReplace ==
    AInv /\ (Writeback \/ Die \/ PowerFailure)
        => Replace!Flush \/ Replace!Crash \/ Replace!PowerFailure
<1> SUFFICES ASSUME AInv, Writeback \/ Die \/ PowerFailure
             PROVE Replace!Flush \/ Replace!Crash \/ Replace!PowerFailure
    OBVIOUS
<1>1. CASE Writeback BY <1>1 DEF Writeback, Replace!Flush, Wanted, Content
<1>2. CASE Die BY <1>2 DEF Die, Forget, Replace!Crash, Wanted, Calls
<1>3. CASE PowerFailure
    BY <1>3 DEF AInv, AlwaysWhole, PowerFailure, Forget, Replace!PowerFailure, Wanted, Calls
<1> QED
    BY <1>1, <1>2, <1>3

(* Seen from the callers, config.json is replaced whole or left alone, and *)
(* every answer says which (writeAtomic, persist, persistAndApply).        *)
THEOREM FileImplementsReplace == Spec => ReplaceImplemented
<1>1. AInv /\ [Next]_vars => [Replace!Next]_(Replace!vars)
    <2> SUFFICES ASSUME AInv, [Next]_vars PROVE [Replace!Next]_(Replace!vars)
        OBVIOUS
    <2>1. CASE Next
        BY <2>1, BeginReplace, FailsReplace, ApplyReplace, CallReplace, RenameReplace,
           EnvironmentReplace
           DEF Next, WriteAtomic, Replace!Next
    <2>2. CASE UNCHANGED vars
        BY <2>2 DEF vars, Replace!vars, Wanted, Content
    <2> QED
        BY <2>1, <2>2
<1> QED
    BY InitReplace, <1>1, AInvariance, PTL DEF Spec, ReplaceImplemented, Replace!Spec
=============================================================================
