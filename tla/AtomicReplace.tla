---------------------------- MODULE AtomicReplace ----------------------------
(***************************************************************************)
(* What the store relies on when it writes config.json: the file is        *)
(* replaced whole or left alone, the caller is told which, and a failure   *)
(* of the power brings back a whole file: the last one, or the last one    *)
(* that had reached the disk under its name.                               *)
(***************************************************************************)
CONSTANTS Documents,  \* contents of config.json
          None        \* no write under way

VARIABLES document,   \* what config.json holds
          flushed,    \* what it holds on the disk for certain
          wanted,     \* the document being written, or None
          answer      \* how the last write ended

vars == <<document, flushed, wanted, answer>>

Init == /\ document \in Documents
        /\ flushed = document
        /\ wanted = None
        /\ answer = "none"

Ask == /\ wanted = None
       /\ wanted' \in Documents
       /\ answer' = "none"
       /\ UNCHANGED <<document, flushed>>

Replace == /\ wanted # None
           /\ document' = wanted
           /\ wanted' = None
           /\ answer' = "ok"
           /\ UNCHANGED flushed

Refuse == /\ wanted # None
          /\ wanted' = None
          /\ answer' = "error"
          /\ UNCHANGED <<document, flushed>>

Flush == flushed' = document /\ UNCHANGED <<document, wanted, answer>>

Crash == /\ wanted' = None
         /\ answer' = "none"
         /\ UNCHANGED <<document, flushed>>

PowerFailure == /\ document' \in {document, flushed}
                /\ flushed' = document'
                /\ wanted' = None
                /\ answer' = "none"

Next == Ask \/ Replace \/ Refuse \/ Flush \/ Crash \/ PowerFailure

Spec == Init /\ [][Next]_vars
=============================================================================
