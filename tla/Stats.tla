------------------------------- MODULE Stats -------------------------------
(***************************************************************************)
(* GET /api/stats: the byte counters of Xray, `xray api statsquery` with   *)
(* and without -reset (xrayapi.go), the handler (server.go), and what its  *)
(* callers make of the numbers.  The counters live in the Xray process.    *)
(* A call that the caller has given up goes on and may still reset them;   *)
(* so may a command that was killed after 15 s.                            *)
(***************************************************************************)
EXTENDS Integers, FiniteSetsExt

CONSTANTS Users,        \* names with traffic
          Pollers,      \* callers of /api/stats
          Resetting,    \* those that call it with ?reset=1
          Goroutines,
          MaxBytes,     \* bound on the bytes of a counter over a behaviour
          Nobody

ASSUME StatsAssumption ==
    /\ IsFiniteSet(Pollers) /\ IsFiniteSet(Goroutines)
    /\ Resetting \subseteq Pollers /\ MaxBytes \in Nat /\ Nobody \notin Pollers

VARIABLES counter,    \* Xray's counters
          enabled,    \* s.liveAPI is there
          caller,     \* whose call a goroutine serves
          pc,         \* where it is
          heard,      \* its caller still waits
          result,     \* what statsquery returned
          last,       \* the counters each poller saw last
          total,      \* what each poller has added up
          traffic,    \* history: the bytes that went through
          lost        \* history: bytes reset or dropped and told to nobody

vars == <<counter, enabled, caller, pc, heard, result, last, total, traffic, lost>>

-----------------------------------------------------------------------------
Counters == Users \X {"uplink", "downlink"}
Zero == [c \in Counters |-> 0]
Plus(f, g) == [c \in Counters |-> f[c] + g[c]]
AtMost(f, g) == \A c \in Counters : f[c] <= g[c]

Init ==
    /\ counter = Zero
    /\ enabled \in BOOLEAN
    /\ caller = [g \in Goroutines |-> Nobody]
    /\ pc = [g \in Goroutines |-> "idle"]
    /\ heard = [g \in Goroutines |-> FALSE]
    /\ result = [g \in Goroutines |-> Zero]
    /\ last = [p \in Pollers |-> Zero]
    /\ total = [p \in Pollers |-> Zero]
    /\ traffic = Zero
    /\ lost = Zero

-----------------------------------------------------------------------------
(* Xray. *)

Flow ==
    /\ \E c \in Counters :
          /\ traffic[c] < MaxBytes
          /\ counter' = [counter EXCEPT ![c] = @ + 1]
          /\ traffic' = [traffic EXCEPT ![c] = @ + 1]
    /\ UNCHANGED <<enabled, caller, pc, heard, result, last, total, lost>>

XrayRestarts ==
    /\ counter' = Zero
    /\ lost' = Plus(lost, counter)
    /\ UNCHANGED <<enabled, caller, pc, heard, result, last, total, traffic>>

(* The stat document has the counters that have moved, under keys of four  *)
(* parts.                                                                  *)
StatQuery(values) == {[user |-> c[1], direction |-> c[2], value |-> values[c]] :
                         c \in {d \in Counters : values[d] # 0}}

(* Mutant: the two directions are crossed. *)
ParseUserTrafficCrossed(stat) ==
    [c \in Counters |->
        LET entries == {s \in stat : s.user = c[1] /\ s.direction # c[2]}
        IN  IF entries = {} THEN 0 ELSE (CHOOSE s \in entries : TRUE).value]

(* One entry a user that the document names; a direction it does not name  *)
(* is zero, and so, for the caller, is a user it does not name.            *)
ParseUserTraffic(stat) ==
    [c \in Counters |->
        LET entries == {s \in stat : s.user = c[1] /\ s.direction = c[2]}
        IN  IF entries = {} THEN 0 ELSE (CHOOSE s \in entries : TRUE).value]

-----------------------------------------------------------------------------
(* The handler. *)

(* Mutant: a reset parameter that is not understood. *)
ResetIgnored(g) == FALSE

Reset(g) == caller[g] \in Resetting

Waiting(p) == \E g \in Goroutines : caller[g] = p /\ heard[g]

(* Without the live API the answer is 501 and nothing else happens. *)
Ask(g, p) ==
    /\ pc[g] = "idle"
    /\ enabled
    /\ ~Waiting(p)
    /\ caller' = [caller EXCEPT ![g] = p]
    /\ pc' = [pc EXCEPT ![g] = "query"]
    /\ heard' = [heard EXCEPT ![g] = TRUE]
    /\ UNCHANGED <<counter, enabled, result, last, total, traffic, lost>>

Answered(g) ==
    /\ caller' = [caller EXCEPT ![g] = Nobody]
    /\ pc' = [pc EXCEPT ![g] = "idle"]
    /\ heard' = [heard EXCEPT ![g] = FALSE]
    /\ result' = [result EXCEPT ![g] = Zero]

Query(g) ==
    /\ pc[g] = "query"
    /\ result' = [result EXCEPT ![g] = ParseUserTraffic(StatQuery(counter))]
    /\ counter' = IF Reset(g) THEN Zero ELSE counter
    /\ pc' = [pc EXCEPT ![g] = "answer"]
    /\ UNCHANGED <<enabled, caller, heard, last, total, traffic, lost>>

(* The command fails, before Xray has reset the counters or after. *)
QueryFails(g) ==
    /\ pc[g] = "query"
    /\ \/ UNCHANGED <<counter, lost>>
       \/ Reset(g) /\ counter' = Zero /\ lost' = Plus(lost, counter)
    /\ Answered(g)
    /\ UNCHANGED <<enabled, last, total, traffic>>

(* The caller adds up the deltas it is given, or differences of what it    *)
(* sees, where a decrease means that the counter has started afresh.       *)
Since(old, new) == [c \in Counters |-> IF new[c] < old[c] THEN new[c] ELSE new[c] - old[c]]

Deliver(g) ==
    LET p == caller[g]
    IN  /\ pc[g] = "answer"
        /\ heard[g]
        /\ total' = [total EXCEPT ![p] =
                       Plus(@, IF p \in Resetting THEN result[g] ELSE Since(last[p], result[g]))]
        /\ last' = [last EXCEPT ![p] = IF p \in Resetting THEN Zero ELSE result[g]]
        /\ Answered(g)
        /\ UNCHANGED <<counter, enabled, traffic, lost>>

(* An answer nobody waits for. *)
Drop(g) ==
    /\ pc[g] = "answer"
    /\ ~heard[g]
    /\ lost' = IF caller[g] \in Resetting THEN Plus(lost, result[g]) ELSE lost
    /\ Answered(g)
    /\ UNCHANGED <<counter, enabled, last, total, traffic>>

GiveUp(g) ==
    /\ heard[g]
    /\ heard' = [heard EXCEPT ![g] = FALSE]
    /\ UNCHANGED <<counter, enabled, caller, pc, result, last, total, traffic, lost>>

Next ==
    \/ Flow \/ XrayRestarts
    \/ \E g \in Goroutines :
          \/ \E p \in Pollers : Ask(g, p)
          \/ Query(g) \/ QueryFails(g) \/ Deliver(g) \/ Drop(g) \/ GiveUp(g)

Spec == Init /\ [][Next]_vars

-----------------------------------------------------------------------------
(* Properties. *)

(* Every byte is with exactly one owner: still in Xray, on its way to a    *)
(* caller that asked with reset, added up by one of them, or lost; so with *)
(* any number of resetting callers none is counted twice (UserTraffic).    *)
UnderWay == {g \in Goroutines : pc[g] = "answer" /\ caller[g] \in Resetting}
SumOver(f, S) == MapThenSumSet(LAMBDA x : f[x], S)

EveryByteOnce ==
    \A c \in Counters :
        traffic[c] = counter[c] + lost[c]
                        + SumOver([g \in Goroutines |-> result[g][c]], UnderWay)
                        + SumOver([p \in Pollers |-> total[p][c]], Resetting)

(* A caller that never resets and reads a decrease as a new start counts   *)
(* no byte that was not there, over restarts of Xray, resets by others and *)
(* lost answers (stats).                                                   *)
NeverOvercounts == \A p \in Pollers : AtMost(total[p], traffic)

-----------------------------------------------------------------------------
(* The inductive invariant behind NeverOvercounts; with EveryByteOnce it   *)
(* is inductive for that as well.                                          *)

Bytes == [Counters -> Nat]

StatsTypeOK ==
    /\ counter \in Bytes /\ traffic \in Bytes /\ lost \in Bytes
    /\ caller \in [Goroutines -> Pollers \cup {Nobody}]
    /\ pc \in [Goroutines -> {"idle", "query", "answer"}]
    /\ heard \in [Goroutines -> BOOLEAN]
    /\ result \in [Goroutines -> Bytes]
    /\ last \in [Pollers -> Bytes]
    /\ total \in [Pollers -> Bytes]

(* A poller waits for one call at a time. *)
OneCallEach ==
    /\ \A g \in Goroutines :
          /\ pc[g] # "idle" => caller[g] \in Pollers
          /\ heard[g] => pc[g] # "idle"
    /\ \A g, h \in Goroutines :
          heard[g] /\ heard[h] /\ caller[g] = caller[h] => g = h

(* What a poller keeps of an answer to compare the next one with. *)
Remembered(p, answer) == IF p \in Resetting THEN Zero ELSE answer

(* What a poller has added up covers, with what it would add if it were    *)
(* told the counters now, no more than there was; and still does once the  *)
(* answer that is on its way has been added, late as it may come.          *)
Credit ==
    /\ \A p \in Resetting : last[p] = Zero
    /\ \A p \in Pollers : AtMost(Plus(total[p], Since(last[p], counter)), traffic)
    /\ \A g \in Goroutines :
          LET p == caller[g]
          IN  heard[g] /\ pc[g] = "answer" =>
                AtMost(Plus(Plus(total[p], Since(last[p], result[g])),
                            Since(Remembered(p, result[g]), counter)), traffic)

(* No restart of Xray, reset by another caller, late answer or lost one    *)
(* makes a poller's sum run ahead of the bytes there were (stats).         *)
StatsInv == StatsTypeOK /\ OneCallEach /\ Credit
=============================================================================
