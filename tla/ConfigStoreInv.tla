--------------------------- MODULE ConfigStoreInv ---------------------------
(***************************************************************************)
(* The inductive invariant behind the safety properties of ConfigStore.    *)
(***************************************************************************)
EXTENDS ConfigStore

Mutating == {"write", "apply", "restart", "restore", "rerestart"}

(* The mutex is held exactly by the handler inside persistAndApply, and    *)
(* only it has a mutation under way.                                       *)
Mutex ==
    \A h \in Handlers : /\ pc[h] \in Mutating <=> lock = h
                        /\ lock # h => work[h] = NoWork

(* Every inbound has one and the same well-formed list. *)
Uniform(roster) == /\ WellFormed(roster[Primary])
                   /\ \A t \in Inbounds : roster[t] = roster[Primary]

(* The users a mutation keeps. *)
Kept(w) == Without(w.original[Primary], w.removed)

(* The delta describes the rewrite, and added users are new in every way.  *)
(* A mutation that both removes and adds adds under the names it removes.  *)
Sound(w) ==
    /\ Uniform(w.original)
    /\ Uniform(w.updated)
    /\ w.updated[Primary] = Kept(w) \cup w.added
    /\ w.removed = {} \/ NamesOf(w.added) \subseteq w.removed
    /\ IdsOf(w.added) \subseteq issued \ revoked
    /\ IdsOf(w.original[Primary]) \subseteq issued \ revoked

(* What applyLive has to do before its first call, and at any later one. *)
Untouched(w) ==
    /\ w.toRemove = IF w.removed = {} THEN {} ELSE Present
    /\ w.toAdd = IF w.added = {} THEN {} ELSE Present

Remaining(w) ==
    /\ w.added = {} => w.toAdd = {}
    /\ w.toRemove # {} => w.added = {} \/ w.toAdd = Present

FileOf(h) == IF pc[h] \in {"write", "rerestart"} THEN work[h].original ELSE work[h].updated

WorkInv ==
    \A h \in Handlers : lock = h =>
        /\ Sound(work[h])
        /\ pc[h] = "write" => Untouched(work[h])
        /\ Remaining(work[h])
        /\ file = FileOf(h)

FileInv ==
    /\ Uniform(file)
    /\ IdsOf(file[Primary]) \subseteq issued \ revoked
    /\ revoked \subseteq issued

(* Where Xray can be while a mutation is applied: every inbound has all    *)
(* users that are kept, and beyond them all have old users only, or all    *)
(* have new users only.                                                    *)
Between(lower, roster) ==
    \A t \in Inbounds : lower \subseteq live[t] /\ live[t] \subseteq roster[Primary]

Midway(w) == Between(Kept(w), w.original) \/ Between(Kept(w), w.updated)

(* What the calls applyLive has made are good for. *)
Done(w) ==
    \A s \in Present :
        /\ s \notin w.toRemove => live[TagOf(s)] \subseteq w.updated[Primary]
        /\ s \notin w.toAdd => w.added \subseteq live[TagOf(s)]

LiveInv ==
    /\ xray # "up" => live = NoUsers
    /\ xray = "up" /\ ~adrift =>
          /\ lock = Free => live = file
          /\ \A h \in Handlers : lock = h =>
                /\ pc[h] = "write" => live = file
                /\ Midway(work[h])
                /\ pc[h] = "apply" => Done(work[h])

(* The mutex excludes, the mutation under way is sound, the file is well   *)
(* formed and uniform, and Xray is where the mutation has brought it       *)
(* (persistAndApply, applyLive).                                           *)
IInv == Mutex /\ WorkInv /\ FileInv /\ LiveInv

(* The part of it that only looks at the primary inbound, and that holds   *)
(* in a process whose mirrors are off parity too.                          *)
CoreInv ==
    /\ Mutex
    /\ \A h \in Handlers : lock = h => file = FileOf(h)
    /\ IdsOf(file[Primary]) \cup revoked \subseteq issued
=============================================================================
