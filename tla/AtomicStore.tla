---------------------------- MODULE AtomicStore ----------------------------
(***************************************************************************)
(* What the transaction layer of a research project promises its callers:  *)
(* a store of files with a revision, in which a submitted transaction is   *)
(* applied in one step, completely and only to the contents and revision   *)
(* its caller saw, or is never visible at all.                             *)
(***************************************************************************)
EXTENDS Naturals

CONSTANTS Paths, Contents, Tx

VARIABLES store,     \* path -> content
          revision,  \* number of transactions applied
          before,    \* contents the submitter of a transaction saw
          after,     \* contents it asked for
          outcome    \* fate of each transaction

storeVars == <<store, revision, before, after, outcome>>

Init ==
    /\ store \in [Paths -> Contents]
    /\ revision = 0
    /\ before \in [Tx -> [Paths -> Contents]]
    /\ after \in [Tx -> [Paths -> Contents]]
    /\ outcome = [t \in Tx |-> "none"]

Submit(t) ==
    /\ outcome[t] = "none"
    /\ before' = [before EXCEPT ![t] = store]
    /\ \E contents \in [Paths -> Contents] : after' = [after EXCEPT ![t] = contents]
    /\ outcome' = [outcome EXCEPT ![t] = "submitted"]
    /\ UNCHANGED <<store, revision>>

Apply(t) ==
    /\ outcome[t] = "submitted"
    /\ store = before[t]
    /\ store' = after[t]
    /\ revision' = revision + 1
    /\ outcome' = [outcome EXCEPT ![t] = "applied"]
    /\ UNCHANGED <<before, after>>

Abort(t) ==
    /\ outcome[t] = "submitted"
    /\ outcome' = [outcome EXCEPT ![t] = "aborted"]
    /\ UNCHANGED <<store, revision, before, after>>

Next == \E t \in Tx : Submit(t) \/ Apply(t) \/ Abort(t)

Spec == Init /\ [][Next]_storeVars
=============================================================================
