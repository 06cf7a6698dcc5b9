------------------------- MODULE KeyedOperationQueue -------------------------
(***************************************************************************)
(* The queue that session repositories put in front of their storage       *)
(* (packages/agent/src/harness/session/keyed-operation-queue.ts).          *)
(*                                                                         *)
(* Operations on the same key run one after the other in the order they    *)
(* were enqueued, operations on different keys run concurrently up to a    *)
(* number of permits, and a barrier operation runs alone.  The queue is a  *)
(* web of promises: an operation awaits the promises it found in tails and *)
(* barrier when it was enqueued.  A promise is identified here with the    *)
(* operation that settles it; an operation that throws settles like one    *)
(* that returns.  A queue without limit has as many permits as operations. *)
(* Operations do not enqueue operations on the queue that runs them.       *)
(***************************************************************************)
EXTENDS Naturals, FiniteSets, Sequences

CONSTANTS Jobs,           \* operations
          Keys,
          MaxConcurrent,  \* maxConcurrentOperations
          Barrier,        \* stands for the key of a barrier operation
          None            \* a promise that was settled from the start

ASSUME QueueConstants ==
    /\ IsFiniteSet(Jobs)
    /\ MaxConcurrent \in Nat \ {0}
    /\ Barrier \notin Keys
    /\ None \notin Jobs

VARIABLES
    state,    \* where an operation is
    key,      \* its key
    earlier,  \* the operations enqueued before it
    awaits,   \* the promises it awaits
    tails,    \* key -> the promise of its last operation
    barrier,  \* the promise of the last barrier operation
    active,   \* activeOperations
    waiters,  \* permitWaiters
    drain     \* a call of drain: its state, what it awaits, what was enqueued

promises == <<key, earlier, awaits, tails, barrier>>
permits == <<active, waiters>>
vars == <<state, promises, permits, drain>>

----------------------------------------------------------------------------
States == {"new", "waiting", "queued", "running", "done"}
Enqueued == {j \in Jobs : state[j] # "new"}
Settled(S) == \A j \in S : state[j] = "done"

TypeOK ==
    /\ state \in [Jobs -> States]
    /\ key \in [Jobs -> Keys \cup {Barrier}]
    /\ earlier \in [Jobs -> SUBSET Jobs]
    /\ awaits \in [Jobs -> SUBSET Jobs]
    /\ tails \in [Keys -> Jobs \cup {None}]
    /\ barrier \in Jobs \cup {None}
    /\ active \in 0..MaxConcurrent
    /\ waiters \in Seq(Jobs)
    /\ drain \in [state : {"idle", "waiting", "done"}, awaits : SUBSET Jobs, scope : SUBSET Jobs]

Init ==
    /\ state = [j \in Jobs |-> "new"]
    /\ key = [j \in Jobs |-> Barrier]
    /\ earlier = [j \in Jobs |-> {}]
    /\ awaits = [j \in Jobs |-> {}]
    /\ tails = [k \in Keys |-> None]
    /\ barrier = None
    /\ active = 0
    /\ waiters = <<>>
    /\ drain = [state |-> "idle", awaits |-> {}, scope |-> {}]

----------------------------------------------------------------------------
\* The operation is constructed, and awaits the given promises.
Construct(j, k, found) ==
    /\ state[j] = "new"
    /\ state' = [state EXCEPT ![j] = "waiting"]
    /\ key' = [key EXCEPT ![j] = k]
    /\ earlier' = [earlier EXCEPT ![j] = Enqueued]
    /\ awaits' = [awaits EXCEPT ![j] = found \ {None}]

\* enqueue
Enqueue(j, k) ==
    /\ Construct(j, k, {barrier, tails[k]})
    /\ tails' = [tails EXCEPT ![k] = j]
    /\ UNCHANGED <<barrier, permits, drain>>

\* enqueueBarrier
EnqueueBarrier(j) ==
    /\ Construct(j, Barrier, {barrier} \cup {tails[k] : k \in Keys})
    /\ barrier' = j
    /\ UNCHANGED <<tails, permits, drain>>

\* acquirePermit
AcquirePermit(j) ==
    IF active < MaxConcurrent
      THEN /\ active' = active + 1
           /\ state' = [state EXCEPT ![j] = "running"]
           /\ UNCHANGED waiters
      ELSE /\ waiters' = Append(waiters, j)
           /\ state' = [state EXCEPT ![j] = "queued"]
           /\ UNCHANGED active

\* The promises the operation awaits are settled: runOperation.
RunOperation(j) ==
    /\ state[j] = "waiting"
    /\ Settled(awaits[j])
    /\ AcquirePermit(j)
    /\ UNCHANGED <<promises, drain>>

\* Mutant: the permit is given back without waking a waiter.
ReleaseWithoutHandover(j) ==
    /\ state[j] = "running"
    /\ state' = [state EXCEPT ![j] = "done"]
    /\ active' = active - 1
    /\ UNCHANGED <<waiters, promises, drain>>

\* The operation returns or throws, and releasePermit hands its permit to the
\* first waiter or gives it back.
Settle(j) ==
    /\ state[j] = "running"
    /\ \/ /\ waiters # <<>>
          /\ state' = [state EXCEPT ![j] = "done", ![Head(waiters)] = "running"]
          /\ waiters' = Tail(waiters)
          /\ UNCHANGED active
       \/ /\ waiters = <<>>
          /\ state' = [state EXCEPT ![j] = "done"]
          /\ active' = active - 1
          /\ UNCHANGED waiters
    /\ UNCHANGED <<promises, drain>>

\* Mutant: the entry of the key is deleted whoever is the tail now.
ForgetAnyTail(k) ==
    /\ \E j \in Jobs : state[j] = "done" /\ key[j] = k
    /\ tails' = [tails EXCEPT ![k] = None]
    /\ UNCHANGED <<state, key, earlier, awaits, barrier, permits, drain>>

\* The cleanup of a settled tail that is still the tail of its key.
ForgetTail(k) ==
    /\ tails[k] # None
    /\ state[tails[k]] = "done"
    /\ tails' = [tails EXCEPT ![k] = None]
    /\ UNCHANGED <<state, key, earlier, awaits, barrier, permits, drain>>

\* drain awaits what is there when it is called.
Drain ==
    /\ drain.state = "idle"
    /\ drain' = [state |-> "waiting",
                 awaits |-> ({barrier} \cup {tails[k] : k \in Keys}) \ {None},
                 scope |-> Enqueued]
    /\ UNCHANGED <<state, promises, permits>>

DrainReturns ==
    /\ drain.state = "waiting"
    /\ Settled(drain.awaits)
    /\ drain' = [drain EXCEPT !.state = "done"]
    /\ UNCHANGED <<state, promises, permits>>

Next ==
    \/ \E j \in Jobs : \/ \E k \in Keys : Enqueue(j, k)
                       \/ EnqueueBarrier(j) \/ RunOperation(j) \/ Settle(j)
    \/ \E k \in Keys : ForgetTail(k)
    \/ Drain \/ DrainReturns

Spec == Init /\ [][Next]_vars

\* Promise callbacks run, and the operations themselves end.
LiveSpec ==
    /\ Spec
    /\ \A j \in Jobs : WF_vars(RunOperation(j)) /\ WF_vars(Settle(j))
    /\ WF_vars(DrainReturns)

----------------------------------------------------------------------------
(* Properties *)

Conflict(i, j) == key[i] = key[j] \/ key[i] = Barrier \/ key[j] = Barrier
Started == {j \in Jobs : state[j] \in {"queued", "running", "done"}}
Running == {j \in Jobs : state[j] = "running"}

\* An operation starts only after every operation enqueued before it on the
\* same key, and on either side of a barrier, has settled: the order of enqueue
\* is kept where it matters (enqueue, enqueueBarrier).
Serialised ==
    \A j \in Started : \A i \in earlier[j] : Conflict(i, j) => state[i] = "done"

\* Two operations that run at the same time have different keys, and neither
\* is a barrier operation.
Exclusive == \A i, j \in Running : i # j => ~Conflict(i, j)

\* Permits are neither lost nor invented across waiting and handover: the
\* operations running are exactly the permits taken, and somebody waits only
\* when all are taken (acquirePermit, releasePermit).
PermitsConserved ==
    /\ Cardinality(Running) = active
    /\ active <= MaxConcurrent
    /\ waiters # <<>> => active = MaxConcurrent

\* When drain returns, everything enqueued before it was called has settled.
DrainComplete == drain.state = "done" => Settled(drain.scope)

\* Every enqueued operation is run to its end, whatever it waits for: the operations
\* before it, a barrier, a permit.
JobsSettle == \A j \in Jobs : state[j] = "waiting" ~> state[j] = "done"

----------------------------------------------------------------------------
(* The inductive invariant behind Serialised, Exclusive and DrainComplete: *)
(* whatever an operation must wait for is settled, is among the promises it *)
(* awaits, or comes before one of those                                    *)

\* i has settled, or one of the promises in S settles only after it.
Guarded(i, S) ==
    \/ state[i] = "done"
    \/ i \in S
    \/ \E w \in S : i \in earlier[w] /\ Conflict(i, w)

\* Each waiter is an operation queued for a permit, and waits once.
WaitersQueued ==
    /\ \A n \in DOMAIN waiters : state[waiters[n]] = "queued"
    /\ \A n, m \in DOMAIN waiters : n # m => waiters[n] # waiters[m]

OrderKept ==
    /\ \A j \in Jobs : earlier[j] \subseteq Enqueued /\ awaits[j] \subseteq Enqueued
    /\ \A i, j \in Enqueued : i = j \/ i \in earlier[j] \/ j \in earlier[i]
    /\ \A k \in Keys : tails[k] \in Enqueued \cup {None}
    /\ barrier \in Enqueued \cup {None}
    /\ barrier # None => key[barrier] = Barrier
    /\ \A k \in Keys : tails[k] # None => key[tails[k]] = k

FindsEverything ==
    \A i \in Enqueued : IF key[i] = Barrier
                          THEN Guarded(i, {barrier} \ {None})
                          ELSE Guarded(i, {tails[key[i]]} \ {None})

AwaitsEverything ==
    \A j \in Enqueued : \A i \in earlier[j] : Conflict(i, j) => Guarded(i, awaits[j])

DrainAwaitsEverything ==
    drain.state # "idle" =>
        /\ drain.awaits \subseteq Enqueued /\ drain.scope \subseteq Enqueued
        /\ \A i \in drain.scope : Guarded(i, drain.awaits)

QueueInv ==
    /\ TypeOK /\ PermitsConserved /\ WaitersQueued /\ OrderKept
    /\ FindsEverything /\ AwaitsEverything /\ Serialised /\ DrainAwaitsEverything

\* The enqueued operations stand in a line, an operation awaits only operations
\* before it, and one that is queued for a permit is among the waiters.
Lined ==
    /\ \A j \in Jobs : awaits[j] \subseteq earlier[j] /\ j \notin earlier[j]
    /\ \A j \in Jobs : \A i \in earlier[j] : earlier[i] \subseteq earlier[j]
    /\ \A j \in Jobs : state[j] = "queued" => \E n \in DOMAIN waiters : waiters[n] = j

\* The operation can be started or ended.
Able(j) ==
    \/ state[j] = "running"
    \/ state[j] = "waiting" /\ Settled(awaits[j])

\* As long as an enqueued operation has not settled, some operation can go on:
\* never does everybody wait for somebody else or for a permit.
NeverStuck == (\E j \in Enqueued : state[j] # "done") => \E j \in Jobs : Able(j)
=============================================================================
