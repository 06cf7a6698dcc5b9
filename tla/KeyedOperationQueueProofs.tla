---------------------- MODULE KeyedOperationQueueProofs ----------------------
(***************************************************************************)
(* Proofs about KeyedOperationQueue for any finite set of operations, any  *)
(* keys and any number of permits.                                         *)
(***************************************************************************)
EXTENDS KeyedOperationQueue, FiniteSetTheorems, SequenceTheorems, TLAPS

\* Among subsets of a finite set one is smallest.
LEMMA SmallestSubset ==
    ASSUME NEW S, IsFiniteSet(S), NEW B \in SUBSET (SUBSET S), B # {}
    PROVE  \E T \in B : \A U \in B : U \subseteq T => U = T
<1>1. SUBSET S = FiniteSubsetsOf(S)
    BY FS_Subset DEF FiniteSubsetsOf
<1>2. IsWellFoundedOn(StrictSubsetOrdering(S), FiniteSubsetsOf(S))
    BY FS_StrictSubsetOrderingWellFounded, Zenon
<1>3. B \subseteq FiniteSubsetsOf(S)
    BY <1>1
<1>4. PICK T \in B : \A U \in B : <<U, T>> \notin StrictSubsetOrdering(S)
    BY <1>2, <1>3, WFMin, Zenon
<1> QED
    BY <1>4 DEF StrictSubsetOrdering

USE QueueConstants DEF States

\* The queue starts out empty.
LEMMA QueueInit == Init => QueueInv
<1> SUFFICES ASSUME Init PROVE QueueInv
    OBVIOUS
<1>1. Running = {}
    BY DEF Init, Running
<1>2. PermitsConserved
    BY <1>1, FS_EmptySet DEF Init, PermitsConserved
<1> QED
    BY <1>2 DEF Init, QueueInv, TypeOK, WaitersQueued, OrderKept, Enqueued, FindsEverything,
                AwaitsEverything, Serialised, Started, DrainAwaitsEverything

\* Types are kept.
LEMMA QueueTypes == TypeOK /\ WaitersQueued /\ PermitsConserved /\ [Next]_vars => TypeOK'
<1> SUFFICES ASSUME TypeOK, WaitersQueued, PermitsConserved, [Next]_vars PROVE TypeOK'
    OBVIOUS
<1> USE DEF TypeOK, promises, permits
<1>1. ASSUME NEW j \in Jobs, NEW k \in Keys, Enqueue(j, k) PROVE TypeOK'
    BY <1>1 DEF Enqueue, Construct, Enqueued
<1>2. ASSUME NEW j \in Jobs, EnqueueBarrier(j) PROVE TypeOK'
    BY <1>2 DEF EnqueueBarrier, Construct, Enqueued
<1>3. ASSUME NEW j \in Jobs, RunOperation(j) PROVE TypeOK'
    <2>1. CASE active < MaxConcurrent
        BY <1>3, <2>1 DEF RunOperation, AcquirePermit
    <2>2. CASE ~(active < MaxConcurrent)
        <3>1. Append(waiters, j) \in Seq(Jobs)
            BY AppendProperties
        <3>2. waiters' = Append(waiters, j) /\ state' = [state EXCEPT ![j] = "queued"]
            BY <1>3, <2>2 DEF RunOperation, AcquirePermit
        <3> QED
            BY <1>3, <2>2, <3>1, <3>2 DEF RunOperation, AcquirePermit
    <2> QED
        BY <2>1, <2>2
<1>4. ASSUME NEW j \in Jobs, Settle(j) PROVE TypeOK'
    <2>1. CASE waiters # <<>>
        <3>1. Head(waiters) \in Jobs /\ Tail(waiters) \in Seq(Jobs)
            BY <2>1, HeadTailProperties
        <3> QED
            BY <1>4, <2>1, <3>1 DEF Settle
    <2>2. CASE waiters = <<>>
        <3>1. Running # {} /\ IsFiniteSet(Running)
            BY <1>4, FS_Subset DEF Settle, Running
        <3>2. active # 0
            BY <3>1, FS_EmptySet DEF PermitsConserved
        <3> QED
            BY <1>4, <2>2, <3>2 DEF Settle
    <2> QED
        BY <2>1, <2>2
<1>5. ASSUME NEW k \in Keys, ForgetTail(k) PROVE TypeOK'
    BY <1>5 DEF ForgetTail
<1>6. CASE Drain
    BY <1>6 DEF Drain, Enqueued
<1>7. CASE DrainReturns
    BY <1>7 DEF DrainReturns
<1>8. CASE UNCHANGED vars
    BY <1>8 DEF vars
<1> QED
    BY <1>1, <1>2, <1>3, <1>4, <1>5, <1>6, <1>7, <1>8 DEF Next

\* The waiters stay the queued operations, each once.
LEMMA QueueWaiters == TypeOK /\ WaitersQueued /\ [Next]_vars => WaitersQueued'
<1> SUFFICES ASSUME TypeOK, WaitersQueued, [Next]_vars PROVE WaitersQueued'
    OBVIOUS
<1> USE DEF TypeOK, WaitersQueued, promises, permits
<1>1. ASSUME NEW j \in Jobs, NEW k \in Keys, Enqueue(j, k) PROVE WaitersQueued'
    BY <1>1 DEF Enqueue, Construct
<1>2. ASSUME NEW j \in Jobs, EnqueueBarrier(j) PROVE WaitersQueued'
    BY <1>2 DEF EnqueueBarrier, Construct
<1>3. ASSUME NEW j \in Jobs, RunOperation(j) PROVE WaitersQueued'
    <2>1. CASE active < MaxConcurrent
        BY <1>3, <2>1 DEF RunOperation, AcquirePermit
    <2>2. CASE ~(active < MaxConcurrent)
        <3>1. waiters' = Append(waiters, j) /\ state' = [state EXCEPT ![j] = "queued"]
              /\ state[j] = "waiting"
            BY <1>3, <2>2 DEF RunOperation, AcquirePermit
        <3>2. /\ DOMAIN waiters = 1..Len(waiters) /\ Len(waiters) \in Nat
              /\ DOMAIN waiters' = 1..(Len(waiters) + 1)
              /\ \A n \in 1..Len(waiters) : waiters'[n] = waiters[n]
              /\ waiters'[Len(waiters) + 1] = j
            BY <3>1, AppendProperties
        <3>3. \A n \in 1..Len(waiters) : waiters[n] # j /\ waiters[n] \in Jobs
            BY <3>1, <3>2
        <3> QED
            BY <3>1, <3>2, <3>3
    <2> QED
        BY <2>1, <2>2
<1>4. ASSUME NEW j \in Jobs, Settle(j) PROVE WaitersQueued'
    <2>1. CASE waiters # <<>>
        <3>1. /\ Head(waiters) = waiters[1] /\ Len(waiters) \in Nat \ {0}
              /\ Len(Tail(waiters)) = Len(waiters) - 1
              /\ \A n \in 1..Len(Tail(waiters)) : Tail(waiters)[n] = waiters[n + 1]
              /\ DOMAIN waiters = 1..Len(waiters)
              /\ DOMAIN Tail(waiters) = 1..Len(Tail(waiters))
            BY <2>1, HeadTailProperties
        <3>2. waiters' = Tail(waiters)
            BY <1>4, <2>1 DEF Settle
        <3>3. state' = [state EXCEPT ![j] = "done", ![waiters[1]] = "running"] /\ state[j] = "running"
            BY <1>4, <2>1, <3>1 DEF Settle
        <3>4. ASSUME NEW n \in 1..Len(Tail(waiters))
              PROVE /\ n + 1 \in DOMAIN waiters /\ 1 \in DOMAIN waiters
                    /\ waiters[n + 1] # waiters[1] /\ waiters[n + 1] # j
            BY <3>1, <3>3
        <3> QED
            BY <3>1, <3>2, <3>3, <3>4
    <2>2. CASE waiters = <<>>
        BY <1>4, <2>2 DEF Settle
    <2> QED
        BY <2>1, <2>2
<1>5. CASE UNCHANGED <<state, waiters>>
    BY <1>5
<1> QED
    BY <1>1, <1>2, <1>3, <1>4, <1>5 DEF Next, ForgetTail, Drain, DrainReturns, vars

\* What a step leaves alone: the promises of enqueued operations, and that
\* they have settled.
Frame ==
    /\ Enqueued \subseteq Enqueued'
    /\ \A i \in Enqueued : /\ key'[i] = key[i] /\ earlier'[i] = earlier[i]
                           /\ awaits'[i] = awaits[i]
                           /\ state[i] = "done" => state'[i] = "done"

\* A step hands a permit to a queued operation, and moves one operation.
LEMMA Handover ==
    ASSUME TypeOK, WaitersQueued, NEW j \in Jobs, Settle(j)
    PROVE  /\ state[j] = "running"
           /\ \/ state' = [state EXCEPT ![j] = "done"]
              \/ \E h \in Jobs : /\ state[h] = "queued"
                                /\ state' = [state EXCEPT ![j] = "done", ![h] = "running"]
<1>1. CASE waiters # <<>>
    <2>1. Head(waiters) \in Jobs /\ Head(waiters) = waiters[1] /\ 1 \in DOMAIN waiters
        BY <1>1, HeadTailProperties DEF TypeOK
    <2> QED
        BY <1>1, <2>1 DEF Settle, WaitersQueued
<1>2. CASE waiters = <<>>
    BY <1>2 DEF Settle
<1> QED
    BY <1>1, <1>2

\* Enqueued operations keep their promises.
LEMMA QueueFrame == TypeOK /\ WaitersQueued /\ [Next]_vars => Frame
<1> SUFFICES ASSUME TypeOK, WaitersQueued, [Next]_vars PROVE Frame
    OBVIOUS
<1> USE DEF TypeOK, Frame, Enqueued, promises, permits
<1>1. ASSUME NEW j \in Jobs, NEW k \in Keys, Enqueue(j, k) PROVE Frame
    BY <1>1 DEF Enqueue, Construct
<1>2. ASSUME NEW j \in Jobs, EnqueueBarrier(j) PROVE Frame
    BY <1>2 DEF EnqueueBarrier, Construct
<1>3. ASSUME NEW j \in Jobs, RunOperation(j) PROVE Frame
    BY <1>3 DEF RunOperation, AcquirePermit
<1>4. ASSUME NEW j \in Jobs, Settle(j) PROVE Frame
    BY <1>4, Handover DEF Settle
<1>5. CASE UNCHANGED <<state, key, earlier, awaits>>
    BY <1>5
<1> QED
    BY <1>1, <1>2, <1>3, <1>4, <1>5 DEF Next, ForgetTail, Drain, DrainReturns, vars

\* Guarded in the state after a step, by promises fixed before it.
GuardedAfter(i, S) ==
    \/ state'[i] = "done"
    \/ i \in S
    \/ \E w \in S : /\ i \in earlier'[w]
                    /\ key'[i] = key'[w] \/ key'[i] = Barrier \/ key'[w] = Barrier

\* An operation that is guarded by promises stays guarded by them.
LEMMA GuardedStays ==
    ASSUME TypeOK, OrderKept, Frame, NEW i \in Enqueued, NEW S \in SUBSET Enqueued, Guarded(i, S)
    PROVE  GuardedAfter(i, S)
BY DEF Guarded, GuardedAfter, Frame, Conflict

\* What guards an operation is settled only if the operation is.
LEMMA GuardedBySettled ==
    ASSUME TypeOK, Serialised, NEW i \in Jobs, NEW S \in SUBSET Jobs, Guarded(i, S), Settled(S)
    PROVE  state[i] = "done"
BY DEF Guarded, Settled, Serialised, Started, TypeOK

\* The enqueued operations stay in one order.
LEMMA QueueOrder == TypeOK /\ WaitersQueued /\ OrderKept /\ [Next]_vars => OrderKept'
<1> SUFFICES ASSUME TypeOK, WaitersQueued, OrderKept, [Next]_vars PROVE OrderKept'
    OBVIOUS
<1> USE DEF TypeOK, OrderKept, Enqueued, promises, permits
<1>1. ASSUME NEW j \in Jobs, NEW k \in Keys, Enqueue(j, k) PROVE OrderKept'
    BY <1>1 DEF Enqueue, Construct
<1>2. ASSUME NEW j \in Jobs, EnqueueBarrier(j) PROVE OrderKept'
    BY <1>2 DEF EnqueueBarrier, Construct
<1>3. ASSUME NEW j \in Jobs, RunOperation(j) PROVE OrderKept'
    <2>1. Enqueued' = Enqueued
        BY <1>3 DEF RunOperation, AcquirePermit
    <2> QED
        BY <1>3, <2>1 DEF RunOperation
<1>4. ASSUME NEW j \in Jobs, Settle(j) PROVE OrderKept'
    <2>1. Enqueued' = Enqueued
        BY <1>4, Handover
    <2> QED
        BY <1>4, <2>1 DEF Settle
<1>5. ASSUME NEW k \in Keys, ForgetTail(k) PROVE OrderKept'
    BY <1>5 DEF ForgetTail
<1>6. CASE UNCHANGED <<state, promises>>
    BY <1>6
<1> QED
    BY <1>1, <1>2, <1>3, <1>4, <1>5, <1>6 DEF Next, Drain, DrainReturns, vars

\* Only an operation that runs adds to what has started, and then all it awaits
\* has settled.
LEMMA StartedOrSettled ==
    ASSUME TypeOK, WaitersQueued, [Next]_vars, NEW j \in Jobs,
           state'[j] \in {"queued", "running", "done"}
    PROVE  \/ j \in Started
           \/ state[j] = "waiting" /\ Settled(awaits[j])
<1> USE DEF TypeOK, Started, promises, permits
<1>1. ASSUME NEW i \in Jobs, NEW k \in Keys, Enqueue(i, k) PROVE j \in Started
    BY <1>1 DEF Enqueue, Construct
<1>2. ASSUME NEW i \in Jobs, EnqueueBarrier(i) PROVE j \in Started
    BY <1>2 DEF EnqueueBarrier, Construct
<1>3. ASSUME NEW i \in Jobs, RunOperation(i)
      PROVE  j \in Started \/ (state[j] = "waiting" /\ Settled(awaits[j]))
    BY <1>3 DEF RunOperation, AcquirePermit
<1>4. ASSUME NEW i \in Jobs, Settle(i) PROVE j \in Started
    BY <1>4, Handover
<1>5. CASE UNCHANGED state
    BY <1>5
<1> QED
    BY <1>1, <1>2, <1>3, <1>4, <1>5 DEF Next, ForgetTail, Drain, DrainReturns, vars

\* The order of conflicting operations is kept.
LEMMA QueueSerialised ==
    TypeOK /\ WaitersQueued /\ OrderKept /\ AwaitsEverything /\ Serialised /\ [Next]_vars
        => Serialised'
<1> SUFFICES ASSUME TypeOK, WaitersQueued, OrderKept, AwaitsEverything, Serialised, [Next]_vars,
                    NEW j \in Jobs, state'[j] \in {"queued", "running", "done"},
                    NEW i \in earlier'[j], Conflict(i, j)'
             PROVE  state'[i] = "done"
    BY DEF Serialised, Started
<1>1. j \in Enqueued
    BY StartedOrSettled DEF Enqueued, Started
<1>2. Frame
    BY QueueFrame
<1>3. i \in earlier[j] /\ i \in Enqueued
    BY <1>1, <1>2 DEF Frame, OrderKept, Enqueued
<1>4. Conflict(i, j)
    BY <1>1, <1>2, <1>3 DEF Frame, Conflict
<1>5. state[i] = "done"
    <2>1. CASE j \in Started
        BY <1>3, <1>4, <2>1 DEF Serialised
    <2>2. CASE Settled(awaits[j])
        <3>1. Guarded(i, awaits[j])
            BY <1>1, <1>3, <1>4 DEF AwaitsEverything
        <3>2. i \in Jobs /\ awaits[j] \in SUBSET Jobs
            BY <1>3 DEF TypeOK, Enqueued
        <3> QED
            BY <2>2, <3>1, <3>2, GuardedBySettled
    <2> QED
        BY <2>1, <2>2, StartedOrSettled
<1> QED
    BY <1>2, <1>3, <1>5 DEF Frame

\* What is enqueued stays behind the promise kept for its key.
LEMMA QueueFinds ==
    TypeOK /\ WaitersQueued /\ OrderKept /\ FindsEverything /\ Serialised /\ [Next]_vars
        => FindsEverything'
<1> SUFFICES ASSUME TypeOK, WaitersQueued, OrderKept, FindsEverything, Serialised, [Next]_vars
             PROVE  FindsEverything'
    OBVIOUS
<1>0. Frame
    BY QueueFrame
<1>1. ASSUME NEW i \in Enqueued, key[i] = Barrier PROVE GuardedAfter(i, {barrier} \ {None})
    <2>1. {barrier} \ {None} \in SUBSET Enqueued /\ Guarded(i, {barrier} \ {None})
        BY <1>1 DEF OrderKept, FindsEverything
    <2> QED
        BY <1>0, <2>1, GuardedStays
<1>2. ASSUME NEW i \in Enqueued, key[i] # Barrier
      PROVE  key[i] \in Keys /\ GuardedAfter(i, {tails[key[i]]} \ {None})
    <2>1. key[i] \in Keys
        BY <1>2 DEF TypeOK, Enqueued
    <2>2. {tails[key[i]]} \ {None} \in SUBSET Enqueued /\ Guarded(i, {tails[key[i]]} \ {None})
        BY <1>2, <2>1 DEF OrderKept, FindsEverything
    <2> QED
        BY <1>0, <2>1, <2>2, GuardedStays
<1>3. ASSUME NEW j \in Jobs, NEW k \in Keys, Enqueue(j, k) PROVE FindsEverything'
    <2>1. /\ Enqueued' = Enqueued \cup {j} /\ j \notin Enqueued /\ j # None
          /\ key'[j] = k /\ earlier'[j] = Enqueued /\ k # Barrier
          /\ tails' = [tails EXCEPT ![k] = j] /\ barrier' = barrier
        BY <1>3 DEF Enqueue, Construct, Enqueued, TypeOK, permits
    <2>2. ASSUME NEW i \in Enqueued, key[i] = Barrier
          PROVE  key'[i] = Barrier /\ Guarded(i, {barrier} \ {None})'
        BY <1>0, <1>1, <2>1, <2>2 DEF Guarded, GuardedAfter, Conflict, Frame
    <2>3. ASSUME NEW i \in Enqueued, key[i] # Barrier, key[i] # k
          PROVE  key'[i] # Barrier /\ Guarded(i, {tails[key[i]]} \ {None})'
        <3>1. key'[i] = key[i] /\ tails'[key[i]] = tails[key[i]]
            BY <1>0, <1>2, <2>1, <2>3 DEF Frame, TypeOK
        <3> QED
            BY <1>2, <2>3, <3>1 DEF Guarded, GuardedAfter, Conflict
    <2>4. ASSUME NEW i \in Enqueued, key[i] = k
          PROVE  key'[i] # Barrier /\ Guarded(i, {tails[key[i]]} \ {None})'
        <3>1. key'[i] = k /\ tails'[k] = j
            BY <1>0, <2>1, <2>4 DEF Frame, TypeOK
        <3> QED
            BY <2>1, <3>1 DEF Guarded, Conflict
    <2>5. key'[j] # Barrier /\ Guarded(j, {tails[key[j]]} \ {None})'
        BY <2>1 DEF Guarded, TypeOK
    <2> QED
        BY <2>1, <2>2, <2>3, <2>4, <2>5 DEF FindsEverything
<1>4. ASSUME NEW j \in Jobs, EnqueueBarrier(j) PROVE FindsEverything'
    <2>1. /\ Enqueued' = Enqueued \cup {j} /\ j \notin Enqueued /\ j # None
          /\ key'[j] = Barrier /\ earlier'[j] = Enqueued
          /\ tails' = tails /\ barrier' = j
        BY <1>4 DEF EnqueueBarrier, Construct, Enqueued, TypeOK, permits
    <2>2. ASSUME NEW i \in Enqueued, key[i] = Barrier
          PROVE  key'[i] = Barrier /\ Guarded(i, {barrier} \ {None})'
        BY <1>0, <2>1, <2>2 DEF Guarded, Conflict, Frame
    <2>3. ASSUME NEW i \in Enqueued, key[i] # Barrier
          PROVE  key'[i] # Barrier /\ Guarded(i, {tails[key[i]]} \ {None})'
        BY <1>0, <1>2, <2>1, <2>3 DEF Guarded, GuardedAfter, Conflict, Frame
    <2>4. key'[j] = Barrier /\ Guarded(j, {barrier} \ {None})'
        BY <2>1 DEF Guarded
    <2> QED
        BY <2>1, <2>2, <2>3, <2>4 DEF FindsEverything
<1>5. ASSUME NEW k \in Keys, ForgetTail(k) PROVE FindsEverything'
    <2>1. /\ Enqueued' = Enqueued /\ key' = key /\ barrier' = barrier /\ state' = state
          /\ tails' = [tails EXCEPT ![k] = None] /\ tails[k] # None /\ state[tails[k]] = "done"
        BY <1>5 DEF ForgetTail, Enqueued
    <2>2. ASSUME NEW i \in Enqueued, key[i] = Barrier PROVE Guarded(i, {barrier} \ {None})'
        BY <1>1, <2>1, <2>2 DEF Guarded, GuardedAfter, Conflict
    <2>3. ASSUME NEW i \in Enqueued, key[i] # Barrier, key[i] # k
          PROVE  Guarded(i, {tails[key[i]]} \ {None})'
        <3>1. tails'[key[i]] = tails[key[i]]
            BY <1>2, <2>1, <2>3 DEF TypeOK
        <3> QED
            BY <1>2, <2>1, <2>3, <3>1 DEF Guarded, GuardedAfter, Conflict
    <2>4. ASSUME NEW i \in Enqueued, key[i] = k, key[i] # Barrier
          PROVE  Guarded(i, {tails[key[i]]} \ {None})'
        <3>1. Guarded(i, {tails[k]} \ {None})
            BY <2>4 DEF FindsEverything
        <3>2. i \in Jobs /\ {tails[k]} \ {None} \in SUBSET Jobs /\ Settled({tails[k]} \ {None})
            BY <2>1 DEF TypeOK, Enqueued, Settled
        <3>3. state[i] = "done"
            BY <3>1, <3>2, GuardedBySettled
        <3> QED
            BY <2>1, <3>3 DEF Guarded
    <2> QED
        BY <2>1, <2>2, <2>3, <2>4 DEF FindsEverything
<1>6. CASE Enqueued' = Enqueued /\ UNCHANGED promises
    <2>1. key' = key /\ tails' = tails /\ barrier' = barrier /\ Enqueued' = Enqueued
        BY <1>6 DEF promises
    <2>2. ASSUME NEW i \in Enqueued, key[i] = Barrier PROVE Guarded(i, {barrier} \ {None})'
        BY <1>1, <2>1, <2>2 DEF Guarded, GuardedAfter, Conflict
    <2>3. ASSUME NEW i \in Enqueued, key[i] # Barrier
          PROVE  Guarded(i, {tails[key[i]]} \ {None})'
        BY <1>2, <2>1, <2>3 DEF Guarded, GuardedAfter, Conflict
    <2> QED
        BY <2>1, <2>2, <2>3 DEF FindsEverything
<1>7. ASSUME NEW j \in Jobs, RunOperation(j) PROVE Enqueued' = Enqueued
    BY <1>7 DEF RunOperation, AcquirePermit, Enqueued, TypeOK
<1>8. ASSUME NEW j \in Jobs, Settle(j) PROVE Enqueued' = Enqueued
    BY <1>8, Handover DEF Enqueued, TypeOK
<1>9. CASE UNCHANGED <<state, promises>>
    BY <1>6, <1>9 DEF Enqueued
<1> QED
    BY <1>3, <1>4, <1>5, <1>6, <1>7, <1>8, <1>9
    DEF Next, RunOperation, Settle, Drain, DrainReturns, vars

\* An operation awaits, or is behind, everything it must wait for.
LEMMA QueueAwaits ==
    TypeOK /\ WaitersQueued /\ OrderKept /\ FindsEverything /\ AwaitsEverything /\ [Next]_vars
        => AwaitsEverything'
<1> SUFFICES ASSUME TypeOK, WaitersQueued, OrderKept, FindsEverything, AwaitsEverything, [Next]_vars
             PROVE  AwaitsEverything'
    OBVIOUS
<1>0. Frame
    BY QueueFrame
<1>1. ASSUME NEW j \in Enqueued, NEW i \in earlier'[j], Conflict(i, j)'
      PROVE  Guarded(i, awaits[j])'
    <2>1. i \in earlier[j] /\ i \in Enqueued /\ j \in Jobs
        BY <1>0 DEF Frame, OrderKept, Enqueued
    <2>2. Conflict(i, j) /\ awaits'[j] = awaits[j] /\ awaits[j] \in SUBSET Enqueued
        BY <1>0, <1>1, <2>1 DEF Frame, Conflict, OrderKept
    <2>3. Guarded(i, awaits[j])
        BY <2>1, <2>2 DEF AwaitsEverything
    <2>4. GuardedAfter(i, awaits[j])
        BY <1>0, <2>1, <2>2, <2>3, GuardedStays
    <2> QED
        BY <2>2, <2>4 DEF Guarded, GuardedAfter, Conflict
<1>2. ASSUME NEW i \in Enqueued, NEW S \in SUBSET Enqueued,
             IF key[i] = Barrier THEN {barrier} \ {None} \subseteq S
                                 ELSE {tails[key[i]]} \ {None} \subseteq S
      PROVE  GuardedAfter(i, S)
    <2>1. Guarded(i, S)
        BY <1>2 DEF FindsEverything, Guarded
    <2> QED
        BY <1>0, <2>1, GuardedStays
<1>3. ASSUME NEW j \in Jobs, NEW k \in Keys, Enqueue(j, k) PROVE AwaitsEverything'
    <2>1. /\ Enqueued' = Enqueued \cup {j} /\ j \notin Enqueued
          /\ key'[j] = k /\ earlier'[j] = Enqueued /\ k # Barrier
          /\ awaits'[j] = {barrier, tails[k]} \ {None}
        BY <1>3 DEF Enqueue, Construct, Enqueued, TypeOK, permits
    <2>2. ASSUME NEW i \in Enqueued, Conflict(i, j)' PROVE Guarded(i, awaits[j])'
        <3>1. key[i] = k \/ key[i] = Barrier
            BY <1>0, <2>1, <2>2 DEF Conflict, Frame
        <3>2. {barrier, tails[k]} \ {None} \in SUBSET Enqueued
            BY DEF OrderKept
        <3>3. GuardedAfter(i, {barrier, tails[k]} \ {None})
            BY <1>2, <3>1, <3>2
        <3> QED
            BY <2>1, <3>3 DEF Guarded, GuardedAfter, Conflict
    <2> QED
        BY <1>1, <2>1, <2>2 DEF AwaitsEverything
<1>4. ASSUME NEW j \in Jobs, EnqueueBarrier(j) PROVE AwaitsEverything'
    <2> DEFINE found == ({barrier} \cup {tails[k] : k \in Keys}) \ {None}
    <2>1. /\ Enqueued' = Enqueued \cup {j} /\ j \notin Enqueued
          /\ earlier'[j] = Enqueued /\ awaits'[j] = found
        BY <1>4 DEF EnqueueBarrier, Construct, Enqueued, TypeOK, permits
    <2>2. ASSUME NEW i \in Enqueued PROVE Guarded(i, awaits[j])'
        <3>1. key[i] \in Keys \cup {Barrier} /\ found \in SUBSET Enqueued
            BY DEF OrderKept, TypeOK, Enqueued
        <3>2. GuardedAfter(i, found)
            BY <1>2, <3>1
        <3> QED
            BY <2>1, <3>2 DEF Guarded, GuardedAfter, Conflict
    <2> QED
        BY <1>1, <2>1, <2>2 DEF AwaitsEverything
<1>5. CASE Enqueued' = Enqueued
    BY <1>1, <1>5 DEF AwaitsEverything
<1>6. ASSUME NEW j \in Jobs, RunOperation(j) PROVE Enqueued' = Enqueued
    BY <1>6 DEF RunOperation, AcquirePermit, Enqueued, TypeOK
<1>7. ASSUME NEW j \in Jobs, Settle(j) PROVE Enqueued' = Enqueued
    BY <1>7, Handover DEF Enqueued, TypeOK
<1>8. CASE UNCHANGED state
    BY <1>5, <1>8 DEF Enqueued
<1> QED
    BY <1>3, <1>4, <1>5, <1>6, <1>7, <1>8
    DEF Next, ForgetTail, Drain, DrainReturns, vars

\* A drain awaits, or is behind, everything that was enqueued before it.
LEMMA QueueDrains ==
    TypeOK /\ WaitersQueued /\ OrderKept /\ FindsEverything /\ DrainAwaitsEverything /\ [Next]_vars
        => DrainAwaitsEverything'
<1> SUFFICES ASSUME TypeOK, WaitersQueued, OrderKept, FindsEverything, DrainAwaitsEverything,
                    [Next]_vars
             PROVE  DrainAwaitsEverything'
    OBVIOUS
<1>0. Frame
    BY QueueFrame
<1>1. CASE drain'.awaits = drain.awaits /\ drain'.scope = drain.scope
           /\ (drain'.state # "idle" => drain.state # "idle")
    <2> SUFFICES ASSUME drain'.state # "idle" PROVE DrainAwaitsEverything'
        BY DEF DrainAwaitsEverything
    <2>1. drain.awaits \in SUBSET Enqueued /\ drain.scope \subseteq Enqueued
        BY <1>1 DEF DrainAwaitsEverything
    <2>2. \A i \in drain.scope : GuardedAfter(i, drain.awaits)
        BY <1>0, <1>1, <2>1, GuardedStays DEF DrainAwaitsEverything
    <2>3. \A i \in drain'.scope : Guarded(i, drain.awaits)'
        BY <1>1, <2>2 DEF Guarded, GuardedAfter, Conflict
    <2> QED
        BY <1>0, <1>1, <2>1, <2>3 DEF DrainAwaitsEverything, Frame
<1>2. CASE Drain
    <2> DEFINE found == ({barrier} \cup {tails[k] : k \in Keys}) \ {None}
    <2>1. /\ drain' = [state |-> "waiting", awaits |-> found, scope |-> Enqueued]
          /\ UNCHANGED <<state, key, earlier>>
        BY <1>2 DEF Drain, promises
    <2>2. ASSUME NEW i \in Enqueued PROVE Guarded(i, found)
        <3>1. key[i] \in Keys \cup {Barrier}
            BY DEF TypeOK, Enqueued
        <3> QED
            BY <3>1 DEF FindsEverything, Guarded
    <2>3. found \subseteq Enqueued
        BY DEF OrderKept
    <2>4. drain'.awaits = found /\ drain'.scope = Enqueued
        BY <2>1
    <2>5. \A i \in Enqueued : Guarded(i, drain.awaits)'
        BY <2>1, <2>2, <2>4 DEF Guarded, Conflict
    <2>6. Enqueued' = Enqueued
        BY <2>1 DEF Enqueued
    <2> QED
        BY <2>3, <2>4, <2>5, <2>6 DEF DrainAwaitsEverything
<1>3. CASE DrainReturns
    <2>1. drain' = [drain EXCEPT !.state = "done"] /\ drain.state = "waiting"
        BY <1>3 DEF DrainReturns
    <2> QED
        BY <1>1, <2>1 DEF TypeOK
<1>4. CASE UNCHANGED drain
    BY <1>1, <1>4
<1> QED
    BY <1>2, <1>3, <1>4
    DEF Next, Enqueue, EnqueueBarrier, RunOperation, Settle, ForgetTail, vars

\* Permits are conserved: an operation that starts takes one, one that ends
\* hands it over or gives it back.
LEMMA QueuePermits == TypeOK /\ WaitersQueued /\ PermitsConserved /\ [Next]_vars => PermitsConserved'
<1> SUFFICES ASSUME TypeOK, WaitersQueued, PermitsConserved, [Next]_vars PROVE PermitsConserved'
    OBVIOUS
<1> USE DEF TypeOK, PermitsConserved, promises, permits
<1>0. IsFiniteSet(Running)
    BY FS_Subset DEF Running
<1>1. CASE Running' = Running /\ UNCHANGED permits
    BY <1>1
<1>2. ASSUME NEW j \in Jobs, NEW k \in Keys, Enqueue(j, k) PROVE PermitsConserved'
    <2>1. Running' = Running
        BY <1>2 DEF Enqueue, Construct, Running
    <2> QED
        BY <1>1, <1>2, <2>1 DEF Enqueue
<1>3. ASSUME NEW j \in Jobs, EnqueueBarrier(j) PROVE PermitsConserved'
    <2>1. Running' = Running
        BY <1>3 DEF EnqueueBarrier, Construct, Running
    <2> QED
        BY <1>1, <1>3, <2>1 DEF EnqueueBarrier
<1>4. ASSUME NEW j \in Jobs, RunOperation(j) PROVE PermitsConserved'
    <2>1. CASE active < MaxConcurrent
        <3>1. Running' = Running \cup {j} /\ j \notin Running
            BY <1>4, <2>1 DEF RunOperation, AcquirePermit, Running
        <3>2. Cardinality(Running') = Cardinality(Running) + 1
            BY <1>0, <3>1, FS_AddElement
        <3>3. active' = active + 1 /\ waiters' = waiters
            BY <1>4, <2>1 DEF RunOperation, AcquirePermit
        <3> QED
            BY <2>1, <3>2, <3>3
    <2>2. CASE ~(active < MaxConcurrent)
        <3>1. Running' = Running /\ active' = active
            BY <1>4, <2>2 DEF RunOperation, AcquirePermit, Running
        <3> QED
            BY <2>2, <3>1
    <2> QED
        BY <2>1, <2>2
<1>5. ASSUME NEW j \in Jobs, Settle(j) PROVE PermitsConserved'
    <2>0. j \in Running /\ state[j] = "running"
        BY <1>5 DEF Settle, Running
    <2>1. Cardinality(Running \ {j}) = Cardinality(Running) - 1 /\ IsFiniteSet(Running \ {j})
        BY <1>0, <2>0, FS_RemoveElement
    <2>2. CASE waiters # <<>>
        <3>1. Head(waiters) \in Jobs /\ state[Head(waiters)] = "queued"
            BY <2>2, HeadTailProperties DEF WaitersQueued
        <3>2. state' = [state EXCEPT ![j] = "done", ![Head(waiters)] = "running"] /\ active' = active
            BY <1>5, <2>2 DEF Settle
        <3>3. Running' = (Running \ {j}) \cup {Head(waiters)} /\ Head(waiters) \notin Running \ {j}
            BY <2>0, <3>1, <3>2 DEF Running
        <3>4. Cardinality(Running') = Cardinality(Running \ {j}) + 1
            BY <2>1, <3>3, FS_AddElement
        <3> QED
            BY <2>1, <2>2, <3>2, <3>4
    <2>3. CASE waiters = <<>>
        <3>1. Running' = Running \ {j} /\ active' = active - 1 /\ waiters' = <<>>
            BY <1>5, <2>3 DEF Settle, Running
        <3> QED
            BY <2>1, <3>1
    <2> QED
        BY <2>2, <2>3
<1>6. CASE UNCHANGED <<state, permits>>
    BY <1>1, <1>6 DEF Running
<1> QED
    BY <1>2, <1>3, <1>4, <1>5, <1>6 DEF Next, ForgetTail, Drain, DrainReturns, vars

\* QueueInv is an invariant of every behaviour of the queue.
THEOREM QueueInvariant == Spec => []QueueInv
<1>1. QueueInv /\ [Next]_vars => QueueInv'
    BY QueueTypes, QueuePermits, QueueWaiters, QueueOrder, QueueFinds, QueueAwaits,
       QueueSerialised, QueueDrains DEF QueueInv
<1> QED
    BY QueueInit, <1>1, PTL DEF Spec

\* The state of the queue keeps its types; activeOperations stays between zero
\* and the limit.
THEOREM QueueTypeCorrect == Spec => []TypeOK
<1>1. QueueInv => TypeOK
    BY DEF QueueInv
<1> QED
    BY QueueInvariant, <1>1, PTL

\* Conflicting operations start in the order in which they were enqueued, each
\* after the other has settled.
THEOREM OrderIsKept == Spec => []Serialised
<1>1. QueueInv => Serialised
    BY DEF QueueInv
<1> QED
    BY QueueInvariant, <1>1, PTL

\* Operations that run together have different keys, and a barrier operation
\* runs alone: of two enqueued operations one is the earlier one, and it has
\* settled when the other runs.
THEOREM ConflictsExclude == Spec => []Exclusive
<1>1. QueueInv => Exclusive
    <2> SUFFICES ASSUME QueueInv, NEW i \in Running, NEW j \in Running, i # j, Conflict(i, j)
                 PROVE  FALSE
        BY DEF Exclusive
    <2>1. i \in Enqueued /\ j \in Enqueued /\ i \in Started /\ j \in Started
        BY DEF Running, Enqueued, Started
    <2>2. CASE i \in earlier[j]
        BY <2>1, <2>2 DEF QueueInv, Serialised, Running
    <2>3. CASE j \in earlier[i]
        <3>1. Conflict(j, i)
            BY DEF Conflict
        <3> QED
            BY <2>1, <2>3, <3>1 DEF QueueInv, Serialised, Running
    <2> QED
        BY <2>1, <2>2, <2>3 DEF QueueInv, OrderKept
<1> QED
    BY QueueInvariant, <1>1, PTL

\* No permit is lost or invented.
THEOREM PermitsAreConserved == Spec => []PermitsConserved
<1>1. QueueInv => PermitsConserved
    BY DEF QueueInv
<1> QED
    BY QueueInvariant, <1>1, PTL

\* The promises a drain awaits are the right ones: once they have settled, so
\* has everything that was enqueued before the drain.
THEOREM DrainIsComplete == Spec => []DrainComplete
<1> DEFINE Returned == drain.state = "done" => Settled(drain.awaits)
<1>1. Init => Returned
    BY DEF Init
<1>2. QueueInv /\ Returned /\ [Next]_vars => Returned'
    <2> SUFFICES ASSUME QueueInv, Returned, [Next]_vars PROVE Returned'
        OBVIOUS
    <2>1. Frame
        BY QueueFrame DEF QueueInv
    <2>2. CASE UNCHANGED drain
        BY <2>1, <2>2 DEF Frame, Settled, QueueInv, DrainAwaitsEverything
    <2>3. CASE Drain
        BY <2>3 DEF Drain
    <2>4. CASE DrainReturns
        BY <2>4 DEF DrainReturns, Settled, QueueInv, TypeOK
    <2> QED
        BY <2>2, <2>3, <2>4
        DEF Next, Enqueue, EnqueueBarrier, RunOperation, Settle, ForgetTail, vars
<1>3. QueueInv /\ Returned => DrainComplete
    <2> SUFFICES ASSUME QueueInv, Returned, drain.state = "done", NEW i \in drain.scope
                 PROVE  state[i] = "done"
        BY DEF DrainComplete, Settled
    <2>1. Guarded(i, drain.awaits) /\ i \in Jobs /\ drain.awaits \in SUBSET Jobs
        BY DEF QueueInv, DrainAwaitsEverything, TypeOK
    <2> QED
        BY <2>1, GuardedBySettled DEF QueueInv
<1> QED
    BY QueueInvariant, <1>1, <1>2, <1>3, PTL DEF Spec

----------------------------------------------------------------------------
(***************************************************************************)
(* Progress.  JobsSettle needs fairness; what the prover can show of it is *)
(* that no operation goes back and that there is always one which can go   *)
(* on, however keys, barriers and permits make operations wait.            *)
(***************************************************************************)
\* A queue without operations is in line.
LEMMA LinedInit == Init => Lined
BY DEF Init, Lined

\* The operations that are queued and the waiters stay the same ones.
LEMMA WaitersComplete ==
    ASSUME TypeOK, WaitersQueued, Lined, [Next]_vars, NEW i \in Jobs, state'[i] = "queued"
    PROVE  \E n \in DOMAIN waiters' : waiters'[n] = i
<1> USE DEF TypeOK, promises, permits
<1>0. state[i] = "queued" => \E n \in DOMAIN waiters : waiters[n] = i
    BY DEF Lined
<1>1. ASSUME NEW j \in Jobs, NEW k \in Keys, Enqueue(j, k)
      PROVE  \E n \in DOMAIN waiters' : waiters'[n] = i
    BY <1>0, <1>1 DEF Enqueue, Construct
<1>2. ASSUME NEW j \in Jobs, EnqueueBarrier(j)
      PROVE  \E n \in DOMAIN waiters' : waiters'[n] = i
    BY <1>0, <1>2 DEF EnqueueBarrier, Construct
<1>3. ASSUME NEW j \in Jobs, RunOperation(j)
      PROVE  \E n \in DOMAIN waiters' : waiters'[n] = i
    <2>1. CASE active < MaxConcurrent
        BY <1>0, <1>3, <2>1 DEF RunOperation, AcquirePermit
    <2>2. CASE ~(active < MaxConcurrent)
        <3>1. waiters' = Append(waiters, j) /\ state' = [state EXCEPT ![j] = "queued"]
            BY <1>3, <2>2 DEF RunOperation, AcquirePermit
        <3>2. /\ DOMAIN waiters = 1..Len(waiters) /\ Len(waiters) \in Nat
              /\ DOMAIN waiters' = 1..(Len(waiters) + 1)
              /\ \A n \in 1..Len(waiters) : waiters'[n] = waiters[n]
              /\ waiters'[Len(waiters) + 1] = j
            BY <3>1, AppendProperties
        <3>3. CASE i = j
            BY <3>2, <3>3
        <3>4. CASE i # j
            <4>1. PICK n \in DOMAIN waiters : waiters[n] = i
                BY <1>0, <3>1, <3>4
            <4> QED
                BY <3>2, <4>1
        <3> QED
            BY <3>3, <3>4
    <2> QED
        BY <2>1, <2>2
<1>4. ASSUME NEW j \in Jobs, Settle(j)
      PROVE  \E n \in DOMAIN waiters' : waiters'[n] = i
    <2>1. CASE waiters # <<>>
        <3>1. /\ Head(waiters) = waiters[1] /\ Len(waiters) \in Nat \ {0}
              /\ Len(Tail(waiters)) = Len(waiters) - 1
              /\ \A n \in 1..Len(Tail(waiters)) : Tail(waiters)[n] = waiters[n + 1]
              /\ DOMAIN waiters = 1..Len(waiters)
              /\ DOMAIN Tail(waiters) = 1..Len(Tail(waiters))
              /\ waiters[1] \in Jobs
            BY <2>1, HeadTailProperties
        <3>2. /\ waiters' = Tail(waiters)
              /\ state' = [state EXCEPT ![j] = "done", ![waiters[1]] = "running"]
            BY <1>4, <2>1, <3>1 DEF Settle
        <3>3. PICK n \in DOMAIN waiters : waiters[n] = i
            BY <1>0, <3>1, <3>2
        <3>4. n # 1
            BY <3>1, <3>2, <3>3
        <3>5. n - 1 \in 1..Len(Tail(waiters)) /\ Tail(waiters)[n - 1] = i
            BY <3>1, <3>3, <3>4
        <3> QED
            BY <3>1, <3>2, <3>5
    <2>2. CASE waiters = <<>>
        <3>1. state' = [state EXCEPT ![j] = "done"] /\ waiters' = waiters
            BY <1>4, <2>2 DEF Settle
        <3> QED
            BY <1>0, <3>1
    <2> QED
        BY <2>1, <2>2
<1>5. CASE UNCHANGED <<state, waiters>>
    BY <1>0, <1>5
<1> QED
    BY <1>1, <1>2, <1>3, <1>4, <1>5 DEF Next, ForgetTail, Drain, DrainReturns, vars

\* A new operation stands behind all others, and nobody changes places.
LEMMA LinedStep == QueueInv /\ Lined /\ [Next]_vars => Lined'
<1> SUFFICES ASSUME QueueInv, Lined, [Next]_vars PROVE Lined'
    OBVIOUS
<1> DEFINE Line == /\ \A j \in Jobs : awaits[j] \subseteq earlier[j] /\ j \notin earlier[j]
                   /\ \A j \in Jobs : \A i \in earlier[j] : earlier[i] \subseteq earlier[j]
<1>1. ASSUME NEW j \in Jobs, NEW k, NEW found, Construct(j, k, found), found \subseteq Enqueued \cup {None}
      PROVE  Line'
    <2>1. /\ earlier' = [earlier EXCEPT ![j] = Enqueued] /\ awaits' = [awaits EXCEPT ![j] = found \ {None}]
          /\ j \notin Enqueued
        BY <1>1 DEF Construct, Enqueued
    <2>2. \A i \in Jobs : earlier[i] \subseteq Enqueued /\ earlier[i] \subseteq Jobs
        BY DEF QueueInv, OrderKept, TypeOK
    <2>3. /\ earlier'[j] = Enqueued /\ awaits'[j] = found \ {None}
          /\ \A i \in Jobs \ {j} : earlier'[i] = earlier[i] /\ awaits'[i] = awaits[i]
        BY <2>1 DEF QueueInv, TypeOK
    <2>4. \A i \in Jobs : awaits'[i] \subseteq earlier'[i] /\ i \notin earlier'[i]
        BY <1>1, <2>1, <2>3 DEF Lined
    <2>5. \A i \in Enqueued : i \in Jobs \ {j}
        BY <2>1 DEF Enqueued
    <2>6. \A i \in Jobs : \A h \in earlier'[i] : earlier'[h] \subseteq earlier'[i]
        BY <2>2, <2>3, <2>5 DEF Lined
    <2> QED
        BY <2>4, <2>6
<1>2. ASSUME NEW j \in Jobs, NEW k \in Keys, Enqueue(j, k) PROVE Line'
    BY <1>1, <1>2 DEF Enqueue, QueueInv, OrderKept
<1>3. ASSUME NEW j \in Jobs, EnqueueBarrier(j) PROVE Line'
    <2>1. {barrier} \cup {tails[k] : k \in Keys} \subseteq Enqueued \cup {None}
        BY DEF QueueInv, OrderKept
    <2> QED
        BY <1>1, <1>3, <2>1 DEF EnqueueBarrier
<1>4. ASSUME UNCHANGED <<earlier, awaits>> PROVE Line'
    BY <1>4 DEF Lined
<1>5. Line'
    BY <1>2, <1>3, <1>4
    DEF Next, RunOperation, Settle, ForgetTail, Drain, DrainReturns, vars, promises
<1> QED
    BY <1>5, WaitersComplete DEF QueueInv, Lined

\* Of the operations in S one stands before all the others of S that it can see.
LEMMA FirstInLine ==
    ASSUME TypeOK, Lined, NEW S \in SUBSET Jobs, S # {}
    PROVE  \E j \in S : \A i \in earlier[j] : i \notin S
<1> DEFINE B == {earlier[j] : j \in S}
<1>1. B \in SUBSET (SUBSET Jobs) /\ B # {}
    BY DEF TypeOK
<1> HIDE DEF B
<1>3. PICK T \in B : \A U \in B : U \subseteq T => U = T
    BY <1>1, SmallestSubset
<1>4. PICK j \in S : T = earlier[j]
    BY <1>3 DEF B
<1>5. ASSUME NEW i \in earlier[j], i \in S PROVE FALSE
    <2>1. earlier[i] \in B
        BY <1>5 DEF B
    <2>2. earlier[i] \subseteq T /\ i \in T /\ i \notin earlier[i]
        BY <1>4, <1>5 DEF Lined
    <2> QED
        BY <1>3, <2>1, <2>2
<1> QED
    BY <1>5

\* Of the unsettled operations take one that has no unsettled one before it.  What it
\* awaits has settled.  So it waits for nothing, runs, or is queued for a permit, and then
\* the permits are taken by operations that run.
THEOREM QueueNeverStuck == Spec => []NeverStuck
<1>1. QueueInv /\ Lined => NeverStuck
    <2> SUFFICES ASSUME QueueInv, Lined, NEW u \in Enqueued, state[u] # "done"
                 PROVE  \E j \in Jobs : Able(j)
        BY DEF NeverStuck
    <2> DEFINE S == {j \in Enqueued : state[j] # "done"}
    <2>1. S \in SUBSET Jobs /\ S # {}
        BY DEF Enqueued
    <2>2. PICK j \in S : \A i \in earlier[j] : i \notin S
        <3> HIDE DEF S
        <3> QED
            BY <2>1, FirstInLine DEF QueueInv
    <2>3. j \in Jobs /\ state[j] \in {"waiting", "queued", "running"}
        BY <2>2 DEF Enqueued, QueueInv, TypeOK
    <2>4. CASE state[j] = "waiting"
        <3>1. awaits[j] \subseteq earlier[j] /\ awaits[j] \subseteq Enqueued
            BY <2>3 DEF Lined, QueueInv, OrderKept
        <3>2. Settled(awaits[j])
            BY <2>2, <3>1 DEF Settled
        <3> QED
            BY <2>3, <2>4, <3>2 DEF Able
    <2>5. CASE state[j] = "queued"
        <3>1. PICK n \in DOMAIN waiters : waiters[n] = j
            BY <2>3, <2>5 DEF Lined
        <3>2. waiters # <<>>
            BY <3>1
        <3>3. Cardinality(Running) = MaxConcurrent /\ MaxConcurrent # 0
            BY <3>2 DEF QueueInv, PermitsConserved
        <3>4. Running # {}
            BY <3>3, FS_EmptySet
        <3> QED
            BY <3>4 DEF Running, Able
    <2>6. CASE state[j] = "running"
        BY <2>3, <2>6 DEF Able
    <2> QED
        BY <2>3, <2>4, <2>5, <2>6
<1>2. QueueInv /\ Lined /\ [Next]_vars => Lined'
    BY LinedStep
<1> QED
    BY QueueInvariant, LinedInit, <1>1, <1>2, PTL DEF Spec

\* An operation never goes back to an earlier state: it is constructed, perhaps queued for
\* a permit, run and settled, once each.
JobRank(j) ==
    CASE state[j] = "new" -> 0 [] state[j] = "waiting" -> 1 [] state[j] = "queued" -> 2
      [] state[j] = "running" -> 3 [] state[j] = "done" -> 4

JobsAdvance ==
    [][\A j \in Jobs : state'[j] # state[j] => JobRank(j)' > JobRank(j)]_vars

\* Every operation goes through its states in one direction, so an operation that throws is
\* not run again, and one that was handed a permit does not queue for another.
THEOREM JobsOnlyAdvance == Spec => JobsAdvance
<1> DEFINE Onward == \A j \in Jobs : state'[j] # state[j] => JobRank(j)' > JobRank(j)
<1>1. QueueInv /\ QueueInv' /\ [Next]_vars => Onward
    <2> SUFFICES ASSUME QueueInv, QueueInv', [Next]_vars, NEW i \in Jobs, state'[i] # state[i]
                 PROVE  JobRank(i)' > JobRank(i)
        OBVIOUS
    <2> USE DEF promises, permits
    <2>0. state \in [Jobs -> States]
        BY DEF QueueInv, TypeOK
    <2>1. ASSUME NEW j \in Jobs, NEW k \in Keys, Enqueue(j, k)
          PROVE  state[i] = "new" /\ state'[i] = "waiting"
        BY <2>0, <2>1 DEF Enqueue, Construct
    <2>2. ASSUME NEW j \in Jobs, EnqueueBarrier(j)
          PROVE  state[i] = "new" /\ state'[i] = "waiting"
        BY <2>0, <2>2 DEF EnqueueBarrier, Construct
    <2>3. ASSUME NEW j \in Jobs, RunOperation(j)
          PROVE  state[i] = "waiting" /\ state'[i] \in {"queued", "running"}
        BY <2>0, <2>3 DEF RunOperation, AcquirePermit
    <2>4. ASSUME NEW j \in Jobs, Settle(j)
          PROVE  \/ state[i] = "running" /\ state'[i] = "done"
                 \/ state[i] = "queued" /\ state'[i] = "running"
        BY <2>0, <2>4, Handover DEF QueueInv
    <2>5. \/ state[i] = "new" /\ state'[i] = "waiting"
          \/ state[i] = "waiting" /\ state'[i] \in {"queued", "running"}
          \/ state[i] = "queued" /\ state'[i] = "running"
          \/ state[i] = "running" /\ state'[i] = "done"
        BY <2>1, <2>2, <2>3, <2>4 DEF Next, ForgetTail, Drain, DrainReturns, vars
    <2> QED
        BY <2>5 DEF JobRank
<1>2. QueueInv /\ QueueInv' /\ [Next]_vars => [Onward]_vars
    BY <1>1
<1> QED
    BY QueueInvariant, <1>2, PTL DEF Spec, JobsAdvance
=============================================================================
