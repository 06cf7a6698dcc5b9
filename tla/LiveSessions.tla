----------------------------- MODULE LiveSessions -----------------------------
(***************************************************************************)
(* The live sessions of the server (packages/server/src/sessions.ts) and   *)
(* the connections that use them (packages/server/src/server.ts).          *)
(*                                                                         *)
(* A session has at most one runtime, acquired from the backend when the   *)
(* first connection asks for it and disposed when nobody needs it any      *)
(* more.  Every await in the code is the boundary between two steps here:  *)
(* acquiring and disposing a runtime, reading its snapshot, closing a      *)
(* connection.  A request creates at most one LiveSession object, which is *)
(* identified with the request; a promise is identified with the object it *)
(* yields.  Connections are those that have completed the handshake.  What *)
(* events carry and the snapshots sent to clients are left out, and so are *)
(* requests that are refused at once and an await after which a request    *)
(* only answers.  Closing and terminating await the disposals their        *)
(* disconnects began; here they may go on earlier.                         *)
(***************************************************************************)
EXTENDS Naturals

CONSTANTS Conns,   \* connections
          Ids,     \* sessions
          MaxRequests,
          MaxFaults,  \* how often the backend or a runtime fails
          None

\* Requests in the order they arrive.
Reqs == 1..MaxRequests

ASSUME SessionConstants ==
    /\ MaxRequests \in Nat
    /\ MaxFaults \in Nat
    /\ None \notin Conns \cup Ids \cup Reqs

VARIABLES
    stage,     \* connection -> where it is in its life
    closed,    \* connections whose byte connection is closed
    attached,  \* connection -> its sessionIds
    sessions,  \* liveSessions: session -> LiveSession
    opening,   \* openingSessions: session -> the LiveSession being created
    live,      \* the LiveSession objects
    req,       \* the requests being executed
    server,    \* how far close has come, and the openings it awaits
    turn,      \* the connection a chunk of which is being processed
    faults     \* failures so far

vars == <<stage, closed, attached, sessions, opening, live, req, server, turn, faults>>

----------------------------------------------------------------------------
Stages == {"ready", "closing", "closed"}
Steps == {"new", "acquiring", "snapshot", "failing", "ready", "failed"}
Runtimes == {"none", "held", "disposing", "disposed", "failed"}
Terms == {"no", "closing", "disconnected", "done"}
PCs == {"new", "wait", "create", "opening", "attach", "operate", "detach", "done"}
ServerSteps == {"open", "listeners", "connections", "disconnected", "openings", "disposing", "closed"}

LiveRecords ==
    [id : Ids \cup {None}, step : Steps, runtime : Runtimes, disposals : Nat,
     disposing : {"unset", "set"}, conns : SUBSET Conns, ops : SUBSET Reqs, phase : {"idle", "busy"},
     term : Terms, doomed : SUBSET Conns]

Requests ==
    [pc : PCs, conn : Conns \cup {None}, live : Reqs \cup {None}]

TypeOK ==
    /\ stage \in [Conns -> Stages]
    /\ closed \in SUBSET Conns
    /\ attached \in [Conns -> SUBSET Ids]
    /\ sessions \in [Ids -> Reqs \cup {None}]
    /\ opening \in [Ids -> Reqs \cup {None}]
    /\ live \in [Reqs -> LiveRecords]
    /\ req \in [Reqs -> Requests]
    /\ server \in [step : ServerSteps, awaits : SUBSET Reqs]
    /\ turn \in Conns \cup {None}
    /\ faults \in 0..MaxFaults

Fresh == [id |-> None, step |-> "new", runtime |-> "none", disposals |-> 0,
          disposing |-> "unset", conns |-> {}, ops |-> {}, phase |-> "idle",
          term |-> "no", doomed |-> {}]

Unsent == [pc |-> "new", conn |-> None, live |-> None]

Init ==
    /\ stage = [c \in Conns |-> "ready"]
    /\ closed = {}
    /\ attached = [c \in Conns |-> {}]
    /\ sessions = [i \in Ids |-> None]
    /\ opening = [i \in Ids |-> None]
    /\ live = [l \in Reqs |-> Fresh]
    /\ req = [r \in Reqs |-> Unsent]
    /\ server = [step |-> "open", awaits |-> {}]
    /\ turn = None
    /\ faults = 0

isClosing == server.step # "open"

----------------------------------------------------------------------------
(***************************************************************************)
(* Disposal.  operationCount is the number of the operations in ops.  The  *)
(* promise disposing is settled when the runtime is disposed or failed to. *)
(***************************************************************************)
Subscribed(v) == v.step = "ready" /\ v.runtime = "held" /\ v.term = "no"

\* Mutant: a running operation does not keep the session.
UnneededDespiteOperation(v) ==
    /\ ~isClosing
    /\ v.step = "ready"
    /\ v.disposing = "unset"
    /\ v.conns = {}
    /\ v.term # "no" \/ v.phase = "idle"

\* Nobody needs the session: the early return of maybeDispose is not taken.
Unneeded(v) ==
    /\ ~isClosing
    /\ v.step = "ready"
    /\ v.disposing = "unset"
    /\ v.conns = {}
    /\ v.ops = {}
    /\ v.term # "no" \/ v.phase = "idle"

\* The runtime's dispose is called.
Disposing(v) == [v EXCEPT !.runtime = "disposing", !.disposals = @ + 1, !.phase = "idle"]

\* maybeDispose, up to its await, for the objects S of lives.
MaybeDispose(lives, S) ==
    [l \in Reqs |-> IF l \in S /\ Unneeded(lives[l])
                       THEN [Disposing(lives[l]) EXCEPT !.disposing = "set"]
                       ELSE lives[l]]

DisposalPending(l) == live[l].disposing = "set" /\ live[l].runtime = "disposing"

\* Mutant: the entry of the session stays.
DisposeKeepsEntry(l, outcome) ==
    /\ live[l].runtime = "disposing"
    /\ live' = [live EXCEPT ![l].runtime = outcome,
                            ![l].step = IF @ = "failing" THEN "failed" ELSE @]
    /\ UNCHANGED <<stage, closed, attached, sessions, opening, req, server>>

\* The runtime's dispose settles.  For the disposal of maybeDispose, the entry
\* of the session goes, if it is still this one.
DisposeSettles(l, outcome) ==
    /\ live[l].runtime = "disposing"
    /\ live' = [live EXCEPT ![l].runtime = outcome,
                            ![l].step = IF @ = "failing" THEN "failed" ELSE @]
    /\ sessions' = IF live[l].disposing = "set" /\ sessions[live[l].id] = l
                     THEN [sessions EXCEPT ![live[l].id] = None] ELSE sessions
    /\ UNCHANGED <<stage, closed, attached, opening, req, server>>

DisposeDone(l) == DisposeSettles(l, "disposed")
DisposeFails(l) == DisposeSettles(l, "failed")

----------------------------------------------------------------------------
(***************************************************************************)
(* The event loop.  A request whose promise is settled goes on before the  *)
(* next message, closed connection or call of close is handled, but the    *)
(* messages of one chunk are handled in one go.  What the backend and the  *)
(* runtimes do may come in between.                                        *)
(***************************************************************************)
Settled(l) == live[l].step \in {"ready", "failed"}

Ready(r) ==
    \/ req[r].pc = "wait" /\ ~DisposalPending(req[r].live)
    \/ req[r].pc \in {"create", "opening"} /\ Settled(req[r].live)
    \/ req[r].pc = "attach"

Quiet == \A r \in Reqs : ~Ready(r)

\* A message of the connection is dispatched.
Receive(r, c) ==
    /\ req[r].pc = "new"
    /\ \A q \in Reqs : q < r => req[q].pc # "new"
    /\ stage[c] = "ready"
    /\ Quiet \/ turn = c

----------------------------------------------------------------------------
(***************************************************************************)
(* Acquiring a session.                                                    *)
(***************************************************************************)
Goto(r, pc, c, l) == req' = [req EXCEPT ![r] = [pc |-> pc, conn |-> c, live |-> l]]

\* The request is answered, with a result or an error, perhaps after it has
\* awaited a snapshot or the disposal it caused.
Answer(r) == req' = [req EXCEPT ![r] = [pc |-> "done", conn |-> None, live |-> None]]

\* Mutant: sessions that are being opened are not looked up.
AcquireUnshared(r, c, i) ==
    LET existing == sessions[i] IN
    \/ /\ existing # None
       /\ \/ /\ live[existing].term # "no"
             /\ Answer(r)
          \/ /\ live[existing].term = "no"
             /\ live[existing].disposing = "set"
             /\ Goto(r, "wait", c, existing)
          \/ /\ live[existing].term = "no"
             /\ live[existing].disposing = "unset"
             /\ Goto(r, "attach", c, existing)
       /\ UNCHANGED <<opening, live>>
    \/ /\ existing = None
       /\ live' = [live EXCEPT ![r].step = "acquiring", ![r].id = i]
       /\ opening' = [opening EXCEPT ![i] = r]
       /\ Goto(r, "create", c, r)

\* One round of the loop of acquire.  A session that is terminating is an error;
\* one that is being disposed is awaited; one that exists is returned; one that
\* is being opened is shared; otherwise a new one is created.
Acquire(r, c, i) ==
    LET existing == sessions[i] IN
    \/ /\ existing # None
       /\ \/ /\ live[existing].term # "no"
             /\ Answer(r)
          \/ /\ live[existing].term = "no"
             /\ live[existing].disposing = "set"
             /\ Goto(r, "wait", c, existing)
          \/ /\ live[existing].term = "no"
             /\ live[existing].disposing = "unset"
             /\ Goto(r, "attach", c, existing)
       /\ UNCHANGED <<opening, live>>
    \/ /\ existing = None
       /\ opening[i] # None
       /\ Goto(r, "opening", c, opening[i])
       /\ UNCHANGED <<opening, live>>
    \/ /\ existing = None
       /\ opening[i] = None
       /\ live' = [live EXCEPT ![r].step = "acquiring", ![r].id = i]
       /\ opening' = [opening EXCEPT ![i] = r]
       /\ Goto(r, "create", c, r)

\* A create or attach command arrives.
RequestSession(r, c, i) ==
    /\ Receive(r, c)
    /\ Acquire(r, c, i)
    /\ UNCHANGED <<stage, closed, attached, sessions, server>>

\* The disposal that acquire waited for ends; if it failed, so does the request.
AcquireAgain(r) ==
    /\ req[r].pc = "wait"
    /\ ~DisposalPending(req[r].live)
    /\ \/ /\ live[req[r].live].runtime = "failed"
          /\ Answer(r)
          /\ UNCHANGED <<opening, live>>
       \/ /\ live[req[r].live].runtime # "failed"
          /\ Acquire(r, req[r].conn, live[req[r].live].id)
    /\ UNCHANGED <<stage, closed, attached, sessions, server>>

\* create: the backend yields a runtime or an error.  A server that began to
\* close in the meantime disposes the runtime again.
RuntimeAcquired(l) ==
    /\ live[l].step = "acquiring"
    /\ live' = [live EXCEPT ![l] =
                  IF isClosing THEN [Disposing(@) EXCEPT !.step = "failing"]
                  ELSE [@ EXCEPT !.runtime = "held", !.step = "snapshot"]]
    /\ UNCHANGED <<stage, closed, attached, sessions, opening, req, server>>

RuntimeRefused(l) ==
    /\ live[l].step = "acquiring"
    /\ live' = [live EXCEPT ![l].step = "failed"]
    /\ UNCHANGED <<stage, closed, attached, sessions, opening, req, server>>

\* create: the snapshot has the expected id, and the session is live.
SessionCreated(l) ==
    /\ live[l].step = "snapshot"
    /\ live' = [live EXCEPT ![l].step = "ready"]
    /\ sessions' = [sessions EXCEPT ![live[l].id] = l]
    /\ UNCHANGED <<stage, closed, attached, opening, req, server>>

\* create: the snapshot fails or has another id.
SnapshotRefused(l) ==
    /\ live[l].step = "snapshot"
    /\ live' = [live EXCEPT ![l] = [Disposing(@) EXCEPT !.step = "failing"]]
    /\ UNCHANGED <<stage, closed, attached, sessions, opening, req, server>>

\* The request that called create goes on, and forgets the opening.
CreatorContinues(r) ==
    LET l == req[r].live IN
    /\ req[r].pc = "create"
    /\ Settled(l)
    /\ opening' = [opening EXCEPT ![live[l].id] = IF @ = l THEN None ELSE @]
    /\ IF live[l].step = "ready" THEN Goto(r, "attach", req[r].conn, l) ELSE Answer(r)
    /\ UNCHANGED <<stage, closed, attached, sessions, live, server>>

\* A request that shares the opening goes on.
SharerContinues(r) ==
    LET l == req[r].live IN
    /\ req[r].pc = "opening"
    /\ Settled(l)
    /\ IF live[l].step = "ready" THEN Goto(r, "attach", req[r].conn, l) ELSE Answer(r)
    /\ UNCHANGED <<stage, closed, attached, sessions, opening, live, server>>

----------------------------------------------------------------------------
(***************************************************************************)
(* Attaching and detaching.                                                *)
(***************************************************************************)
Usable(c) == stage[c] = "ready" /\ c \notin closed

\* Mutant: a connection that is gone leaves the session as it is.
AttachLeavesSession(r) ==
    LET l == req[r].live
        c == req[r].conn IN
    /\ req[r].pc = "attach"
    /\ \/ /\ Usable(c)
          /\ attached' = [attached EXCEPT ![c] = @ \cup {live[l].id}]
          /\ live' = [live EXCEPT ![l].conns = @ \cup {c}]
          /\ Answer(r)
       \/ /\ ~Usable(c)
          /\ Answer(r)
          /\ UNCHANGED <<attached, live>>
    /\ UNCHANGED <<stage, closed, sessions, opening, server>>

\* attach: a connection that is gone gives the session up again.
Attach(r) ==
    LET l == req[r].live
        c == req[r].conn IN
    /\ req[r].pc = "attach"
    /\ \/ /\ Usable(c)
          /\ attached' = [attached EXCEPT ![c] = @ \cup {live[l].id}]
          /\ live' = [live EXCEPT ![l].conns = @ \cup {c}]
          /\ Answer(r)
       \/ /\ ~Usable(c)
          /\ live' = MaybeDispose(live, {l})
          /\ Answer(r)
          /\ UNCHANGED attached
    /\ UNCHANGED <<stage, closed, sessions, opening, server>>

\* A detach command.  If other connections remain they first get a snapshot.
RequestDetach(r, c, i) ==
    LET l == sessions[i] IN
    /\ Receive(r, c)
    /\ i \in attached[c]
    /\ attached' = [attached EXCEPT ![c] = @ \ {i}]
    /\ \/ /\ l = None
          /\ Answer(r)
          /\ UNCHANGED live
       \/ /\ l # None
          /\ LET left == [live EXCEPT ![l].conns = @ \ {c}] IN
             IF left[l].conns # {} /\ left[l].term = "no" /\ left[l].disposing = "unset"
               THEN live' = left /\ Goto(r, "detach", None, l)
               ELSE live' = MaybeDispose(left, {l}) /\ Answer(r)
    /\ UNCHANGED <<stage, closed, sessions, opening, server>>

\* The snapshot was sent.
Detached(r) ==
    /\ req[r].pc = "detach"
    /\ live' = MaybeDispose(live, {req[r].live})
    /\ Answer(r)
    /\ UNCHANGED <<stage, closed, attached, sessions, opening, server>>

----------------------------------------------------------------------------
(***************************************************************************)
(* Operations: prompt, steer, abort, set_model, set_thinking.              *)
(***************************************************************************)
\* requireAttached
Controllable(c, i) ==
    /\ i \in attached[c]
    /\ sessions[i] # None
    /\ live[sessions[i]].term = "no"
    /\ live[sessions[i]].disposing = "unset"

\* runOperation
RequestOperation(r, c, i) ==
    /\ Receive(r, c)
    /\ Controllable(c, i)
    /\ live' = [live EXCEPT ![sessions[i]].ops = @ \cup {r}]
    /\ Goto(r, "operate", None, sessions[i])
    /\ UNCHANGED <<stage, closed, attached, sessions, opening, server>>

\* The operation and the snapshot after it have settled.
OperationDone(r) ==
    LET l == req[r].live IN
    /\ req[r].pc = "operate"
    /\ live' = MaybeDispose([live EXCEPT ![l].ops = @ \ {r}], {l})
    /\ Answer(r)
    /\ UNCHANGED <<stage, closed, attached, sessions, opening, server>>

\* A prompt makes the runtime work, which may outlast the operation.
WorkStarts(l) ==
    /\ live[l].ops # {}
    /\ live[l].runtime = "held"
    /\ live' = [live EXCEPT ![l].phase = "busy"]
    /\ UNCHANGED <<stage, closed, attached, sessions, opening, req, server>>

\* The runtime is idle again and says so.
WorkEnds(l) ==
    /\ live[l].phase = "busy"
    /\ LET idle == [live EXCEPT ![l].phase = "idle"] IN
       live' = IF Subscribed(live[l]) THEN MaybeDispose(idle, {l}) ELSE idle
    /\ UNCHANGED <<stage, closed, attached, sessions, opening, req, server>>

\* handleRuntimeEvent for a progress or snapshot event.
RuntimeEvent(l) ==
    /\ Subscribed(live[l])
    /\ live' = MaybeDispose(live, {l})
    /\ UNCHANGED <<stage, closed, attached, sessions, opening, req, server>>

----------------------------------------------------------------------------
(***************************************************************************)
(* Connections, and sessions that fail.                                    *)
(***************************************************************************)
\* The other side closes, a message cannot be sent or one is not understood.
TransportCloses(c) ==
    /\ Quiet
    /\ stage[c] = "ready"
    /\ c \notin closed
    /\ closed' = closed \cup {c}
    /\ UNCHANGED <<stage, attached, sessions, opening, live, req, server>>

\* The sessions the connections S are attached to.
Left(S) == {sessions[i] : i \in UNION {attached[c] : c \in S}} \ {None}

\* Mutant: a connection that is gone stays in its sessions.
DisconnectForgetsSessions(lives, S) ==
    LET gone == {c \in S : stage[c] # "closed"} IN
    /\ stage' = [c \in Conns |-> IF c \in gone THEN "closed" ELSE stage[c]]
    /\ attached' = [c \in Conns |-> IF c \in gone THEN {} ELSE attached[c]]
    /\ live' = MaybeDispose(lives, Left(gone))

\* disconnect, up to its await, of those of the connections S that are not yet
\* disconnected: they leave their sessions, which may not be needed any more.
DisconnectAll(lives, S) ==
    LET gone == {c \in S : stage[c] # "closed"}
        left == [l \in Reqs |-> [lives[l] EXCEPT !.conns =
                   {c \in @ : ~\E i \in attached[c] : c \in gone /\ sessions[i] = l}]] IN
    /\ stage' = [c \in Conns |-> IF c \in gone THEN "closed" ELSE stage[c]]
    /\ attached' = [c \in Conns |-> IF c \in gone THEN {} ELSE attached[c]]
    /\ live' = MaybeDispose(left, Left(gone))

\* transportClosed, or what follows closeConnection.
Disconnect(c) ==
    /\ c \in closed
    /\ stage[c] # "closed"
    /\ DisconnectAll(live, {c})
    /\ UNCHANGED <<closed, sessions, opening, req, server>>

\* handleRuntimeEvent for an error: terminate closes the connections ...
RuntimeFails(l) ==
    /\ Subscribed(live[l])
    /\ live' = [live EXCEPT ![l].term = "closing", ![l].doomed = live[l].conns]
    /\ closed' = closed \cup live[l].conns
    /\ UNCHANGED <<stage, attached, sessions, opening, req, server>>

\* ... disconnects them ...
TerminateDisconnects(l) ==
    /\ live[l].term = "closing"
    /\ DisconnectAll([live EXCEPT ![l].term = "disconnected"], live[l].doomed)
    /\ UNCHANGED <<closed, sessions, opening, req, server>>

\* ... and disposes the session.
TerminateDisposes(l) ==
    /\ live[l].term = "disconnected"
    /\ live' = MaybeDispose([live EXCEPT ![l].term = "done", ![l].doomed = {}], {l})
    /\ UNCHANGED <<stage, closed, attached, sessions, opening, req, server>>

----------------------------------------------------------------------------
(***************************************************************************)
(* Closing the server.                                                     *)
(***************************************************************************)
Advance(from, to, awaits) ==
    /\ server.step = from
    /\ server' = [step |-> to, awaits |-> awaits]

\* close: the listeners are closed first.
Close ==
    /\ Quiet
    /\ Advance("open", "listeners", {})
    /\ UNCHANGED <<stage, closed, attached, sessions, opening, live, req>>

\* closeServerState
CloseConnections ==
    LET open == {c \in Conns : stage[c] \in {"ready", "closing"}} IN
    /\ Advance("listeners", "connections", {})
    /\ stage' = [c \in Conns |-> IF c \in open THEN "closing" ELSE stage[c]]
    /\ closed' = closed \cup open
    /\ UNCHANGED <<attached, sessions, opening, live, req>>

CloseDisconnects ==
    /\ Advance("connections", "disconnected", {})
    /\ DisconnectAll(live, {c \in Conns : stage[c] = "closing"})
    /\ UNCHANGED <<closed, sessions, opening, req>>

\* Mutant: the openings are not awaited.
CloseAwaitsNothing ==
    /\ Advance("disconnected", "openings", {})
    /\ UNCHANGED <<stage, closed, attached, sessions, opening, live, req>>

\* LiveSessionManager.close: the openings are awaited ...
CloseAwaitsOpenings ==
    /\ Advance("disconnected", "openings", {opening[i] : i \in Ids} \ {None})
    /\ UNCHANGED <<stage, closed, attached, sessions, opening, live, req>>

\* Mutant: sessions whose disposal has begun are disposed again.
CloseDisposesAll ==
    LET all == {sessions[i] : i \in Ids} \ {None} IN
    /\ \A l \in server.awaits : Settled(l)
    /\ Advance("openings", "disposing", all)
    /\ sessions' = [i \in Ids |-> None]
    /\ live' = [l \in Reqs |-> IF l \in all THEN Disposing(live[l]) ELSE live[l]]
    /\ UNCHANGED <<stage, closed, attached, opening, req>>

\* ... then every live session is disposed, or its disposal awaited.
CloseDisposes ==
    LET all == {sessions[i] : i \in Ids} \ {None} IN
    /\ \A l \in server.awaits : Settled(l)
    /\ Advance("openings", "disposing", all)
    /\ sessions' = [i \in Ids |-> None]
    /\ live' = [l \in Reqs |-> IF l \in all /\ live[l].disposing = "unset"
                                  THEN Disposing(live[l]) ELSE live[l]]
    /\ UNCHANGED <<stage, closed, attached, opening, req>>

\* A disposal that fails ends close at once.
Closed ==
    /\ \/ \A l \in server.awaits : live[l].runtime \in {"disposed", "failed"}
       \/ \E l \in server.awaits : live[l].runtime = "failed"
    /\ Advance("disposing", "closed", {})
    /\ UNCHANGED <<stage, closed, attached, sessions, opening, live, req>>

----------------------------------------------------------------------------
Creation(l) == RuntimeAcquired(l) \/ SessionCreated(l)
Termination(l) == TerminateDisconnects(l) \/ TerminateDisposes(l)
Continue(r) ==
    \/ AcquireAgain(r) \/ CreatorContinues(r) \/ SharerContinues(r) \/ Attach(r)
    \/ Detached(r)
Closing == CloseConnections \/ CloseDisconnects \/ CloseAwaitsOpenings \/ CloseDisposes \/ Closed

Message(r, c, i) == RequestSession(r, c, i) \/ RequestDetach(r, c, i) \/ RequestOperation(r, c, i)

Fault(l) == RuntimeRefused(l) \/ SnapshotRefused(l) \/ DisposeFails(l) \/ RuntimeFails(l)

Step ==
    \/ \E r \in Reqs : Continue(r) \/ OperationDone(r)
    \/ \E l \in Reqs :
         \/ Creation(l) \/ Termination(l) \/ DisposeDone(l)
         \/ WorkStarts(l) \/ WorkEnds(l) \/ RuntimeEvent(l)
    \/ \E c \in Conns : TransportCloses(c) \/ Disconnect(c)
    \/ Close \/ Closing

After == turn' = None /\ UNCHANGED faults

Next ==
    \/ \E r \in Reqs, c \in Conns, i \in Ids :
         Message(r, c, i) /\ turn' = c /\ UNCHANGED faults
    \/ Step /\ After
    \/ \E l \in Reqs : Fault(l) /\ turn' = None /\ faults < MaxFaults /\ faults' = faults + 1

Spec == Init /\ [][Next]_vars

\* Continuations run, the backend and the runtimes answer, work ends and closed
\* connections are noticed.  Requests, failures and close are not forced.
Fairness ==
    /\ \A r \in Reqs : WF_vars(Continue(r) /\ After) /\ WF_vars(OperationDone(r) /\ After)
    /\ \A l \in Reqs :
         /\ WF_vars(Creation(l) /\ After)
         /\ WF_vars(Termination(l) /\ After)
         /\ WF_vars(DisposeDone(l) /\ After)
         /\ WF_vars(WorkEnds(l) /\ After)
    /\ \A c \in Conns : WF_vars(Disconnect(c) /\ After)
    /\ WF_vars(Closing /\ After)

LiveSpec == Spec /\ Fairness

----------------------------------------------------------------------------
(***************************************************************************)
(* Properties.                                                             *)
(***************************************************************************)
\* The backend is asked for a runtime of the session, or has given one that is
\* not yet disposed.
Claims(l) == live[l].step = "acquiring" \/ live[l].runtime \in {"held", "disposing"}

\* The backend hands out runtimes exclusively: whatever requests, failures and
\* shutdowns overlap, a session is not acquired while a runtime of it exists.
SingletonRuntime ==
    \A l, m \in Reqs : Claims(l) /\ Claims(m) /\ live[l].id = live[m].id => l = m

\* While an operation runs, its runtime is not disposed, unless the server closes.
OperationsAreServed ==
    \A l \in Reqs : live[l].ops # {} => live[l].runtime = "held" \/ isClosing

\* dispose is called at most once on a runtime, although detaching, the end of
\* operations, events, termination and close may all find the session unneeded.
DisposedOnce == \A l \in Reqs : live[l].disposals <= 1

\* Events of a session go only to connections that know they are attached to it.
EventsReachAttached ==
    \A l \in Reqs : Subscribed(live[l]) => \A c \in live[l].conns : live[l].id \in attached[c]

\* No session is kept when nobody needs it.
NoneKeptForever == \A l \in Reqs : []<>~Unneeded(live[l])

\* close releases every runtime, also one that is being acquired.
CloseReleasesAll == <>[](isClosing => \A l \in Reqs : live[l].runtime # "held")

\* Every request is answered, those that wait for a disposal or share an opening
\* included.
RequestsAnswered == \A r \in Reqs : req[r].pc # "new" ~> req[r].pc = "done"

----------------------------------------------------------------------------
(***************************************************************************)
(* What the liveness properties rest on, stated without fairness.          *)
(***************************************************************************)
\* A promise of the backend or of a runtime is pending for the session.
InProgress(l) == live[l].step \in {"acquiring", "snapshot"} \/ live[l].runtime = "disposing"

\* A request that has not been answered, and close, can go on, or wait for a promise
\* of the backend or of a runtime: never for each other.
WaitsForSomebody ==
    /\ \A r \in Reqs :
         \/ req[r].pc \in {"new", "done", "operate", "detach"}
         \/ Ready(r)
         \/ InProgress(req[r].live)
    /\ server.step = "openings" => \A l \in server.awaits : Settled(l) \/ InProgress(l)
    /\ server.step = "disposing" =>
         \A l \in server.awaits : live[l].runtime \in {"disposed", "failed"} \/ InProgress(l)

\* When close has taken the sessions, no runtime is left that nobody disposes, not even
\* one whose session was being opened when close was called.
CloseLeavesNone ==
    server.step \in {"disposing", "closed"} => \A l \in Reqs : live[l].runtime # "held"

\* Somebody is about to ask whether the session is needed.
Attended(l) ==
    \/ \E r \in Reqs : req[r].live = l /\ req[r].pc \in {"create", "opening", "attach", "detach"}
    \/ live[l].term \in {"closing", "disconnected"}

\* A session that nobody needs is not forgotten: a request on its way to it, or its
\* termination, is still going to call maybeDispose.
UnneededIsAttended == \A l \in Reqs : Unneeded(live[l]) => Attended(l)

\* A session is created by the request that is identified with it.
Created ==
    \A l \in Reqs : live[l].step \in {"acquiring", "snapshot", "failing"} =>
        req[l].pc = "create" /\ req[l].live = l

\* close awaits sessions that exist, and disposes sessions that are ready.
CloseWaits ==
    /\ server.step = "openings" => \A l \in server.awaits : live[l].step # "new"
    /\ server.step = "disposing" => \A l \in server.awaits : live[l].step = "ready"

=============================================================================
