-------------------------- MODULE LiveSessionsProofs --------------------------
(***************************************************************************)
(* Proofs about LiveSessions: one runtime for a session, no operation on a *)
(* runtime that is being disposed, one call of dispose, and events only to *)
(* attached connections, for any connections, sessions and requests.       *)
(***************************************************************************)
EXTENDS LiveSessions, TLAPS

----------------------------------------------------------------------------
(***************************************************************************)
(* The inductive invariant.                                                *)
(***************************************************************************)
\* close has taken the live sessions out of the map.
Late == server.step \in {"disposing", "closed"}

\* What the fields of one LiveSession object have to do with each other.
Coherent(v) ==
    /\ v.step \in {"new", "acquiring"} => v.runtime = "none"
    /\ v.step = "snapshot" => v.runtime = "held"
    /\ v.step = "failing" => v.runtime = "disposing"
    /\ v.step = "failed" => v.runtime \in {"none", "disposed", "failed"}
    /\ v.step = "ready" => v.runtime # "none"
    /\ v.step # "ready" => v.disposing = "unset" /\ v.conns = {} /\ v.ops = {} /\ v.term = "no"
    /\ v.step # "new" => v.id \in Ids
    /\ v.disposing = "set" => v.runtime # "held"
    /\ v.disposals = IF v.runtime \in {"none", "held"} THEN 0 ELSE 1

Records == \A l \in Reqs : Coherent(live[l])

\* A ready session is in the map until its disposal has settled or close has
\* taken it, and its disposal is that of maybeDispose or that of close.
Mapped ==
    \A l \in Reqs : live[l].step = "ready" =>
        /\ live[l].runtime = "held" => sessions[live[l].id] = l
        /\ live[l].runtime = "disposing" => Late \/ sessions[live[l].id] = l
        /\ live[l].runtime # "held" => Late \/ live[l].disposing = "set"

Entries ==
    \A i \in Ids : sessions[i] # None =>
        /\ live[sessions[i]].id = i
        /\ live[sessions[i]].step = "ready"
        /\ live[sessions[i]].runtime = "held" \/ DisposalPending(sessions[i])

\* Until its creation has settled a session is the one being opened, and there is
\* no other.
Opened ==
    /\ \A l \in Reqs : live[l].step \in {"acquiring", "snapshot", "failing"} =>
         opening[live[l].id] = l /\ sessions[live[l].id] = None
    /\ \A i \in Ids : opening[i] # None => live[opening[i]].step # "new" /\ live[opening[i]].id = i

\* What a request knows of the session it deals with.
Informed ==
    \A r \in Reqs :
        /\ req[r].pc \in {"new", "wait"} => live[r].step = "new"
        /\ req[r].pc \notin {"new", "done"} => req[r].live \in Reqs
        /\ req[r].pc \in {"wait", "create", "opening", "attach"} => req[r].conn \in Conns
        /\ req[r].pc = "wait" => live[req[r].live].disposing = "set"
        /\ req[r].pc \in {"create", "opening"} => live[req[r].live].step # "new"
        /\ req[r].pc \in {"attach", "operate", "detach"} => live[req[r].live].step = "ready"

\* close waits for the sessions that passed the check of isClosing before it, and
\* no message arrives once it has closed the connections.
Shutdown ==
    /\ server.step = "openings" => \A l \in Reqs : live[l].step = "snapshot" => l \in server.awaits
    /\ Late => \A l \in Reqs : live[l].step # "snapshot"
    /\ Late => \A i \in Ids : sessions[i] = None
    /\ server.step \notin {"open", "listeners"} => \A c \in Conns : stage[c] # "ready"

InUse(l) == live[l].step \in {"snapshot", "ready"} /\ live[l].runtime \in {"held", "disposing"}

\* While the server closes, a session whose disposal a request awaits is not
\* replaced by another one.
Awaited ==
    isClosing => \A r, l \in Reqs :
        req[r].pc = "wait" /\ InUse(l) /\ live[l].id = live[req[r].live].id => l = req[r].live

SessionInv ==
    /\ TypeOK
    /\ Records
    /\ Mapped
    /\ Entries
    /\ Opened
    /\ Informed
    /\ Shutdown
    /\ Awaited
    /\ SingletonRuntime
    /\ OperationsAreServed
    /\ EventsReachAttached

----------------------------------------------------------------------------
(***************************************************************************)
(* Steps that create no session and settle no disposal.                    *)
(***************************************************************************)
\* The object differs from what it was, if at all, in its connections, operations,
\* phase and termination, or its disposal begins.
Calm(v, w) ==
    /\ w.id = v.id
    /\ w.step = v.step
    /\ \/ w.runtime = v.runtime /\ w.disposing = v.disposing
       \/ /\ v.step = "ready" /\ v.runtime = "held" /\ ~isClosing
          /\ w.runtime = "disposing" /\ w.disposing = "set"

CalmLives == \A l \in Reqs : Calm(live[l], live'[l])

\* A request in hand is the same as before or is answered, or deals with a ready
\* session.
CalmRequests ==
    \A r \in Reqs :
        \/ req'[r] = req[r]
        \/ req'[r].pc = "done"
        \/ /\ req'[r].pc \in {"attach", "operate", "detach"}
           /\ req'[r].pc = "attach" => req'[r].conn \in Conns
           /\ req'[r].live \in Reqs
           /\ live[req'[r].live].step = "ready"

\* A calm step leaves the maps of live and opening sessions in order.
LEMMA CalmMaps ==
  ASSUME SessionInv, TypeOK', CalmLives, sessions' = sessions, opening' = opening, Late' = Late,
         Late => isClosing
  PROVE  Mapped' /\ Entries' /\ Opened'
<1>1. Mapped'
  BY SMT DEF SessionInv, TypeOK, CalmLives, Calm, Mapped, Late, isClosing
<1>2. Entries'
  BY SMT DEF SessionInv, TypeOK, CalmLives, Calm, Entries, DisposalPending
<1>3. Opened'
  <2>1. \A l \in Reqs : live'[l].id = live[l].id /\ live'[l].step = live[l].step
    BY DEF CalmLives, Calm
  <2>2. \A i \in Ids : opening[i] # None => opening[i] \in Reqs
    BY DEF SessionInv, TypeOK
  <2> QED BY <2>1, <2>2 DEF SessionInv, Opened
<1> QED BY <1>1, <1>2, <1>3

\* Under a calm step requests keep the session object they were given.
LEMMA CalmInformed ==
  ASSUME SessionInv, TypeOK', CalmLives, CalmRequests
  PROVE  Informed'
BY SMT DEF SessionInv, TypeOK, CalmLives, Calm, CalmRequests, Informed

\* A calm step does not disturb what close has established.
LEMMA CalmShutdown ==
  ASSUME SessionInv, CalmLives, sessions' = sessions, server' = server,
         \A c \in Conns : stage'[c] = "ready" => stage[c] = "ready"
  PROVE  Shutdown'
BY SMT DEF SessionInv, TypeOK, CalmLives, Calm, Shutdown, Late

\* During close a request still waits for the only object of its session.
LEMMA CalmAwaited ==
  ASSUME SessionInv, TypeOK', CalmLives, isClosing' = isClosing, CalmRequests
  PROVE  Awaited'
<1> SUFFICES ASSUME isClosing, NEW r \in Reqs, NEW l \in Reqs,
                    req'[r].pc = "wait", InUse(l)', live'[l].id = live'[req'[r].live].id
             PROVE  l = req'[r].live
  BY DEF Awaited
<1>1. req'[r] = req[r] /\ req[r].live \in Reqs
  BY DEF CalmRequests, SessionInv, Informed
<1>2. live'[l].id = live[l].id /\ live'[l].step = live[l].step /\ live'[l].runtime = live[l].runtime
  BY DEF CalmLives, Calm
<1>3. live'[req[r].live].id = live[req[r].live].id
  BY <1>1 DEF CalmLives, Calm
<1> QED BY <1>1, <1>2, <1>3 DEF SessionInv, Awaited, InUse

\* The objects that a step hands to maybeDispose, or leaves as they are.
Alike(lives) ==
    /\ lives \in [Reqs -> LiveRecords]
    /\ \A l \in Reqs :
         /\ lives[l].id = live[l].id
         /\ lives[l].step = live[l].step
         /\ lives[l].runtime = live[l].runtime
         /\ lives[l].disposing = live[l].disposing
         /\ lives[l].disposals = live[l].disposals
         /\ lives[l].step # "ready" => lives[l].conns = {} /\ lives[l].ops = {} /\ lives[l].term = "no"

\* Objects that are alike have coherent records.
LEMMA AlikeCoherent ==
  ASSUME SessionInv, NEW lives, Alike(lives), NEW l \in Reqs
  PROVE  Coherent(lives[l])
<1>1. Coherent(live[l])
  BY DEF SessionInv, Records
<1> QED BY <1>1 DEF Alike, Coherent

\* The record of an object that begins to dispose has its type.
LEMMA DisposingRecord ==
  ASSUME NEW v \in LiveRecords
  PROVE  /\ Disposing(v) \in LiveRecords
         /\ [Disposing(v) EXCEPT !.disposing = "set"] \in LiveRecords
<1>1. \A w \in LiveRecords : [w EXCEPT !.runtime = "disposing"] \in LiveRecords
  BY SMT DEF LiveRecords, Runtimes
<1>2. \A w \in LiveRecords, n \in Nat : [w EXCEPT !.disposals = n] \in LiveRecords
  BY SMT DEF LiveRecords
<1>3. \A w \in LiveRecords : [w EXCEPT !.phase = "idle"] \in LiveRecords
  BY SMT DEF LiveRecords
<1>4. \A w \in LiveRecords : [w EXCEPT !.disposing = "set"] \in LiveRecords
  BY SMT DEF LiveRecords
<1>5. v.disposals + 1 \in Nat
  BY DEF LiveRecords
<1>6. Disposing(v) = [[[v EXCEPT !.runtime = "disposing"] EXCEPT !.disposals = v.disposals + 1]
                        EXCEPT !.phase = "idle"]
  BY Zenon DEF Disposing
<1>7. [[v EXCEPT !.runtime = "disposing"] EXCEPT !.disposals = v.disposals + 1] \in LiveRecords
  BY <1>1, <1>2, <1>5, Zenon
<1>8. Disposing(v) \in LiveRecords
  BY <1>3, <1>6, <1>7, Zenon
<1> QED BY <1>4, <1>8, Zenon

\* What maybeDispose makes of one object.
LEMMA DisposedRecord ==
  ASSUME SessionInv, NEW lives, Alike(lives), NEW S, NEW l \in Reqs,
         NEW w, w = MaybeDispose(lives, S)[l]
  PROVE  /\ w \in LiveRecords
         /\ Coherent(w)
         /\ Calm(live[l], w)
         /\ w.conns = lives[l].conns /\ w.ops = lives[l].ops /\ w.term = lives[l].term
         /\ w.runtime = "held" => live[l].runtime = "held"
         /\ w.runtime # live[l].runtime => lives[l].ops = {}
<1> DEFINE v == lives[l]
<1>1. v \in LiveRecords /\ Coherent(v)
  BY AlikeCoherent DEF Alike
<1>2. v.id = live[l].id /\ v.step = live[l].step /\ v.runtime = live[l].runtime /\ v.disposing = live[l].disposing
  BY DEF Alike
<1>3. w = IF l \in S /\ Unneeded(v) THEN [Disposing(v) EXCEPT !.disposing = "set"] ELSE v
  BY DEF MaybeDispose
<1>4. CASE ~(l \in S /\ Unneeded(v))
  BY <1>1, <1>2, <1>3, <1>4 DEF Calm
<1>5. CASE l \in S /\ Unneeded(v)
  <2>1. ~isClosing /\ v.step = "ready" /\ v.disposing = "unset" /\ v.conns = {} /\ v.ops = {}
    BY <1>5 DEF Unneeded
  <2>2. v.runtime = "held"
    BY <1>2, <2>1 DEF SessionInv, Mapped, Late, isClosing
  <2>3. w = [Disposing(v) EXCEPT !.disposing = "set"]
    BY <1>3, <1>5
  <2>4. w \in LiveRecords
    BY <1>1, <2>3, DisposingRecord
  <2>5. /\ w.id = v.id /\ w.step = v.step /\ w.conns = v.conns /\ w.ops = v.ops /\ w.term = v.term
        /\ w.runtime = "disposing" /\ w.disposing = "set" /\ w.disposals = v.disposals + 1
    BY <1>1, <2>3 DEF Disposing, LiveRecords
  <2>6. v.disposals = 0 /\ v.id \in Ids
    BY <1>1, <2>1, <2>2 DEF Coherent
  <2>7. Coherent(w)
    BY <2>1, <2>5, <2>6 DEF Coherent
  <2> QED BY <1>2, <2>1, <2>2, <2>4, <2>5, <2>7 DEF Calm
<1> QED BY <1>4, <1>5

\* A step that hands objects like these to maybeDispose.
LEMMA CalmDisposal ==
  ASSUME SessionInv, NEW lives, Alike(lives), NEW S, live' = MaybeDispose(lives, S)
  PROVE  /\ live' \in [Reqs -> LiveRecords]
         /\ Records'
         /\ CalmLives
         /\ \A l \in Reqs :
              /\ live'[l].conns = lives[l].conns /\ live'[l].ops = lives[l].ops
              /\ live'[l].term = lives[l].term
              /\ live'[l].runtime = "held" => live[l].runtime = "held"
              /\ live'[l].runtime # live[l].runtime => lives[l].ops = {}
<1> DEFINE m == MaybeDispose(lives, S)
<1>1. DOMAIN m = Reqs /\ m = [l \in Reqs |-> m[l]]
  BY DEF MaybeDispose
<1>2. \A l \in Reqs : /\ m[l] \in LiveRecords
                      /\ Coherent(m[l])
                      /\ Calm(live[l], m[l])
                      /\ m[l].conns = lives[l].conns /\ m[l].ops = lives[l].ops /\ m[l].term = lives[l].term
                      /\ m[l].runtime = "held" => live[l].runtime = "held"
                      /\ m[l].runtime # live[l].runtime => lives[l].ops = {}
  BY DisposedRecord
<1> HIDE DEF m
<1>3. live' = m
  BY DEF m
<1> QED BY <1>1, <1>2, <1>3 DEF Records, CalmLives

\* The objects handed to maybeDispose have no operations on a runtime that is gone,
\* and no connections that are not attached.
Sound(lives) ==
    \A l \in Reqs :
        /\ lives[l].ops # {} => live[l].ops # {} \/ live[l].runtime = "held"
        /\ lives[l].term = "no" => live[l].term = "no"
        /\ Subscribed(live[l]) /\ lives[l].term = "no" =>
             \A c \in lives[l].conns : live[l].id \in attached'[c]

\* The other variables have their types.
TypeOKButLive ==
    /\ stage \in [Conns -> Stages]
    /\ closed \in SUBSET Conns
    /\ attached \in [Conns -> SUBSET Ids]
    /\ sessions \in [Ids -> Reqs \cup {None}]
    /\ opening \in [Ids -> Reqs \cup {None}]
    /\ req \in [Reqs -> Requests]
    /\ server \in [step : ServerSteps, awaits : SUBSET Reqs]
    /\ turn \in Conns \cup {None}
    /\ faults \in 0..MaxFaults

\* The late steps of close are steps of closing.
LEMMA LateCloses ==
  ASSUME Late
  PROVE  isClosing
BY DEF Late, isClosing

\* A calm step preserves the invariant.
LEMMA CalmStep ==
  ASSUME SessionInv, TypeOKButLive', NEW lives, Alike(lives), Sound(lives), NEW S,
         live' = MaybeDispose(lives, S), CalmRequests,
         sessions' = sessions, opening' = opening, Late' = Late, isClosing' = isClosing,
         CalmLives => Shutdown'
  PROVE  SessionInv'
<1>1. /\ live' \in [Reqs -> LiveRecords]
      /\ Records'
      /\ CalmLives
      /\ \A l \in Reqs :
           /\ live'[l].conns = lives[l].conns /\ live'[l].ops = lives[l].ops
           /\ live'[l].term = lives[l].term
           /\ live'[l].runtime = "held" => live[l].runtime = "held"
           /\ live'[l].runtime # live[l].runtime => lives[l].ops = {}
  BY CalmDisposal
<1>2. TypeOK'
  BY <1>1 DEF TypeOK, TypeOKButLive
<1>3. Mapped' /\ Entries' /\ Opened'
  BY <1>1, <1>2, CalmMaps, LateCloses
<1>4. Informed' /\ Awaited'
  BY <1>1, <1>2, CalmInformed, CalmAwaited
<1>5. SingletonRuntime'
  <2>1. \A l \in Reqs : Claims(l)' => Claims(l)
    BY <1>1 DEF CalmLives, Calm, Claims
  <2> QED BY <1>1, <2>1 DEF CalmLives, Calm, SessionInv, SingletonRuntime
<1>6. OperationsAreServed'
  BY <1>1 DEF Sound, SessionInv, OperationsAreServed
<1>7. EventsReachAttached'
  <2> SUFFICES ASSUME NEW l \in Reqs, Subscribed(live'[l]), NEW c \in live'[l].conns
               PROVE  live'[l].id \in attached'[c]
    BY DEF EventsReachAttached, Subscribed
  <2>1. live'[l].id = live[l].id /\ live'[l].step = live[l].step
    BY <1>1 DEF CalmLives, Calm
  <2>2. Subscribed(live[l]) /\ lives[l].term = "no"
    BY <1>1, <2>1 DEF Subscribed, Sound
  <2> QED BY <1>1, <2>1, <2>2 DEF Sound
<1> QED BY <1>1, <1>2, <1>3, <1>4, <1>5, <1>6, <1>7 DEF SessionInv

\* An action whose parts are calm preserves the invariant.
LEMMA CalmAction ==
  ASSUME SessionInv, NEW lives, Alike(lives), Sound(lives), NEW S,
         live' = MaybeDispose(lives, S),
         req' \in [Reqs -> Requests] /\ CalmRequests,
         UNCHANGED <<sessions, opening, server>>,
         stage' \in [Conns -> Stages], closed' \in SUBSET Conns, attached' \in [Conns -> SUBSET Ids],
         turn' \in Conns \cup {None}, faults' \in 0..MaxFaults,
         \A c \in Conns : stage'[c] = "ready" => stage[c] = "ready"
  PROVE  SessionInv'
<1>1. TypeOKButLive'
  BY DEF SessionInv, TypeOK, TypeOKButLive
<1>2. CalmLives => Shutdown'
  BY CalmShutdown
<1>3. Late' = Late /\ isClosing' = isClosing
  BY DEF Late, isClosing
<1> QED BY <1>1, <1>2, <1>3, CalmStep

\* A step that leaves the objects to nobody.
LEMMA NoDisposal ==
  ASSUME NEW lives \in [Reqs -> LiveRecords]
  PROVE  lives = MaybeDispose(lives, {})
BY DEF MaybeDispose

----------------------------------------------------------------------------
(***************************************************************************)
(* Requests.                                                               *)
(***************************************************************************)
LEMMA AnswerIsCalm ==
  ASSUME TypeOK, NEW r \in Reqs, Answer(r)
  PROVE  req' \in [Reqs -> Requests] /\ CalmRequests
BY DEF TypeOK, Answer, CalmRequests, Requests, PCs

\* A request that moves on with a ready object is calm.
LEMMA GotoIsCalm ==
  ASSUME TypeOK, NEW r \in Reqs, NEW pc \in {"attach", "operate", "detach"}, NEW c \in Conns \cup {None},
         NEW l \in Reqs, pc = "attach" => c \in Conns, live[l].step = "ready", Goto(r, pc, c, l)
  PROVE  req' \in [Reqs -> Requests] /\ CalmRequests
BY DEF TypeOK, Goto, CalmRequests, Requests, PCs

\* Requests that do not move are calm.
LEMMA WaitingIsCalm ==
  ASSUME TypeOK, req' = req
  PROVE  req' \in [Reqs -> Requests] /\ CalmRequests
BY DEF TypeOK, CalmRequests

\* Objects of which nothing but the connections, operations, phase or termination of
\* ready ones changes.
LEMMA AlikeUpdate ==
  ASSUME SessionInv, NEW lives \in [Reqs -> LiveRecords],
         \A l \in Reqs : \/ lives[l] = live[l]
                         \/ /\ live[l].step = "ready"
                            /\ lives[l].id = live[l].id
                            /\ lives[l].step = live[l].step
                            /\ lives[l].runtime = live[l].runtime
                            /\ lives[l].disposing = live[l].disposing
                            /\ lives[l].disposals = live[l].disposals
  PROVE  Alike(lives)
<1>1. \A l \in Reqs : Coherent(live[l])
  BY DEF SessionInv, Records
<1>2. \A l \in Reqs : live[l].step # "ready" =>
          live[l].conns = {} /\ live[l].ops = {} /\ live[l].term = "no"
  BY <1>1 DEF Coherent
<1> QED BY <1>2 DEF Alike

\* Objects are alike if none of them changes.
LEMMA LiveIsAlike ==
  ASSUME SessionInv
  PROVE  Alike(live) /\ live = MaybeDispose(live, {})
<1>1. live \in [Reqs -> LiveRecords]
  BY DEF SessionInv, TypeOK
<1> QED BY <1>1, AlikeUpdate, NoDisposal

\* So are their events, if the connections stay attached.
LEMMA LiveIsSound ==
  ASSUME SessionInv, attached' = attached
  PROVE  Sound(live)
BY DEF SessionInv, EventsReachAttached, Sound

----------------------------------------------------------------------------
(***************************************************************************)
(* Actions that are calm.                                                  *)
(***************************************************************************)
Stamped == turn' \in Conns \cup {None} /\ faults' \in 0..MaxFaults

\* attach: the connection and the session learn of each other.
LEMMA AttachStep ==
  ASSUME SessionInv, NEW r \in Reqs, Attach(r), Stamped
  PROVE  SessionInv'
<1> USE DEF SessionInv
<1> DEFINE l == req[r].live
           c == req[r].conn
<1>1. l \in Reqs /\ c \in Conns /\ live[l].step = "ready" /\ req[r].pc = "attach"
  BY DEF Attach, Informed
<1>2. live[l].id \in Ids /\ live[l] \in LiveRecords
  BY <1>1 DEF Records, Coherent, TypeOK
<1>3. req' \in [Reqs -> Requests] /\ CalmRequests
  <2>1. Answer(r)
    BY DEF Attach
  <2> QED BY <2>1, AnswerIsCalm
<1>4. UNCHANGED <<stage, closed, sessions, opening, server>>
  BY DEF Attach
<1>5. stage \in [Conns -> Stages] /\ closed \in SUBSET Conns
  BY DEF TypeOK
<1>6. CASE Usable(c)
  <2> DEFINE lives == [live EXCEPT ![l].conns = @ \cup {c}]
  <2>1. attached' = [attached EXCEPT ![c] = @ \cup {live[l].id}] /\ live' = lives
    BY <1>6 DEF Attach
  <2>2. lives \in [Reqs -> LiveRecords]
    BY <1>1, <1>2 DEF TypeOK, LiveRecords
  <2>3. \A k \in Reqs : k # l => lives[k] = live[k]
    BY DEF TypeOK
  <2>4. lives[l] = [live[l] EXCEPT !.conns = @ \cup {c}]
    BY <1>1 DEF TypeOK
  <2>5. /\ lives[l].id = live[l].id /\ lives[l].step = live[l].step
        /\ lives[l].runtime = live[l].runtime /\ lives[l].disposing = live[l].disposing
        /\ lives[l].disposals = live[l].disposals /\ lives[l].ops = live[l].ops
        /\ lives[l].term = live[l].term /\ lives[l].conns = live[l].conns \cup {c}
    BY <1>2, <2>4 DEF LiveRecords
  <2> HIDE DEF lives
  <2>6. Alike(lives)
    BY <1>1, <2>2, <2>3, <2>5, AlikeUpdate
  <2>7. /\ attached' \in [Conns -> SUBSET Ids]
        /\ live[l].id \in attached'[c]
        /\ \A d \in Conns : attached[d] \subseteq attached'[d]
    BY <1>1, <1>2, <2>1 DEF TypeOK
  <2>8. \A k \in Reqs : live[k].conns \subseteq Conns
    BY DEF TypeOK, LiveRecords
  <2>9. Sound(lives)
    BY <1>1, <2>3, <2>5, <2>7, <2>8 DEF Sound, EventsReachAttached
  <2> QED BY <1>3, <1>4, <1>5, <2>1, <2>2, <2>6, <2>7, <2>9, NoDisposal, CalmAction DEF Stamped
<1>7. CASE ~Usable(c)
  <2>1. live' = MaybeDispose(live, {l}) /\ attached' = attached
    BY <1>7 DEF Attach
  <2> QED BY <1>3, <1>4, <1>5, <2>1, LiveIsAlike, LiveIsSound, CalmAction DEF Stamped, TypeOK
<1> QED BY <1>6, <1>7

\* A request to detach finds its session, if there is one.
LEMMA DetachStep ==
  ASSUME SessionInv, NEW r \in Reqs, NEW c \in Conns, NEW i \in Ids, RequestDetach(r, c, i), Stamped
  PROVE  SessionInv'
<1> USE DEF SessionInv
<1> DEFINE l == sessions[i]
<1>1. UNCHANGED <<stage, closed, sessions, opening, server>>
  BY DEF RequestDetach
<1>2. attached' = [attached EXCEPT ![c] = @ \ {i}]
  BY DEF RequestDetach
<1>3. /\ attached' \in [Conns -> SUBSET Ids]
      /\ attached'[c] = attached[c] \ {i}
      /\ \A d \in Conns : d # c => attached'[d] = attached[d]
  BY <1>2 DEF TypeOK
<1>4. stage \in [Conns -> Stages] /\ closed \in SUBSET Conns
  BY DEF TypeOK
<1>5. \A k \in Reqs : Subscribed(live[k]) /\ live[k].id = i => k = l
  BY DEF Subscribed, Mapped
<1>6. \A k \in Reqs : live[k].conns \subseteq Conns
  BY DEF TypeOK, LiveRecords
<1>7. CASE l = None
  <2>1. live' = live /\ Answer(r)
    BY <1>7 DEF RequestDetach
  <2>2. l \notin Reqs
    BY <1>7, SessionConstants
  <2>3. Sound(live)
    BY <1>3, <1>5, <1>6, <2>2 DEF Sound, EventsReachAttached
  <2> QED BY <1>1, <1>3, <1>4, <2>1, <2>3, LiveIsAlike, AnswerIsCalm, CalmAction DEF Stamped
<1>8. CASE l # None
  <2> DEFINE left == [live EXCEPT ![l].conns = @ \ {c}]
  <2>1. l \in Reqs /\ live[l].step = "ready" /\ live[l] \in LiveRecords
    BY <1>8 DEF TypeOK, Entries
  <2>2. left \in [Reqs -> LiveRecords]
    BY <2>1 DEF TypeOK, LiveRecords
  <2>3. \A k \in Reqs : k # l => left[k] = live[k]
    BY DEF TypeOK
  <2>4. left[l] = [live[l] EXCEPT !.conns = @ \ {c}]
    BY <2>1 DEF TypeOK
  <2>5. /\ left[l].id = live[l].id /\ left[l].step = live[l].step
        /\ left[l].runtime = live[l].runtime /\ left[l].disposing = live[l].disposing
        /\ left[l].disposals = live[l].disposals /\ left[l].ops = live[l].ops
        /\ left[l].term = live[l].term /\ left[l].conns = live[l].conns \ {c}
    BY <2>1, <2>4 DEF LiveRecords
  <2>6. \/ live' = left /\ Goto(r, "detach", None, l)
        \/ live' = MaybeDispose(left, {l}) /\ Answer(r)
    BY <1>8 DEF RequestDetach
  <2> HIDE DEF left
  <2>7. Alike(left)
    BY <2>1, <2>2, <2>3, <2>5, AlikeUpdate
  <2>8. Sound(left)
    BY <1>3, <1>5, <1>6, <2>1, <2>3, <2>5 DEF Sound, EventsReachAttached
  <2>9. CASE live' = left /\ Goto(r, "detach", None, l)
    <3>1. req' \in [Reqs -> Requests] /\ CalmRequests
      BY <2>1, <2>9, GotoIsCalm
    <3> QED BY <1>1, <1>3, <1>4, <2>2, <2>7, <2>8, <2>9, <3>1, NoDisposal, CalmAction DEF Stamped
  <2>10. CASE live' = MaybeDispose(left, {l}) /\ Answer(r)
    BY <1>1, <1>3, <1>4, <2>7, <2>8, <2>10, AnswerIsCalm, CalmAction DEF Stamped
  <2> QED BY <2>6, <2>9, <2>10
<1> QED BY <1>7, <1>8

\* The request to detach is answered, and the session may be disposed.
LEMMA DetachedStep ==
  ASSUME SessionInv, NEW r \in Reqs, Detached(r), Stamped
  PROVE  SessionInv'
<1>1. live' = MaybeDispose(live, {req[r].live}) /\ Answer(r)
      /\ UNCHANGED <<stage, closed, attached, sessions, opening, server>>
  BY DEF Detached
<1> QED BY <1>1, LiveIsAlike, LiveIsSound, AnswerIsCalm, CalmAction DEF Stamped, SessionInv, TypeOK

\* Objects that lose connections, gain operations while their runtime is held, or
\* change their phase or termination.
LEMMA AlikeAndSound ==
  ASSUME SessionInv, attached' = attached, NEW lives \in [Reqs -> LiveRecords], NEW l \in Reqs,
         \A k \in Reqs : k # l => lives[k] = live[k],
         /\ lives[l].id = live[l].id /\ lives[l].step = live[l].step
         /\ lives[l].runtime = live[l].runtime /\ lives[l].disposing = live[l].disposing
         /\ lives[l].disposals = live[l].disposals /\ lives[l].conns = live[l].conns,
         lives[l].ops # {} => live[l].ops # {} \/ live[l].runtime = "held",
         lives[l].term = "no" => live[l].term = "no",
         live[l].step = "ready" \/ (lives[l].ops = live[l].ops /\ lives[l].term = live[l].term)
  PROVE  Alike(lives) /\ Sound(lives)
<1>1. \A k \in Reqs : Coherent(live[k])
  BY DEF SessionInv, Records
<1>2. \A k \in Reqs : live[k].step # "ready" =>
          live[k].conns = {} /\ live[k].ops = {} /\ live[k].term = "no"
  BY <1>1 DEF Coherent
<1>3. Alike(lives)
  BY <1>2 DEF Alike
<1>4. Sound(lives)
  BY DEF Sound, SessionInv, EventsReachAttached
<1> QED BY <1>3, <1>4

\* An operation of a connection begins.
LEMMA OperationStep ==
  ASSUME SessionInv, NEW r \in Reqs, NEW c \in Conns, NEW i \in Ids, RequestOperation(r, c, i), Stamped
  PROVE  SessionInv'
<1> USE DEF SessionInv
<1> DEFINE l == sessions[i]
           lives == [live EXCEPT ![l].ops = @ \cup {r}]
<1>1. UNCHANGED <<stage, closed, attached, sessions, opening, server>> /\ live' = lives
      /\ Goto(r, "operate", None, l)
  BY DEF RequestOperation
<1>2. l \in Reqs /\ live[l].step = "ready" /\ live[l] \in LiveRecords /\ live[l].disposing = "unset"
  BY DEF RequestOperation, Controllable, TypeOK, Entries
<1>3. live[l].runtime = "held"
  BY <1>2 DEF RequestOperation, Controllable, Entries, DisposalPending
<1>4. lives \in [Reqs -> LiveRecords] /\ \A k \in Reqs : k # l => lives[k] = live[k]
  BY <1>2 DEF TypeOK, LiveRecords
<1>5. lives[l] = [live[l] EXCEPT !.ops = @ \cup {r}]
  BY <1>2 DEF TypeOK
<1>6. /\ lives[l].id = live[l].id /\ lives[l].step = live[l].step
      /\ lives[l].runtime = live[l].runtime /\ lives[l].disposing = live[l].disposing
      /\ lives[l].disposals = live[l].disposals /\ lives[l].conns = live[l].conns
      /\ lives[l].term = live[l].term
  BY <1>2, <1>5 DEF LiveRecords
<1> HIDE DEF lives
<1>7. Alike(lives) /\ Sound(lives)
  BY <1>1, <1>2, <1>3, <1>4, <1>6, AlikeAndSound
<1>8. req' \in [Reqs -> Requests] /\ CalmRequests
  BY <1>1, <1>2, GotoIsCalm
<1>9. stage \in [Conns -> Stages] /\ closed \in SUBSET Conns /\ attached \in [Conns -> SUBSET Ids]
  BY DEF TypeOK
<1> QED BY <1>1, <1>4, <1>7, <1>8, <1>9, NoDisposal, CalmAction DEF Stamped

\* An operation ends, and the session may be disposed.
LEMMA OperationDoneStep ==
  ASSUME SessionInv, NEW r \in Reqs, OperationDone(r), Stamped
  PROVE  SessionInv'
<1> USE DEF SessionInv
<1> DEFINE l == req[r].live
           lives == [live EXCEPT ![l].ops = @ \ {r}]
<1>1. UNCHANGED <<stage, closed, attached, sessions, opening, server>>
      /\ live' = MaybeDispose(lives, {l}) /\ Answer(r)
  BY DEF OperationDone
<1>2. l \in Reqs /\ live[l].step = "ready" /\ live[l] \in LiveRecords
  BY DEF OperationDone, Informed, TypeOK
<1>4. lives \in [Reqs -> LiveRecords] /\ \A k \in Reqs : k # l => lives[k] = live[k]
  BY <1>2 DEF TypeOK, LiveRecords
<1>5. lives[l] = [live[l] EXCEPT !.ops = @ \ {r}]
  BY <1>2 DEF TypeOK
<1>6. /\ lives[l].id = live[l].id /\ lives[l].step = live[l].step
      /\ lives[l].runtime = live[l].runtime /\ lives[l].disposing = live[l].disposing
      /\ lives[l].disposals = live[l].disposals /\ lives[l].conns = live[l].conns
      /\ lives[l].term = live[l].term /\ lives[l].ops = live[l].ops \ {r}
  BY <1>2, <1>5 DEF LiveRecords
<1> HIDE DEF lives
<1>7. Alike(lives) /\ Sound(lives)
  BY <1>1, <1>2, <1>4, <1>6, AlikeAndSound
<1>8. req' \in [Reqs -> Requests] /\ CalmRequests
  BY <1>1, AnswerIsCalm
<1>9. stage \in [Conns -> Stages] /\ closed \in SUBSET Conns /\ attached \in [Conns -> SUBSET Ids]
  BY DEF TypeOK
<1> QED BY <1>1, <1>7, <1>8, <1>9, CalmAction DEF Stamped

\* The runtime starts or ends work.
LEMMA PhaseStep ==
  ASSUME SessionInv, NEW l \in Reqs, NEW p \in {"idle", "busy"}, NEW S,
         live' = MaybeDispose([live EXCEPT ![l].phase = p], S),
         UNCHANGED <<stage, closed, attached, sessions, opening, req, server>>, Stamped
  PROVE  SessionInv'
<1> USE DEF SessionInv
<1> DEFINE lives == [live EXCEPT ![l].phase = p]
<1>1. lives \in [Reqs -> LiveRecords] /\ \A k \in Reqs : k # l => lives[k] = live[k]
  BY DEF TypeOK, LiveRecords
<1>2. lives[l] = [live[l] EXCEPT !.phase = p] /\ live[l] \in LiveRecords
  BY DEF TypeOK
<1>3. /\ lives[l].id = live[l].id /\ lives[l].step = live[l].step
      /\ lives[l].runtime = live[l].runtime /\ lives[l].disposing = live[l].disposing
      /\ lives[l].disposals = live[l].disposals /\ lives[l].conns = live[l].conns
      /\ lives[l].term = live[l].term /\ lives[l].ops = live[l].ops
  BY <1>2 DEF LiveRecords
<1> HIDE DEF lives
<1>4. Alike(lives) /\ Sound(lives)
  BY <1>1, <1>3, AlikeAndSound
<1>5. live' = MaybeDispose(lives, S)
  BY DEF lives
<1>6. stage \in [Conns -> Stages] /\ closed \in SUBSET Conns /\ attached \in [Conns -> SUBSET Ids]
  BY DEF TypeOK
<1> QED BY <1>4, <1>5, <1>6, WaitingIsCalm, CalmAction DEF Stamped

\* The runtime starts or ends its work, or reports an event.
LEMMA WorkStep ==
  ASSUME SessionInv, NEW l \in Reqs, WorkStarts(l) \/ WorkEnds(l) \/ RuntimeEvent(l), Stamped
  PROVE  SessionInv'
<1> USE DEF SessionInv
<1>1. /\ [live EXCEPT ![l].phase = "idle"] \in [Reqs -> LiveRecords]
      /\ [live EXCEPT ![l].phase = "busy"] \in [Reqs -> LiveRecords]
  <2>1. \A v \in LiveRecords : [v EXCEPT !.phase = "idle"] \in LiveRecords
    BY DEF LiveRecords
  <2>2. \A v \in LiveRecords : [v EXCEPT !.phase = "busy"] \in LiveRecords
    BY DEF LiveRecords
  <2>3. live \in [Reqs -> LiveRecords]
    BY DEF TypeOK
  <2> QED BY <2>1, <2>2, <2>3
<1>2. \A p \in {"idle", "busy"} :
          [live EXCEPT ![l].phase = p] = MaybeDispose([live EXCEPT ![l].phase = p], {})
  BY <1>1, NoDisposal
<1>3. CASE WorkStarts(l)
  BY <1>2, <1>3, PhaseStep DEF WorkStarts
<1>4. CASE WorkEnds(l)
  BY <1>2, <1>4, PhaseStep DEF WorkEnds
<1>5. CASE RuntimeEvent(l)
  <2>1. live' = MaybeDispose(live, {l}) /\ UNCHANGED <<stage, closed, attached, sessions, opening, req, server>>
    BY <1>5 DEF RuntimeEvent
  <2> QED BY <2>1, LiveIsAlike, LiveIsSound, WaitingIsCalm, CalmAction DEF Stamped, TypeOK
<1> QED BY <1>3, <1>4, <1>5

\* A transport closes; nobody has noticed.
LEMMA TransportClosesStep ==
  ASSUME SessionInv, NEW c \in Conns, TransportCloses(c), Stamped
  PROVE  SessionInv'
<1>1. /\ closed' \in SUBSET Conns
      /\ UNCHANGED <<stage, attached, sessions, opening, live, req, server>>
  BY DEF TransportCloses, SessionInv, TypeOK
<1> QED BY <1>1, LiveIsAlike, LiveIsSound, WaitingIsCalm, CalmAction DEF Stamped, SessionInv, TypeOK

\* disconnect, for objects that differ at most in their termination.
LEMMA DisconnectAllStep ==
  ASSUME SessionInv, NEW base \in [Reqs -> LiveRecords], NEW X, DisconnectAll(base, X),
         \A l \in Reqs :
           /\ base[l].id = live[l].id /\ base[l].step = live[l].step
           /\ base[l].runtime = live[l].runtime /\ base[l].disposing = live[l].disposing
           /\ base[l].disposals = live[l].disposals /\ base[l].conns = live[l].conns
           /\ base[l].ops = live[l].ops
           /\ base[l].term = "no" => live[l].term = "no"
           /\ live[l].step = "ready" \/ base[l].term = live[l].term,
         UNCHANGED <<closed, sessions, opening, req>>, Stamped,
         server' \in [step : ServerSteps, awaits : SUBSET Reqs],
         Late' = Late, isClosing' = isClosing,
         CalmLives /\ (\A c \in Conns : stage'[c] = "ready" => stage[c] = "ready") => Shutdown'
  PROVE  SessionInv'
<1> USE DEF SessionInv
<1> DEFINE gone == {c \in X : stage[c] # "closed"}
           keep(l) == {c \in base[l].conns : ~\E i \in attached[c] : c \in gone /\ sessions[i] = l}
           left == [l \in Reqs |-> [base[l] EXCEPT !.conns = keep(l)]]
<1>1. /\ stage' = [c \in Conns |-> IF c \in gone THEN "closed" ELSE stage[c]]
      /\ attached' = [c \in Conns |-> IF c \in gone THEN {} ELSE attached[c]]
      /\ live' = MaybeDispose(left, Left(gone))
  BY DEF DisconnectAll
<1>2. stage' \in [Conns -> Stages] /\ attached' \in [Conns -> SUBSET Ids]
  BY <1>1 DEF TypeOK, Stages
<1>3. \A c \in Conns : stage'[c] = "ready" => stage[c] = "ready"
  BY <1>1
<1>4. \A l \in Reqs : keep(l) \in SUBSET Conns
  BY DEF LiveRecords
<1>5. ASSUME NEW l \in Reqs
      PROVE  /\ left[l] \in LiveRecords
             /\ left[l].id = base[l].id /\ left[l].step = base[l].step
             /\ left[l].runtime = base[l].runtime /\ left[l].disposing = base[l].disposing
             /\ left[l].disposals = base[l].disposals /\ left[l].conns = keep(l)
             /\ left[l].ops = base[l].ops /\ left[l].term = base[l].term
  <2> DEFINE k == keep(l)
             v == base[l]
  <2>1. k \in SUBSET Conns /\ v \in LiveRecords
    BY <1>4
  <2>2. left[l] = [v EXCEPT !.conns = k]
    OBVIOUS
  <2> HIDE DEF k, v
  <2>3. /\ [v EXCEPT !.conns = k] \in LiveRecords
        /\ [v EXCEPT !.conns = k].id = v.id /\ [v EXCEPT !.conns = k].step = v.step
        /\ [v EXCEPT !.conns = k].runtime = v.runtime /\ [v EXCEPT !.conns = k].disposing = v.disposing
        /\ [v EXCEPT !.conns = k].disposals = v.disposals /\ [v EXCEPT !.conns = k].conns = k
        /\ [v EXCEPT !.conns = k].ops = v.ops /\ [v EXCEPT !.conns = k].term = v.term
    BY <2>1 DEF LiveRecords
  <2> QED BY <2>2, <2>3 DEF k, v
<1>6. DOMAIN left = Reqs /\ left = [l \in Reqs |-> left[l]]
  OBVIOUS
<1>7. \A l \in Reqs : \A c \in keep(l) : c \in live[l].conns /\ c \in Conns
  BY <1>4
<1>8. ASSUME NEW l \in Reqs, Subscribed(live[l]), NEW c \in keep(l)
      PROVE  live[l].id \in attached'[c]
  <2>1. c \in Conns /\ live[l].id \in attached[c] /\ sessions[live[l].id] = l
    BY <1>7, <1>8 DEF EventsReachAttached, Mapped, Subscribed
  <2>2. c \notin gone
    BY <1>8, <2>1
  <2> QED BY <1>1, <2>1, <2>2
<1>9. \A l \in Reqs : live[l].step # "ready" =>
          live[l].conns = {} /\ live[l].ops = {} /\ live[l].term = "no"
  BY DEF Records, Coherent
<1>10. \A l \in Reqs : keep(l) \subseteq live[l].conns
  OBVIOUS
<1> HIDE DEF left, keep, gone
<1>11. left \in [Reqs -> LiveRecords]
  BY <1>5, <1>6
<1>12. Alike(left)
  BY <1>5, <1>9, <1>10, <1>11 DEF Alike
<1>13. Sound(left)
  BY <1>5, <1>8 DEF Sound
<1>14. TypeOKButLive'
  BY <1>2 DEF TypeOK, TypeOKButLive, Stamped
<1> QED BY <1>1, <1>3, <1>12, <1>13, <1>14, WaitingIsCalm, CalmStep

\* The server disconnects a closed connection from its sessions.
LEMMA DisconnectStep ==
  ASSUME SessionInv, NEW c \in Conns, Disconnect(c), Stamped
  PROVE  SessionInv'
<1>1. DisconnectAll(live, {c}) /\ UNCHANGED <<closed, sessions, opening, req, server>>
  BY DEF Disconnect
<1>2. live \in [Reqs -> LiveRecords] /\ server \in [step : ServerSteps, awaits : SUBSET Reqs]
  BY DEF SessionInv, TypeOK
<1>3. Late' = Late /\ isClosing' = isClosing
  BY <1>1 DEF Late, isClosing
<1> QED BY <1>1, <1>2, <1>3, CalmShutdown, DisconnectAllStep

\* A runtime fails, and the session is terminated.
LEMMA TerminationStep ==
  ASSUME SessionInv, NEW l \in Reqs, RuntimeFails(l) \/ Termination(l), Stamped
  PROVE  SessionInv'
<1> USE DEF SessionInv
<1>1. live[l].step = "ready" /\ live[l] \in LiveRecords
  BY DEF RuntimeFails, Subscribed, Termination, TerminateDisconnects, TerminateDisposes,
         Records, Coherent, TypeOK
<1>4. stage \in [Conns -> Stages] /\ closed \in SUBSET Conns /\ attached \in [Conns -> SUBSET Ids]
  BY DEF TypeOK
<1>5. live \in [Reqs -> LiveRecords] /\ server \in [step : ServerSteps, awaits : SUBSET Reqs]
  BY DEF TypeOK
<1>6. live[l].conns \in SUBSET Conns
  BY <1>1 DEF LiveRecords
<1>7. CASE RuntimeFails(l)
  <2> DEFINE lives == [live EXCEPT ![l].term = "closing", ![l].doomed = live[l].conns]
  <2>1. live' = lives /\ closed' = closed \cup live[l].conns
        /\ UNCHANGED <<stage, attached, sessions, opening, req, server>>
    BY <1>7 DEF RuntimeFails
  <2>2. lives[l] = [live[l] EXCEPT !.term = "closing", !.doomed = live[l].conns]
        /\ \A k \in Reqs : k # l => lives[k] = live[k]
    BY <1>5
  <2>3. DOMAIN lives = Reqs /\ lives = [k \in Reqs |-> lives[k]]
    BY <1>5
  <2> HIDE DEF lives
  <2>7. /\ lives[l] \in LiveRecords
        /\ lives[l].id = live[l].id /\ lives[l].step = live[l].step
        /\ lives[l].runtime = live[l].runtime /\ lives[l].disposing = live[l].disposing
        /\ lives[l].disposals = live[l].disposals /\ lives[l].conns = live[l].conns
        /\ lives[l].ops = live[l].ops /\ lives[l].term = "closing"
    BY <1>1, <1>6, <2>2 DEF LiveRecords, Terms
  <2>4. lives \in [Reqs -> LiveRecords]
    BY <1>5, <2>2, <2>3, <2>7
  <2>5. Alike(lives) /\ Sound(lives)
    BY <1>1, <2>1, <2>2, <2>4, <2>7, AlikeAndSound
  <2>6. closed' \in SUBSET Conns
    BY <1>4, <1>6, <2>1
  <2> QED BY <1>4, <2>1, <2>4, <2>5, <2>6, NoDisposal, WaitingIsCalm, CalmAction DEF Stamped
<1>8. CASE TerminateDisconnects(l)
  <2> DEFINE base == [live EXCEPT ![l].term = "disconnected"]
  <2>1. DisconnectAll(base, live[l].doomed) /\ UNCHANGED <<closed, sessions, opening, req, server>>
    BY <1>8 DEF TerminateDisconnects
  <2>2. base[l] = [live[l] EXCEPT !.term = "disconnected"] /\ \A k \in Reqs : k # l => base[k] = live[k]
    BY <1>5
  <2>3. DOMAIN base = Reqs /\ base = [k \in Reqs |-> base[k]]
    BY <1>5
  <2> HIDE DEF base
  <2>7. /\ base[l] \in LiveRecords
        /\ base[l].id = live[l].id /\ base[l].step = live[l].step
        /\ base[l].runtime = live[l].runtime /\ base[l].disposing = live[l].disposing
        /\ base[l].disposals = live[l].disposals /\ base[l].conns = live[l].conns
        /\ base[l].ops = live[l].ops /\ base[l].term = "disconnected"
    BY <1>1, <2>2 DEF LiveRecords, Terms
  <2>4. base \in [Reqs -> LiveRecords]
    BY <1>5, <2>2, <2>3, <2>7
  <2>5. Late' = Late /\ isClosing' = isClosing
    BY <2>1 DEF Late, isClosing
  <2>6. \A k \in Reqs :
           /\ base[k].id = live[k].id /\ base[k].step = live[k].step
           /\ base[k].runtime = live[k].runtime /\ base[k].disposing = live[k].disposing
           /\ base[k].disposals = live[k].disposals /\ base[k].conns = live[k].conns
           /\ base[k].ops = live[k].ops
           /\ base[k].term = "no" => live[k].term = "no"
           /\ live[k].step = "ready" \/ base[k].term = live[k].term
    BY <1>1, <2>2, <2>7
  <2> QED BY <1>5, <2>1, <2>4, <2>5, <2>6, CalmShutdown, DisconnectAllStep
<1>9. CASE TerminateDisposes(l)
  <2> DEFINE lives == [live EXCEPT ![l].term = "done", ![l].doomed = {}]
  <2>1. live' = MaybeDispose(lives, {l})
        /\ UNCHANGED <<stage, closed, attached, sessions, opening, req, server>>
    BY <1>9 DEF TerminateDisposes
  <2>2. lives[l] = [live[l] EXCEPT !.term = "done", !.doomed = {}]
        /\ \A k \in Reqs : k # l => lives[k] = live[k]
    BY <1>5
  <2>3. DOMAIN lives = Reqs /\ lives = [k \in Reqs |-> lives[k]]
    BY <1>5
  <2> HIDE DEF lives
  <2>7. /\ lives[l] \in LiveRecords
        /\ lives[l].id = live[l].id /\ lives[l].step = live[l].step
        /\ lives[l].runtime = live[l].runtime /\ lives[l].disposing = live[l].disposing
        /\ lives[l].disposals = live[l].disposals /\ lives[l].conns = live[l].conns
        /\ lives[l].ops = live[l].ops /\ lives[l].term = "done"
    BY <1>1, <2>2 DEF LiveRecords, Terms
  <2>4. lives \in [Reqs -> LiveRecords]
    BY <1>5, <2>2, <2>3, <2>7
  <2>5. Alike(lives) /\ Sound(lives)
    BY <1>1, <2>1, <2>2, <2>4, <2>7, AlikeAndSound
  <2> QED BY <1>4, <2>1, <2>5, WaitingIsCalm, CalmAction DEF Stamped
<1> QED BY <1>7, <1>8, <1>9 DEF Termination

----------------------------------------------------------------------------
(***************************************************************************)
(* The creation of a session.                                              *)
(***************************************************************************)
\* A session that is being created goes on, without becoming ready.
LEMMA CreatingStep ==
  ASSUME SessionInv, NEW l \in Reqs, live[l].step \in {"acquiring", "snapshot"},
         NEW w \in LiveRecords, Coherent(w), w.id = live[l].id,
         w.step \in {"snapshot", "failing", "failed"}, w.step = "snapshot" => ~isClosing,
         live' = [live EXCEPT ![l] = w],
         UNCHANGED <<stage, closed, attached, sessions, opening, req, server>>, Stamped
  PROVE  SessionInv'
<1> USE DEF SessionInv
<1>1. /\ live' \in [Reqs -> LiveRecords]
      /\ live'[l] = w
      /\ \A k \in Reqs : k # l => live'[k] = live[k]
  BY DEF TypeOK
<1>2. TypeOK'
  BY <1>1 DEF TypeOK, Stamped
<1>3. Records'
  BY <1>1 DEF Records
<1>4. Mapped'
  BY <1>1 DEF Mapped, Late
<1>5. \A i \in Ids : sessions[i] # None => sessions[i] \in Reqs /\ sessions[i] # l
  BY DEF TypeOK, Entries
<1>6. Entries'
  BY <1>1, <1>5 DEF Entries, DisposalPending
<1>7. Opened'
  <2>1. opening[live[l].id] = l /\ sessions[live[l].id] = None
    BY DEF Opened
  <2>2. \A i \in Ids : opening[i] # None => opening[i] \in Reqs
    BY DEF TypeOK
  <2> QED BY <1>1, <2>1, <2>2 DEF Opened
<1>8. \A k \in Reqs : live[k].disposing = "set" => k # l
  BY DEF Records, Coherent
<1>9. \A r \in Reqs : req[r].pc \notin {"new", "done"} => req[r].live \in Reqs
  BY DEF Informed
<1>10. Informed'
  BY <1>1, <1>8, <1>9 DEF Informed
<1>11. Shutdown'
  BY <1>1 DEF Shutdown, Late, isClosing
<1>12. Awaited'
  <2> SUFFICES ASSUME isClosing, NEW r \in Reqs, NEW k \in Reqs,
                      req[r].pc = "wait", InUse(k)', live'[k].id = live'[req[r].live].id
               PROVE  k = req[r].live
    BY DEF Awaited, isClosing
  <2>1. k # l
    BY <1>1 DEF InUse
  <2>2. req[r].live \in Reqs /\ req[r].live # l
    BY <1>8, <1>9 DEF Informed
  <2> QED BY <1>1, <2>1, <2>2 DEF Awaited, InUse
<1>13. SingletonRuntime'
  <2>1. Claims(l)
    BY DEF Claims, Records, Coherent
  <2>2. \A k \in Reqs : Claims(k)' => Claims(k)
    BY <1>1, <2>1 DEF Claims
  <2>3. \A k \in Reqs : live'[k].id = live[k].id
    BY <1>1
  <2> QED BY <2>2, <2>3 DEF SingletonRuntime
<1>14. OperationsAreServed'
  BY <1>1 DEF OperationsAreServed, Coherent, isClosing
<1>15. EventsReachAttached'
  BY <1>1 DEF EventsReachAttached, Subscribed
<1> QED BY <1>2, <1>3, <1>4, <1>6, <1>7, <1>10, <1>11, <1>12, <1>13, <1>14, <1>15

\* The steps of creation before the session is ready.
LEMMA CreationEnds ==
  ASSUME SessionInv, NEW l \in Reqs, RuntimeAcquired(l) \/ RuntimeRefused(l) \/ SnapshotRefused(l), Stamped
  PROVE  SessionInv'
<1> USE DEF SessionInv
<1>1. live[l] \in LiveRecords /\ Coherent(live[l]) /\ live[l].step \in {"acquiring", "snapshot"}
  BY DEF TypeOK, Records, RuntimeAcquired, RuntimeRefused, SnapshotRefused
<1>2. UNCHANGED <<stage, closed, attached, sessions, opening, req, server>>
  BY DEF RuntimeAcquired, RuntimeRefused, SnapshotRefused
<1> DEFINE d == Disposing(live[l])
<1>3. d \in LiveRecords
  BY <1>1, DisposingRecord
<1>4. /\ d.id = live[l].id /\ d.runtime = "disposing" /\ d.disposals = live[l].disposals + 1
      /\ d.disposing = live[l].disposing /\ d.conns = live[l].conns /\ d.ops = live[l].ops
      /\ d.term = live[l].term
  BY <1>1 DEF Disposing, LiveRecords
<1>5. live[l].disposals = 0
  BY <1>1 DEF Coherent
<1> HIDE DEF d
<1>6. ASSUME NEW w, w = [d EXCEPT !.step = "failing"]
      PROVE  w \in LiveRecords /\ Coherent(w) /\ w.id = live[l].id /\ w.step = "failing"
  <2>1. /\ w \in LiveRecords
        /\ w.id = d.id /\ w.runtime = d.runtime /\ w.disposals = d.disposals /\ w.step = "failing"
        /\ w.disposing = d.disposing /\ w.conns = d.conns /\ w.ops = d.ops /\ w.term = d.term
    BY <1>3, <1>6 DEF LiveRecords, Steps
  <2> QED BY <1>1, <1>4, <1>5, <2>1 DEF Coherent
<1>7. CASE RuntimeAcquired(l) /\ isClosing
  <2>1. live' = [live EXCEPT ![l] = [d EXCEPT !.step = "failing"]]
    BY <1>7 DEF RuntimeAcquired, d
  <2> QED BY <1>1, <1>2, <1>6, <2>1, CreatingStep
<1>8. CASE RuntimeAcquired(l) /\ ~isClosing
  <2> DEFINE w == [live[l] EXCEPT !.runtime = "held", !.step = "snapshot"]
  <2>1. live' = [live EXCEPT ![l] = w] /\ live[l].step = "acquiring"
    BY <1>8 DEF RuntimeAcquired
  <2>2. w \in LiveRecords /\ w.id = live[l].id /\ w.step = "snapshot" /\ w.runtime = "held"
        /\ w.disposals = live[l].disposals
        /\ w.disposing = live[l].disposing /\ w.conns = live[l].conns /\ w.ops = live[l].ops
        /\ w.term = live[l].term
    BY <1>1 DEF LiveRecords, Runtimes, Steps
  <2> HIDE DEF w
  <2>3. Coherent(w)
    BY <1>1, <2>1, <2>2 DEF Coherent
  <2> QED BY <1>1, <1>2, <1>8, <2>1, <2>2, <2>3, CreatingStep
<1>9. CASE RuntimeRefused(l)
  <2> DEFINE w == [live[l] EXCEPT !.step = "failed"]
  <2>1. live' = [live EXCEPT ![l] = w] /\ live[l].step = "acquiring"
    BY <1>9 DEF RuntimeRefused
  <2>2. w \in LiveRecords /\ w.id = live[l].id /\ w.step = "failed" /\ w.runtime = live[l].runtime
        /\ w.disposals = live[l].disposals
        /\ w.disposing = live[l].disposing /\ w.conns = live[l].conns /\ w.ops = live[l].ops
        /\ w.term = live[l].term
    BY <1>1 DEF LiveRecords, Steps
  <2> HIDE DEF w
  <2>3. Coherent(w)
    BY <1>1, <2>1, <2>2 DEF Coherent
  <2> QED BY <1>1, <1>2, <2>1, <2>2, <2>3, CreatingStep
<1>10. CASE SnapshotRefused(l)
  <2>1. live' = [live EXCEPT ![l] = [d EXCEPT !.step = "failing"]]
    BY <1>10 DEF SnapshotRefused, d
  <2> QED BY <1>1, <1>2, <1>6, <2>1, CreatingStep
<1> QED BY <1>7, <1>8, <1>9, <1>10

\* The session is ready, and enters the map.
LEMMA SessionCreatedStep ==
  ASSUME SessionInv, NEW l \in Reqs, SessionCreated(l), Stamped
  PROVE  SessionInv'
<1> USE DEF SessionInv
<1> DEFINE i == live[l].id
           w == [live[l] EXCEPT !.step = "ready"]
<1>1. live[l] \in LiveRecords /\ Coherent(live[l]) /\ live[l].step = "snapshot"
  BY DEF TypeOK, Records, SessionCreated
<1>2. /\ live' = [live EXCEPT ![l] = w]
      /\ sessions' = [sessions EXCEPT ![i] = l]
      /\ UNCHANGED <<stage, closed, attached, opening, req, server>>
  BY DEF SessionCreated
<1>3. w \in LiveRecords /\ w.id = live[l].id /\ w.step = "ready" /\ w.runtime = live[l].runtime
      /\ w.disposals = live[l].disposals
      /\ w.disposing = live[l].disposing /\ w.conns = live[l].conns /\ w.ops = live[l].ops
      /\ w.term = live[l].term
  BY <1>1 DEF LiveRecords, Steps
<1> HIDE DEF w
<1>4. i \in Ids /\ w.runtime = "held" /\ w.conns = {} /\ w.ops = {} /\ w.term = "no" /\ w.disposing = "unset"
      /\ Coherent(w)
  BY <1>1, <1>3 DEF Coherent
<1>5. opening[i] = l /\ sessions[i] = None /\ ~Late
  BY <1>1 DEF Opened, Shutdown
<1>6. /\ live' \in [Reqs -> LiveRecords]
      /\ live'[l] = w
      /\ \A k \in Reqs : k # l => live'[k] = live[k]
      /\ sessions' \in [Ids -> Reqs \cup {None}]
      /\ sessions'[i] = l
      /\ \A j \in Ids : j # i => sessions'[j] = sessions[j]
  BY <1>2, <1>3, <1>4 DEF TypeOK
<1>7. \A k \in Reqs : live'[k].id = live[k].id /\ live'[k].runtime = live[k].runtime
                      /\ live'[k].disposing = live[k].disposing
  BY <1>3, <1>6
<1>8. Late' = Late /\ isClosing' = isClosing
  BY <1>2 DEF Late, isClosing
<1>9. TypeOK'
  BY <1>2, <1>6 DEF TypeOK, Stamped
<1>10. Records'
  BY <1>4, <1>6 DEF Records
<1>11. \A k \in Reqs : k # l /\ live[k].step = "ready" => live[k].id \in Ids
  BY DEF Records, Coherent
<1>12. Mapped'
  BY <1>3, <1>4, <1>5, <1>6, <1>7, <1>8, <1>11, SessionConstants DEF Mapped
<1>13. Entries'
  <2> SUFFICES ASSUME NEW j \in Ids, sessions'[j] # None
               PROVE  /\ live'[sessions'[j]].id = j
                      /\ live'[sessions'[j]].step = "ready"
                      /\ live'[sessions'[j]].runtime = "held" \/ DisposalPending(sessions[j])'
    BY DEF Entries, DisposalPending
  <2>1. CASE j = i
    BY <1>3, <1>4, <1>6, <2>1
  <2>2. CASE j # i
    <3>1. sessions'[j] = sessions[j] /\ sessions[j] \in Reqs /\ sessions[j] # l
      BY <1>1, <1>6, <2>2 DEF Entries, TypeOK
    <3> QED BY <1>6, <3>1 DEF Entries, DisposalPending
  <2> QED BY <2>1, <2>2
<1>14. Opened'
  <2>1. \A k \in Reqs : live'[k].step \in {"acquiring", "snapshot", "failing"} =>
            opening[live[k].id] = k /\ sessions[live[k].id] = None /\ k # l /\ live[k].id \in Ids
    BY <1>3, <1>6 DEF Opened, Records, Coherent
  <2>2. \A k \in Reqs : live'[k].step \in {"acquiring", "snapshot", "failing"} => live[k].id # i
    BY <1>5, <2>1
  <2>3. \A j \in Ids : opening[j] # None => opening[j] \in Reqs
    BY DEF TypeOK
  <2> QED BY <1>2, <1>3, <1>6, <1>7, <2>1, <2>2, <2>3 DEF Opened
<1>15. \A r \in Reqs : req[r].pc \notin {"new", "done"} => req[r].live \in Reqs
  BY DEF Informed
<1>16. Informed'
  BY <1>1, <1>2, <1>3, <1>6, <1>7, <1>15 DEF Informed
<1>17. Shutdown'
  BY <1>2, <1>3, <1>5, <1>6, <1>8 DEF Shutdown
<1>18. Awaited'
  <2>1. \A k \in Reqs : InUse(k)' => InUse(k)
    BY <1>1, <1>3, <1>6 DEF InUse
  <2> QED BY <1>2, <1>7, <1>8, <1>15, <2>1 DEF Awaited
<1>19. SingletonRuntime'
  <2>1. \A k \in Reqs : Claims(k)' => Claims(k)
    BY <1>1, <1>3, <1>6 DEF Claims
  <2> QED BY <1>7, <2>1 DEF SingletonRuntime
<1>20. OperationsAreServed'
  BY <1>4, <1>6, <1>8 DEF OperationsAreServed
<1>21. EventsReachAttached'
  BY <1>2, <1>4, <1>6 DEF EventsReachAttached, Subscribed
<1> QED BY <1>9, <1>10, <1>12, <1>13, <1>14, <1>16, <1>17, <1>18, <1>19, <1>20, <1>21

\* The request that opened the session, or one that shared the opening, goes on.
LEMMA ContinuesStep ==
  ASSUME SessionInv, NEW r \in Reqs, CreatorContinues(r) \/ SharerContinues(r), Stamped
  PROVE  SessionInv'
<1> USE DEF SessionInv
<1> DEFINE l == req[r].live
<1>1. l \in Reqs /\ Settled(l) /\ req[r].conn \in Conns /\ live[l].step # "new"
  BY DEF CreatorContinues, SharerContinues, Informed
<1>2. UNCHANGED <<stage, closed, attached, sessions, live, server>>
  BY DEF CreatorContinues, SharerContinues
<1>3. req' \in [Reqs -> Requests] /\ CalmRequests
  <2>1. CASE live[l].step = "ready"
    <3>1. Goto(r, "attach", req[r].conn, l)
      BY <2>1 DEF CreatorContinues, SharerContinues
    <3> QED BY <1>1, <2>1, <3>1, GotoIsCalm
  <2>2. CASE live[l].step # "ready"
    <3>1. Answer(r)
      BY <2>2 DEF CreatorContinues, SharerContinues
    <3> QED BY <3>1, AnswerIsCalm
  <2> QED BY <2>1, <2>2
<1>4. opening' \in [Ids -> Reqs \cup {None}]
      /\ \A i \in Ids : opening'[i] = opening[i] \/ (opening[i] = l /\ opening'[i] = None)
  <2>1. opening' = opening \/ opening' = [opening EXCEPT ![live[l].id] = IF @ = l THEN None ELSE @]
    BY DEF CreatorContinues, SharerContinues
  <2>2. opening \in [Ids -> Reqs \cup {None}]
    BY DEF TypeOK
  <2> QED BY <2>1, <2>2
<1>5. TypeOK'
  BY <1>2, <1>3, <1>4 DEF TypeOK, Stamped
<1>6. Late' = Late /\ isClosing' = isClosing
  BY <1>2 DEF Late, isClosing
<1>7. CalmLives
  BY <1>2 DEF CalmLives, Calm
<1>8. Opened'
  <2>1. \A k \in Reqs : live[k].step \in {"acquiring", "snapshot", "failing"} =>
            live[k].id \in Ids /\ opening[live[k].id] = k /\ sessions[live[k].id] = None /\ k # l
    BY <1>1 DEF Opened, Records, Coherent, Settled
  <2> QED BY <1>2, <1>4, <2>1 DEF Opened
<1>9. Mapped' /\ Entries' /\ Records' /\ SingletonRuntime' /\ OperationsAreServed' /\ EventsReachAttached'
  BY <1>2, <1>6 DEF Mapped, Entries, DisposalPending, Records, SingletonRuntime, Claims,
                    OperationsAreServed, EventsReachAttached
<1>10. Informed' /\ Awaited' /\ Shutdown'
  BY <1>2, <1>3, <1>5, <1>6, <1>7, CalmInformed, CalmAwaited, CalmShutdown
<1> QED BY <1>5, <1>8, <1>9, <1>10

\* One round of acquire.  When a new session is created, close has not disposed an
\* earlier one that is still in use.
LEMMA AcquireStep ==
  ASSUME SessionInv, NEW r \in Reqs, NEW c \in Conns, NEW i \in Ids, Acquire(r, c, i),
         req[r].pc \in {"new", "wait"},
         Late => \A k \in Reqs : live[k].id = i => ~InUse(k),
         UNCHANGED <<stage, closed, attached, sessions, server>>, Stamped
  PROVE  SessionInv'
<1> USE DEF SessionInv
<1>1. Late' = Late /\ isClosing' = isClosing
  BY DEF Late, isClosing
<1>2. live[r].step = "new" /\ live[r] \in LiveRecords /\ Coherent(live[r])
  BY DEF Informed, TypeOK, Records
<1>3. CASE Answer(r) /\ UNCHANGED <<opening, live>>
  BY <1>3, LiveIsAlike, LiveIsSound, AnswerIsCalm, CalmAction DEF Stamped, TypeOK
<1>4. ASSUME NEW e \in Reqs, e = sessions[i], Goto(r, "attach", c, e), UNCHANGED <<opening, live>>
      PROVE  SessionInv'
  <2>1. live[e].step = "ready"
    BY <1>4, SessionConstants DEF Entries
  <2>2. req' \in [Reqs -> Requests] /\ CalmRequests
    BY <1>4, <2>1, GotoIsCalm
  <2> QED BY <1>4, <2>2, LiveIsAlike, LiveIsSound, CalmAction DEF Stamped, TypeOK
<1>5. ASSUME UNCHANGED <<opening, live>>
      PROVE  Records' /\ Mapped' /\ Entries' /\ Opened' /\ Shutdown' /\ SingletonRuntime'
             /\ OperationsAreServed' /\ EventsReachAttached'
  <2>1. Records' /\ Mapped' /\ Entries' /\ Opened'
    BY <1>1, <1>5 DEF Records, Mapped, Entries, DisposalPending, Opened
  <2>2. Shutdown'
    BY <1>1, <1>5 DEF Shutdown
  <2>3. SingletonRuntime' /\ OperationsAreServed' /\ EventsReachAttached'
    BY <1>1, <1>5 DEF SingletonRuntime, Claims, OperationsAreServed, EventsReachAttached
  <2> QED BY <2>1, <2>2, <2>3
<1>6. ASSUME NEW e \in Reqs, e = sessions[i], Goto(r, "wait", c, e), live[e].disposing = "set",
             UNCHANGED <<opening, live>>
      PROVE  SessionInv'
  <2>1. req' = [req EXCEPT ![r] = [pc |-> "wait", conn |-> c, live |-> e]]
    BY <1>6 DEF Goto
  <2>2. req' \in [Reqs -> Requests] /\ req'[r].pc = "wait" /\ req'[r].conn = c /\ req'[r].live = e
        /\ \A q \in Reqs : q # r => req'[q] = req[q]
    BY <2>1 DEF TypeOK, Requests, PCs
  <2>3. TypeOK'
    BY <1>6, <2>2 DEF TypeOK, Stamped
  <2>4. Informed'
    BY <1>2, <1>6, <2>2 DEF Informed
  <2>5. live[e].id = i /\ live[e].step = "ready" /\ ~Late
    BY <1>6, SessionConstants DEF Entries, Shutdown
  <2>6. \A k \in Reqs : InUse(k) /\ live[k].id = i => k = e
    BY <1>6, <2>5, SessionConstants DEF InUse, Mapped, Opened
  <2>7. Awaited'
    BY <1>1, <1>6, <2>2, <2>5, <2>6 DEF Awaited, InUse
  <2> QED BY <1>5, <1>6, <2>3, <2>4, <2>7
<1>7. ASSUME opening[i] # None, Goto(r, "opening", c, opening[i]), UNCHANGED <<opening, live>>
      PROVE  SessionInv'
  <2>1. req' = [req EXCEPT ![r] = [pc |-> "opening", conn |-> c, live |-> opening[i]]]
    BY <1>7 DEF Goto
  <2>2. opening[i] \in Reqs /\ live[opening[i]].step # "new"
    BY <1>7 DEF TypeOK, Opened
  <2>3. req' \in [Reqs -> Requests] /\ req'[r].pc = "opening" /\ req'[r].conn = c
        /\ req'[r].live = opening[i] /\ \A q \in Reqs : q # r => req'[q] = req[q]
    BY <2>1, <2>2 DEF TypeOK, Requests, PCs
  <2>4. TypeOK'
    BY <1>7, <2>3 DEF TypeOK, Stamped
  <2>5. Informed'
    BY <1>7, <2>2, <2>3 DEF Informed
  <2>6. Awaited'
    BY <1>1, <1>7, <2>3 DEF Awaited, InUse
  <2> QED BY <1>5, <1>7, <2>4, <2>5, <2>6
<1>8. ASSUME sessions[i] = None, opening[i] = None, Goto(r, "create", c, r),
             live' = [live EXCEPT ![r].step = "acquiring", ![r].id = i],
             opening' = [opening EXCEPT ![i] = r]
      PROVE  SessionInv'
  <2> DEFINE w == [live[r] EXCEPT !.step = "acquiring", !.id = i]
  <2>1. w \in LiveRecords /\ w.id = i /\ w.step = "acquiring" /\ w.runtime = live[r].runtime
        /\ w.disposals = live[r].disposals
        /\ w.disposing = live[r].disposing /\ w.conns = live[r].conns /\ w.ops = live[r].ops
        /\ w.term = live[r].term
    BY <1>2 DEF LiveRecords, Steps
  <2>2. live' = [live EXCEPT ![r] = w]
    BY <1>8 DEF TypeOK
  <2> HIDE DEF w
  <2>3. Coherent(w) /\ w.ops = {} /\ w.disposing = "unset" /\ w.runtime = "none"
    BY <1>2, <2>1 DEF Coherent
  <2>4. /\ live' \in [Reqs -> LiveRecords]
        /\ live'[r] = w
        /\ \A k \in Reqs : k # r => live'[k] = live[k]
        /\ opening' \in [Ids -> Reqs \cup {None}]
        /\ opening'[i] = r
        /\ \A j \in Ids : j # i => opening'[j] = opening[j]
    <3>1. live \in [Reqs -> LiveRecords] /\ opening \in [Ids -> Reqs \cup {None}]
      BY DEF TypeOK
    <3>2. /\ live' \in [Reqs -> LiveRecords]
          /\ live'[r] = w
          /\ \A k \in Reqs : k # r => live'[k] = live[k]
      BY <2>1, <2>2, <3>1
    <3>3. /\ opening' \in [Ids -> Reqs \cup {None}]
          /\ opening'[i] = r
          /\ \A j \in Ids : j # i => opening'[j] = opening[j]
      BY <1>8, <3>1
    <3> QED BY <3>2, <3>3
  <2>5. req' = [req EXCEPT ![r] = [pc |-> "create", conn |-> c, live |-> r]]
    BY <1>8 DEF Goto
  <2>6. req' \in [Reqs -> Requests] /\ req'[r].pc = "create" /\ req'[r].conn = c
        /\ req'[r].live = r /\ \A q \in Reqs : q # r => req'[q] = req[q]
    BY <2>5 DEF TypeOK, Requests, PCs
  <2>7. TypeOK'
    BY <2>4, <2>6 DEF TypeOK, Stamped
  <2>8. Records'
    BY <2>3, <2>4 DEF Records
  <2>9. Mapped'
    BY <1>1, <2>1, <2>4 DEF Mapped
  <2>10. \A j \in Ids : sessions[j] # None => sessions[j] \in Reqs /\ sessions[j] # r
    BY <1>2 DEF TypeOK, Entries
  <2>11. Entries'
    BY <2>4, <2>10 DEF Entries, DisposalPending
  <2>12. Opened'
    <3>1. \A k \in Reqs : k # r /\ live[k].step \in {"acquiring", "snapshot", "failing"} =>
             opening[live[k].id] = k /\ sessions[live[k].id] = None /\ live[k].id \in Ids /\ live[k].id # i
      BY <1>8, SessionConstants DEF Opened, Records, Coherent
    <3>2. \A j \in Ids : opening[j] # None => opening[j] \in Reqs /\ opening[j] # r
      BY <1>2 DEF TypeOK, Opened
    <3> QED BY <1>8, <2>1, <2>4, <3>1, <3>2 DEF Opened
  <2>13. \A q \in Reqs : req[q].pc \notin {"new", "done"} =>
             req[q].live \in Reqs
    BY DEF Informed
  <2>14. \A q \in Reqs : req[q].pc = "wait" => req[q].live # r
    BY <1>2 DEF Informed, Coherent
  <2>15. Informed'
    BY <1>2, <2>1, <2>4, <2>6, <2>13, <2>14 DEF Informed
  <2>16. Shutdown'
    BY <1>1, <2>1, <2>4 DEF Shutdown
  <2>17. Awaited'
    BY <1>1, <2>1, <2>4, <2>6, <2>13, <2>14 DEF Awaited, InUse
  <2>18. \A k \in Reqs : k # r /\ live[k].id = i => ~Claims(k)
    <3> SUFFICES ASSUME NEW k \in Reqs, k # r, live[k].id = i, Claims(k)
                 PROVE  FALSE
      OBVIOUS
    <3>1. live[k].step \notin {"acquiring", "snapshot", "failing"}
      BY <1>8, SessionConstants DEF Opened
    <3>2. live[k].step = "ready" /\ InUse(k)
      BY <3>1 DEF Claims, Records, Coherent, InUse, TypeOK, LiveRecords, Steps
    <3>3. Late \/ sessions[i] = k
      BY <3>2 DEF InUse, Mapped
    <3> QED BY <1>8, <3>2, <3>3, SessionConstants
  <2>19. SingletonRuntime'
    <3>1. \A k \in Reqs : k # r => (Claims(k)' <=> Claims(k)) /\ live'[k].id = live[k].id
      BY <2>4 DEF Claims
    <3> QED BY <2>1, <2>4, <2>18, <3>1 DEF SingletonRuntime
  <2>20. OperationsAreServed'
    BY <1>1, <2>3, <2>4 DEF OperationsAreServed
  <2>21. EventsReachAttached'
    BY <2>1, <2>4 DEF EventsReachAttached, Subscribed
  <2> QED BY <2>7, <2>8, <2>9, <2>11, <2>12, <2>15, <2>16, <2>17, <2>19, <2>20, <2>21
<1>9. sessions[i] # None => sessions[i] \in Reqs
  BY DEF TypeOK
<1> QED BY <1>3, <1>4, <1>6, <1>7, <1>8, <1>9 DEF Acquire

\* A request finds a session, waits for one, or opens one.
LEMMA RequestSessionStep ==
  ASSUME SessionInv, NEW r \in Reqs, NEW c \in Conns, NEW i \in Ids, RequestSession(r, c, i), Stamped
  PROVE  SessionInv'
<1>1. req[r].pc = "new" /\ Acquire(r, c, i) /\ UNCHANGED <<stage, closed, attached, sessions, server>>
  BY DEF RequestSession, Receive
<1>2. ~Late
  BY DEF RequestSession, Receive, SessionInv, Shutdown, Late
<1> QED BY <1>1, <1>2, AcquireStep

\* A request whose object was disposed looks again.
LEMMA AcquireAgainStep ==
  ASSUME SessionInv, NEW r \in Reqs, AcquireAgain(r), Stamped
  PROVE  SessionInv'
<1> USE DEF SessionInv
<1> DEFINE l == req[r].live
<1>1. /\ req[r].pc = "wait" /\ ~DisposalPending(l)
      /\ UNCHANGED <<stage, closed, attached, sessions, server>>
  BY DEF AcquireAgain
<1>2. l \in Reqs /\ live[l].disposing = "set" /\ req[r].conn \in Conns
  BY <1>1 DEF Informed
<1>3. live[l].id \in Ids /\ ~InUse(l)
  BY <1>1, <1>2 DEF Records, Coherent, DisposalPending, InUse
<1>4. CASE Answer(r) /\ UNCHANGED <<opening, live>>
  BY <1>1, <1>4, LiveIsAlike, LiveIsSound, AnswerIsCalm, CalmAction DEF Stamped, TypeOK
<1>5. CASE Acquire(r, req[r].conn, live[l].id)
  <2>1. Late => \A k \in Reqs : live[k].id = live[l].id => ~InUse(k)
    BY <1>1, <1>2, <1>3, LateCloses DEF Awaited
  <2> QED BY <1>1, <1>2, <1>3, <1>5, <2>1, AcquireStep
<1> QED BY <1>4, <1>5 DEF AcquireAgain

----------------------------------------------------------------------------
(***************************************************************************)
(* Disposals that settle, and the end of the server.                       *)
(***************************************************************************)
LEMMA DisposeSettlesStep ==
  ASSUME SessionInv, NEW l \in Reqs, NEW outcome \in {"disposed", "failed"}, DisposeSettles(l, outcome),
         Stamped
  PROVE  SessionInv'
<1> USE DEF SessionInv
<1> DEFINE i == live[l].id
           s == IF live[l].step = "failing" THEN "failed" ELSE live[l].step
           w == [live[l] EXCEPT !.runtime = outcome, !.step = s]
<1>1. live[l] \in LiveRecords /\ Coherent(live[l]) /\ live[l].runtime = "disposing"
  BY DEF TypeOK, Records, DisposeSettles
<1>2. live' = [live EXCEPT ![l] = w] /\ UNCHANGED <<stage, closed, attached, opening, req, server>>
  BY <1>1 DEF DisposeSettles, TypeOK
<1>3. live[l].step \in {"failing", "ready"} /\ i \in Ids
  BY <1>1 DEF Coherent, LiveRecords, Steps
<1>4. s \in {"failed", "ready"} /\ s \in Steps /\ (s = "ready" <=> live[l].step = "ready")
  BY <1>3 DEF Steps
<1> HIDE DEF s
<1>5. w \in LiveRecords /\ w.id = i /\ w.step = s /\ w.runtime = outcome
      /\ w.disposals = live[l].disposals
      /\ w.disposing = live[l].disposing /\ w.conns = live[l].conns /\ w.ops = live[l].ops
      /\ w.term = live[l].term
  BY <1>1, <1>4 DEF LiveRecords, Runtimes
<1> HIDE DEF w
<1>6. Coherent(w)
  BY <1>1, <1>3, <1>4, <1>5 DEF Coherent
<1>7. /\ live' \in [Reqs -> LiveRecords]
      /\ live'[l] = w
      /\ \A k \in Reqs : k # l => live'[k] = live[k]
  BY <1>2, <1>5 DEF TypeOK
<1>8. /\ sessions' \in [Ids -> Reqs \cup {None}]
      /\ \A j \in Ids : sessions'[j] = sessions[j] \/ (sessions[j] = l /\ sessions'[j] = None)
      /\ \A j \in Ids : sessions'[j] # l
  <2>1. sessions \in [Ids -> Reqs \cup {None}]
    BY DEF TypeOK
  <2>2. CASE live[l].disposing = "set" /\ sessions[i] = l
    <3>1. sessions' = [sessions EXCEPT ![i] = None]
      BY <2>2 DEF DisposeSettles
    <3>2. \A j \in Ids : sessions[j] = l => j = i
      BY SessionConstants DEF Entries
    <3> QED BY <1>3, <2>1, <2>2, <3>1, <3>2, SessionConstants
  <2>3. CASE ~(live[l].disposing = "set" /\ sessions[i] = l)
    <3>1. sessions' = sessions
      BY <2>3 DEF DisposeSettles
    <3>2. \A j \in Ids : sessions[j] # l
      BY <1>1, <2>3, SessionConstants DEF Entries, DisposalPending
    <3> QED BY <2>1, <3>1, <3>2
  <2> QED BY <2>2, <2>3
<1>9. Late' = Late /\ isClosing' = isClosing
  BY <1>2 DEF Late, isClosing
<1>10. TypeOK'
  BY <1>2, <1>7, <1>8 DEF TypeOK, Stamped
<1>11. Records'
  BY <1>6, <1>7 DEF Records
<1>12. \A k \in Reqs : live[k].step = "ready" => live[k].id \in Ids
  BY DEF Records, Coherent
<1>13. Mapped'
  <2>1. \A k \in Reqs : k # l /\ live[k].step = "ready" /\ sessions[live[k].id] = k =>
          sessions'[live[k].id] = k
    BY <1>8, <1>12
  <2>2. live[l].step = "ready" => Late \/ live[l].disposing = "set"
    BY <1>1 DEF Mapped
  <2> QED BY <1>4, <1>5, <1>7, <1>9, <2>1, <2>2 DEF Mapped
<1>14. Entries'
  <2>1. \A j \in Ids : sessions'[j] # None => sessions'[j] = sessions[j] /\ sessions[j] \in Reqs /\ sessions[j] # l
    BY <1>8 DEF TypeOK
  <2> QED BY <1>7, <2>1 DEF Entries, DisposalPending
<1>15. Opened'
  <2>1. \A k \in Reqs : live'[k].step \in {"acquiring", "snapshot", "failing"} =>
            k # l /\ opening[live[k].id] = k /\ sessions[live[k].id] = None /\ live[k].id \in Ids
    BY <1>4, <1>5, <1>7 DEF Opened, Records, Coherent
  <2>2. \A k \in Reqs : live'[k].step \in {"acquiring", "snapshot", "failing"} =>
            sessions'[live[k].id] = None
    BY <1>8, <2>1
  <2>3. \A j \in Ids : opening[j] # None => opening[j] \in Reqs
    BY DEF TypeOK
  <2> QED BY <1>2, <1>4, <1>5, <1>7, <2>1, <2>2, <2>3 DEF Opened
<1>16. \A r \in Reqs : req[r].pc \notin {"new", "done"} => req[r].live \in Reqs
  BY DEF Informed
<1>17. Informed'
  BY <1>2, <1>3, <1>4, <1>5, <1>7, <1>16 DEF Informed
<1>18. Shutdown'
  <2>1. \A k \in Reqs : live'[k].step = "snapshot" => live[k].step = "snapshot"
    BY <1>4, <1>5, <1>7
  <2>2. Late => \A j \in Ids : sessions'[j] = None
    BY <1>8 DEF Shutdown
  <2> QED BY <1>2, <1>9, <2>1, <2>2 DEF Shutdown
<1>19. \A k \in Reqs : live'[k].id = live[k].id
  BY <1>5, <1>7
<1>20. Awaited'
  <2>1. \A k \in Reqs : InUse(k)' => InUse(k)
    BY <1>5, <1>7 DEF InUse
  <2> QED BY <1>2, <1>9, <1>16, <1>19, <2>1 DEF Awaited
<1>21. SingletonRuntime'
  <2>1. \A k \in Reqs : Claims(k)' => Claims(k)
    BY <1>4, <1>5, <1>7 DEF Claims
  <2> QED BY <1>19, <2>1 DEF SingletonRuntime
<1>22. OperationsAreServed'
  <2>1. live[l].ops = {} \/ isClosing
    BY <1>1 DEF OperationsAreServed
  <2> QED BY <1>5, <1>7, <1>9, <2>1 DEF OperationsAreServed
<1>23. EventsReachAttached'
  BY <1>2, <1>5, <1>7 DEF EventsReachAttached, Subscribed
<1> QED BY <1>10, <1>11, <1>13, <1>14, <1>15, <1>17, <1>18, <1>20, <1>21, <1>22, <1>23

\* close goes on, without touching the sessions.
LEMMA AdvanceStep ==
  ASSUME SessionInv, Close \/ CloseConnections \/ CloseAwaitsOpenings \/ Closed, Stamped
  PROVE  SessionInv'
<1> USE DEF SessionInv
<1>1. UNCHANGED <<attached, sessions, opening, live, req>>
  BY DEF Close, CloseConnections, CloseAwaitsOpenings, Closed
<1>2. /\ stage' \in [Conns -> Stages] /\ closed' \in SUBSET Conns
      /\ \A c \in Conns : stage'[c] = "ready" => stage[c] = "ready"
  BY DEF Close, CloseConnections, CloseAwaitsOpenings, Closed, TypeOK, Stages
<1>3. {opening[i] : i \in Ids} \ {None} \in SUBSET Reqs
  BY DEF TypeOK
<1>4. server' \in [step : ServerSteps, awaits : SUBSET Reqs] /\ Late' = Late /\ isClosing'
  BY <1>3 DEF Close, CloseConnections, CloseAwaitsOpenings, Closed, Advance, ServerSteps, Late, isClosing
<1>5. TypeOK'
  BY <1>1, <1>2, <1>4 DEF TypeOK, Stamped
<1>6. Records' /\ Mapped' /\ Entries' /\ Opened' /\ Informed'
  BY <1>1, <1>4 DEF Records, Mapped, Entries, DisposalPending, Opened, Informed
<1>7. Shutdown'
  <2>1. server'.step = "openings" => \A l \in Reqs : live[l].step = "snapshot" => l \in server'.awaits
    <3> SUFFICES ASSUME server'.step = "openings", NEW l \in Reqs, live[l].step = "snapshot"
                 PROVE  l \in server'.awaits
      OBVIOUS
    <3>1. CloseAwaitsOpenings
      BY DEF Close, CloseConnections, CloseAwaitsOpenings, Closed, Advance
    <3>2. server'.awaits = {opening[i] : i \in Ids} \ {None}
      BY <3>1 DEF CloseAwaitsOpenings, Advance
    <3>3. live[l].id \in Ids /\ opening[live[l].id] = l /\ l # None
      BY SessionConstants DEF Records, Coherent, Opened
    <3> QED BY <3>2, <3>3
  <2>2. server'.step \notin {"open", "listeners"} => \A c \in Conns : stage'[c] # "ready"
    <3>1. CASE CloseConnections
      BY <3>1 DEF CloseConnections, TypeOK
    <3>2. CASE ~CloseConnections
      BY <3>2 DEF Close, CloseAwaitsOpenings, Closed, Advance, Shutdown
    <3> QED BY <3>1, <3>2
  <2> QED BY <1>1, <1>4, <2>1, <2>2 DEF Shutdown
<1>8. Awaited'
  <2>1. CASE Close
    <3> SUFFICES ASSUME NEW r \in Reqs, NEW k \in Reqs,
                        req[r].pc = "wait", InUse(k), live[k].id = live[req[r].live].id
                 PROVE  k = req[r].live
      BY <1>1 DEF Awaited, InUse
    <3> DEFINE l == req[r].live
    <3>1. l \in Reqs /\ live[l].disposing = "set"
      BY DEF Informed
    <3>2. live[l].runtime = "disposing" /\ live[l].step = "ready"
      BY <2>1, <3>1 DEF Close, Quiet, Ready, DisposalPending, Records, Coherent
    <3>3. ~Late
      BY <2>1 DEF Close, Advance, Late
    <3>4. sessions[live[l].id] = l
      BY <3>1, <3>2, <3>3 DEF Mapped
    <3> QED BY <3>1, <3>3, <3>4, SessionConstants DEF InUse, Mapped, Opened
  <2>2. CASE ~Close
    <3>1. isClosing
      BY <2>2 DEF CloseConnections, CloseAwaitsOpenings, Closed, Advance, isClosing
    <3> QED BY <1>1, <3>1 DEF Awaited, InUse
  <2> QED BY <2>1, <2>2
<1>9. SingletonRuntime' /\ OperationsAreServed' /\ EventsReachAttached'
  BY <1>1, <1>4 DEF SingletonRuntime, Claims, OperationsAreServed, EventsReachAttached
<1> QED BY <1>5, <1>6, <1>7, <1>8, <1>9

\* close disconnects all connections.
LEMMA CloseDisconnectsStep ==
  ASSUME SessionInv, CloseDisconnects, Stamped
  PROVE  SessionInv'
<1> USE DEF SessionInv
<1>1. /\ server.step = "connections" /\ server' = [step |-> "disconnected", awaits |-> {}]
      /\ DisconnectAll(live, {c \in Conns : stage[c] = "closing"})
      /\ UNCHANGED <<closed, sessions, opening, req>>
  BY DEF CloseDisconnects, Advance
<1>2. server' \in [step : ServerSteps, awaits : SUBSET Reqs] /\ Late' = Late /\ isClosing' = isClosing
      /\ ~Late
  BY <1>1 DEF ServerSteps, Late, isClosing
<1>3. (\A c \in Conns : stage'[c] = "ready" => stage[c] = "ready") => Shutdown'
  BY <1>1, <1>2 DEF Shutdown
<1>4. live \in [Reqs -> LiveRecords]
  BY DEF TypeOK
<1> QED BY <1>1, <1>2, <1>3, <1>4, DisconnectAllStep

\* close disposes all sessions.
LEMMA CloseDisposesStep ==
  ASSUME SessionInv, CloseDisposes, Stamped
  PROVE  SessionInv'
<1> USE DEF SessionInv
<1> DEFINE all == {sessions[i] : i \in Ids} \ {None}
<1>1. /\ server.step = "openings" /\ server' = [step |-> "disposing", awaits |-> all]
      /\ \A l \in server.awaits : Settled(l)
      /\ sessions' = [i \in Ids |-> None]
      /\ live' = [l \in Reqs |-> IF l \in all /\ live[l].disposing = "unset"
                                    THEN Disposing(live[l]) ELSE live[l]]
      /\ UNCHANGED <<stage, closed, attached, opening, req>>
  BY DEF CloseDisposes, Advance
<1>2. all \in SUBSET Reqs
  BY DEF TypeOK
<1>3. \A l \in all : live[l].step = "ready" /\ (live[l].disposing = "unset" => live[l].runtime = "held")
  BY DEF Entries, DisposalPending
<1>4. \A l \in Reqs : live[l].step = "ready" /\ live[l].runtime = "held" =>
          l \in all /\ live[l].disposing = "unset"
  BY SessionConstants DEF Mapped, Records, Coherent, TypeOK, LiveRecords
<1> HIDE DEF all
<1>5. ASSUME NEW l \in Reqs
      PROVE  /\ live'[l] \in LiveRecords
             /\ Coherent(live'[l])
             /\ live'[l].id = live[l].id /\ live'[l].step = live[l].step
             /\ live'[l].disposing = live[l].disposing /\ live'[l].ops = live[l].ops
             /\ live'[l].runtime = IF live[l].step = "ready" /\ live[l].runtime = "held"
                                     THEN "disposing" ELSE live[l].runtime
  <2>1. live[l] \in LiveRecords /\ Coherent(live[l])
    BY DEF TypeOK, Records
  <2>2. CASE l \in all /\ live[l].disposing = "unset"
    <3> DEFINE d == Disposing(live[l])
    <3>1. live'[l] = d /\ d \in LiveRecords
      BY <1>1, <2>1, <2>2, DisposingRecord
    <3>2. /\ d.id = live[l].id /\ d.runtime = "disposing" /\ d.disposals = live[l].disposals + 1
          /\ d.disposing = live[l].disposing /\ d.conns = live[l].conns /\ d.ops = live[l].ops
          /\ d.term = live[l].term /\ d.step = live[l].step
      BY <2>1 DEF Disposing, LiveRecords
    <3> HIDE DEF d
    <3>3. live[l].step = "ready" /\ live[l].runtime = "held" /\ live[l].disposals = 0
      BY <1>3, <2>1, <2>2 DEF Coherent
    <3>4. Coherent(d)
      BY <2>1, <2>2, <3>2, <3>3 DEF Coherent
    <3> QED BY <3>1, <3>2, <3>3, <3>4
  <2>3. CASE ~(l \in all /\ live[l].disposing = "unset")
    BY <1>1, <1>4, <2>1, <2>3
  <2> QED BY <2>2, <2>3
<1>6. Late' /\ isClosing' /\ isClosing /\ ~Late
  BY <1>1 DEF Late, isClosing
<1>7. live' \in [Reqs -> LiveRecords]
  <2>1. live' = [l \in Reqs |-> live'[l]]
    BY <1>1
  <2> QED BY <1>5, <2>1
<1>8. TypeOK'
  BY <1>1, <1>2, <1>7 DEF TypeOK, Stamped, ServerSteps
<1>9. Records' /\ Mapped'
  BY <1>5, <1>6 DEF Records, Mapped
<1>10. Entries'
  BY <1>1 DEF Entries
<1>11. Opened'
  <2>1. \A l \in Reqs : live[l].step \in {"acquiring", "snapshot", "failing"} =>
            live[l].id \in Ids /\ opening[live[l].id] = l
    BY DEF Opened, Records, Coherent
  <2>2. \A i \in Ids : opening[i] # None => opening[i] \in Reqs
    BY DEF TypeOK
  <2> QED BY <1>1, <1>5, <2>1, <2>2 DEF Opened
<1>12. Informed'
  BY <1>1, <1>5 DEF Informed
<1>13. Shutdown'
  <2>1. \A l \in Reqs : live[l].step # "snapshot"
    BY <1>1 DEF Shutdown, Settled
  <2> QED BY <1>1, <1>5, <2>1 DEF Shutdown
<1>14. Awaited'
  <2>1. \A l \in Reqs : InUse(l)' => InUse(l)
    BY <1>5 DEF InUse
  <2>2. \A r \in Reqs : req[r].pc = "wait" => req[r].live \in Reqs
    BY DEF Informed
  <2> QED BY <1>1, <1>5, <1>6, <2>1, <2>2 DEF Awaited
<1>15. SingletonRuntime'
  <2>1. \A l \in Reqs : Claims(l)' => Claims(l)
    BY <1>5 DEF Claims
  <2> QED BY <1>5, <2>1 DEF SingletonRuntime
<1>16. OperationsAreServed'
  BY <1>6 DEF OperationsAreServed
<1>17. EventsReachAttached'
  BY <1>5 DEF EventsReachAttached, Subscribed
<1> QED BY <1>8, <1>9, <1>10, <1>11, <1>12, <1>13, <1>14, <1>15, <1>16, <1>17

----------------------------------------------------------------------------
(***************************************************************************)
(* The theorems.                                                           *)
(***************************************************************************)
LEMMA SessionInit == Init => SessionInv
<1> SUFFICES ASSUME Init PROVE SessionInv
  OBVIOUS
<1>1. Fresh \in LiveRecords /\ Coherent(Fresh)
  BY DEF Fresh, LiveRecords, Steps, Runtimes, Terms, Coherent
<1>2. Unsent \in Requests /\ Unsent.pc = "new"
  BY DEF Unsent, Requests, PCs
<1>3. \A l \in Reqs : live[l] = Fresh
  BY DEF Init
<1>4. Fresh.step = "new" /\ Fresh.runtime = "none" /\ Fresh.ops = {} /\ Fresh.disposals = 0
  BY DEF Fresh
<1>5. TypeOK
  BY <1>1, <1>2, SessionConstants DEF Init, TypeOK, Stages, ServerSteps
<1>6. Records /\ Mapped /\ Entries /\ Opened
  BY <1>1, <1>3, <1>4 DEF Init, Records, Mapped, Entries, Opened
<1>7. Informed
  BY <1>2, <1>3, <1>4 DEF Init, Informed
<1>8. Shutdown /\ Awaited
  BY DEF Init, Shutdown, Late, Awaited, isClosing
<1>9. SingletonRuntime /\ OperationsAreServed /\ EventsReachAttached
  BY <1>3, <1>4 DEF SingletonRuntime, Claims, OperationsAreServed, EventsReachAttached, Subscribed
<1> QED BY <1>5, <1>6, <1>7, <1>8, <1>9 DEF SessionInv

\* Every step preserves the invariant.
LEMMA SessionStep == SessionInv /\ [Next]_vars => SessionInv'
<1> SUFFICES ASSUME SessionInv, [Next]_vars PROVE SessionInv'
  OBVIOUS
<1>1. turn \in Conns \cup {None} /\ faults \in 0..MaxFaults
  BY DEF SessionInv, TypeOK
<1>2. ASSUME NEW r \in Reqs, NEW c \in Conns, NEW i \in Ids, Message(r, c, i), turn' = c, UNCHANGED faults
      PROVE  SessionInv'
  <2>1. Stamped
    BY <1>1, <1>2 DEF Stamped
  <2> QED BY <1>2, <2>1, RequestSessionStep, DetachStep, OperationStep DEF Message
<1>3. CASE Step /\ After
  <2>1. Stamped
    BY <1>1, <1>3 DEF After, Stamped
  <2>2. ASSUME NEW r \in Reqs, Continue(r) \/ OperationDone(r)
        PROVE  SessionInv'
    BY <2>1, <2>2, AcquireAgainStep, ContinuesStep, AttachStep, DetachedStep, OperationDoneStep DEF Continue
  <2>3. ASSUME NEW l \in Reqs,
               \/ Creation(l) \/ Termination(l) \/ DisposeDone(l)
               \/ WorkStarts(l) \/ WorkEnds(l) \/ RuntimeEvent(l)
        PROVE  SessionInv'
    BY <2>1, <2>3, CreationEnds, SessionCreatedStep, TerminationStep, DisposeSettlesStep, WorkStep
       DEF Creation, DisposeDone
  <2>4. ASSUME NEW c \in Conns, TransportCloses(c) \/ Disconnect(c)
        PROVE  SessionInv'
    BY <2>1, <2>4, TransportClosesStep, DisconnectStep
  <2>5. CASE Close \/ Closing
    BY <2>1, <2>5, AdvanceStep, CloseDisconnectsStep, CloseDisposesStep DEF Closing
  <2> QED BY <1>3, <2>2, <2>3, <2>4, <2>5 DEF Step
<1>4. ASSUME NEW l \in Reqs, Fault(l), turn' = None, faults < MaxFaults, faults' = faults + 1
      PROVE  SessionInv'
  <2>1. Stamped
    BY <1>1, <1>4, SessionConstants DEF Stamped
  <2> QED BY <1>4, <2>1, CreationEnds, DisposeSettlesStep, TerminationStep DEF Fault, DisposeFails
<1>5. CASE UNCHANGED vars
  <2>1. Stamped /\ UNCHANGED <<stage, closed, attached, sessions, opening, live, req, server>>
    BY <1>1, <1>5 DEF vars, Stamped
  <2> QED BY <2>1, LiveIsAlike, LiveIsSound, WaitingIsCalm, CalmAction DEF Stamped, SessionInv, TypeOK
<1> QED BY <1>2, <1>3, <1>4, <1>5 DEF Next

\* The invariant holds of every behaviour of the live sessions.
THEOREM SessionsInvariant == Spec => []SessionInv
BY SessionInit, SessionStep, PTL DEF Spec

\* The maps, objects, requests and connections of the session manager keep their types.
THEOREM SessionsTypeCorrect == Spec => []TypeOK
<1>1. SessionInv => TypeOK
  BY DEF SessionInv
<1> QED BY <1>1, SessionsInvariant, PTL

\* Whatever requests, failures and shutdowns overlap, acquire never asks the backend
\* for a runtime of a session of which one is still acquired, held or being disposed.
THEOREM RuntimeIsSingleton == Spec => []SingletonRuntime
<1>1. SessionInv => SingletonRuntime
  BY DEF SessionInv
<1> QED BY <1>1, SessionsInvariant, PTL

\* An operation that has started is served by a runtime that is not being disposed,
\* unless the server closes.
THEOREM OperationsKeepRuntime == Spec => []OperationsAreServed
<1>1. SessionInv => OperationsAreServed
  BY DEF SessionInv
<1> QED BY <1>1, SessionsInvariant, PTL

\* maybeDispose, a failed creation and close together call dispose at most once on
\* a runtime.
THEOREM DisposedAtMostOnce == Spec => []DisposedOnce
<1>1. SessionInv => DisposedOnce
  BY DEF SessionInv, Records, Coherent, DisposedOnce
<1> QED BY <1>1, SessionsInvariant, PTL

\* A runtime's events are sent only to connections that are attached to its session.
THEOREM EventsOnlyToAttached == Spec => []EventsReachAttached
<1>1. SessionInv => EventsReachAttached
  BY DEF SessionInv
<1> QED BY <1>1, SessionsInvariant, PTL

----------------------------------------------------------------------------
(***************************************************************************)
(* Progress.  NoneKeptForever, CloseReleasesAll and RequestsAnswered need  *)
(* fairness.  What follows is what they rest on: somebody is always about  *)
(* to do what they say will be done.                                       *)
(***************************************************************************)
\* From the map being empty, and every runtime that is held being in it.
THEOREM CloseLeavesNoRuntime == Spec => []CloseLeavesNone
<1>1. SessionInv => CloseLeavesNone
  <2> SUFFICES ASSUME SessionInv, Late, NEW l \in Reqs, live[l].runtime = "held"
               PROVE  FALSE
    BY DEF CloseLeavesNone, Late
  <2>1. Coherent(live[l]) /\ live[l].step \in Steps
    BY DEF SessionInv, Records, TypeOK, LiveRecords
  <2>2. live[l].step = "ready" /\ live[l].id \in Ids
    BY <2>1 DEF SessionInv, Shutdown, Coherent, Steps
  <2>3. sessions[live[l].id] = l /\ sessions[live[l].id] = None
    BY <2>2 DEF SessionInv, Mapped, Shutdown
  <2> QED BY <2>3, SessionConstants
<1> QED BY <1>1, SessionsInvariant, PTL

\* How the creation of a session goes on.
Proceeds(l) ==
    \/ live'[l].step = live[l].step
    \/ /\ live[l].step = "new" /\ live'[l].step = "acquiring"
       /\ req'[l].pc = "create" /\ req'[l].live = l
    \/ live[l].step \in {"acquiring", "snapshot", "failing"} /\ live'[l].step # "new"

Tended(l) == (Unneeded(live[l]) => Attended(l))'

\* The requests that attend to the session still do.
Keeps(l) ==
    \A r \in Reqs : req[r].live = l /\ req[r].pc \in {"create", "opening", "attach", "detach"} =>
        req'[r].live = l /\ req'[r].pc \in {"create", "opening", "attach", "detach"}

\* A session that was not needed before either is still attended to.
LEMMA StillTended ==
  ASSUME UnneededIsAttended, NEW l \in Reqs, Keeps(l),
         live'[l].term = live[l].term \/ live'[l].term \in {"closing", "disconnected"},
         Unneeded(live[l])' => Unneeded(live[l])
  PROVE  Tended(l)
BY DEF UnneededIsAttended, Keeps, Attended, Tended

\* maybeDispose leaves nothing that is not needed among the objects it is given.
LEMMA DisposedOrNeeded ==
  ASSUME NEW lives \in [Reqs -> LiveRecords], NEW S, live' = MaybeDispose(lives, S),
         server' = server, NEW l \in Reqs
  PROVE  /\ live'[l].step = lives[l].step /\ live'[l].term = lives[l].term
         /\ Unneeded(live[l])' => l \notin S /\ Unneeded(lives[l])
<1> DEFINE v == lives[l]
<1>1. v \in LiveRecords
  OBVIOUS
<1>2. live'[l] = IF l \in S /\ Unneeded(v) THEN [Disposing(v) EXCEPT !.disposing = "set"] ELSE v
  BY DEF MaybeDispose
<1>3. CASE l \in S /\ Unneeded(v)
  <2>1. live'[l] = [Disposing(v) EXCEPT !.disposing = "set"]
    BY <1>2, <1>3
  <2>2. live'[l].step = v.step /\ live'[l].term = v.term /\ live'[l].disposing = "set"
    BY <1>1, <2>1 DEF Disposing, LiveRecords
  <2> QED BY <2>2 DEF Unneeded
<1>4. CASE ~(l \in S /\ Unneeded(v))
  <2>1. live'[l] = v
    BY <1>2, <1>4
  <2> QED BY <1>4, <2>1 DEF Unneeded, isClosing
<1> QED BY <1>3, <1>4

\* A request that does not attend to a session moves, and the others do not.
LEMMA OthersKeep ==
  ASSUME TypeOK, NEW r \in Reqs, NEW q, req' = [req EXCEPT ![r] = q], NEW l,
         req[r].pc \notin {"create", "opening", "attach", "detach"} \/ req[r].live # l
  PROVE  Keeps(l)
BY DEF TypeOK, Keeps

\* Nothing happens to the sessions.
LEMMA SameTended ==
  ASSUME SessionInv, UnneededIsAttended, live' = live, server' = server, NEW l \in Reqs, Keeps(l)
  PROVE  Proceeds(l) /\ Tended(l)
<1>1. Unneeded(live[l])' => Unneeded(live[l])
  BY DEF Unneeded, isClosing
<1> QED BY <1>1, StillTended DEF Proceeds

\* The objects handed to maybeDispose differ from the live ones in such a way that a
\* session which is not needed now was not needed before or is handed over.
LEMMA DisposalTended ==
  ASSUME SessionInv, UnneededIsAttended, NEW lives \in [Reqs -> LiveRecords], NEW S,
         live' = MaybeDispose(lives, S), server' = server, NEW l \in Reqs,
         l \in S \/ Keeps(l),
         lives[l].step = live[l].step,
         l \in S \/ lives[l].term = live[l].term \/ lives[l].term \in {"closing", "disconnected"},
         l \notin S /\ Unneeded(lives[l]) => Unneeded(live[l])
  PROVE  Proceeds(l) /\ Tended(l)
<1>1. /\ live'[l].step = lives[l].step /\ live'[l].term = lives[l].term
      /\ Unneeded(live[l])' => l \notin S /\ Unneeded(lives[l])
  BY DisposedOrNeeded
<1>2. CASE l \in S
  BY <1>1, <1>2 DEF Proceeds, Tended
<1>3. CASE l \notin S
  BY <1>1, <1>3, StillTended DEF Proceeds
<1> QED BY <1>2, <1>3

\* acquire: an existing session is not touched, and a new one is being created.
LEMMA AcquireTended ==
  ASSUME SessionInv, UnneededIsAttended, NEW r \in Reqs, NEW c, NEW i \in Ids,
         req[r].pc \in {"new", "wait"}, Acquire(r, c, i), server' = server, NEW l \in Reqs
  PROVE  Proceeds(l) /\ Tended(l)
<1>1. live \in [Reqs -> LiveRecords] /\ TypeOK /\ live[r].step = "new" /\ r \in Reqs
  BY DEF SessionInv, TypeOK, Informed
<1>2. PICK q : req' = [req EXCEPT ![r] = q]
  BY DEF Acquire, Answer, Goto
<1>3. Keeps(l)
  BY <1>1, <1>2, OthersKeep
<1>4. CASE live' = live
  BY <1>3, <1>4, SameTended
<1>5. CASE /\ live' = [live EXCEPT ![r].step = "acquiring", ![r].id = i]
           /\ Goto(r, "create", c, r)
  <2>1. CASE l = r
    <3>1. live'[r] = [live[r] EXCEPT !.step = "acquiring", !.id = i] /\ live[r] \in LiveRecords
      BY <1>1, <1>5
    <3>2. live'[r].step = "acquiring"
      BY <3>1 DEF LiveRecords
    <3>3. req'[r].pc = "create" /\ req'[r].live = r
      BY <1>1, <1>5 DEF Goto, TypeOK
    <3> QED BY <1>1, <2>1, <3>2, <3>3 DEF Proceeds, Tended, Unneeded
  <2>2. CASE l # r
    <3>1. live'[l] = live[l]
      BY <1>1, <1>5, <2>2
    <3>2. Unneeded(live[l])' => Unneeded(live[l])
      BY <3>1 DEF Unneeded, isClosing
    <3> QED BY <1>3, <3>1, <3>2, StillTended DEF Proceeds
  <2> QED BY <2>1, <2>2
<1> QED BY <1>4, <1>5 DEF Acquire

\* One object changes its step as its creation goes on, and is attended to by the
\* request that creates it.
LEMMA CreationTended ==
  ASSUME SessionInv, UnneededIsAttended, Created, NEW k \in Reqs,
         live[k].step \in {"acquiring", "snapshot"}, live'[k].step # "new",
         \A m \in Reqs : m # k => live'[m] = live[m],
         req' = req, server' = server, NEW l \in Reqs
  PROVE  Proceeds(l) /\ Tended(l)
<1>1. CASE l = k
  <2>1. req'[k].pc = "create" /\ req'[k].live = k
    BY DEF Created
  <2> QED BY <1>1, <2>1 DEF Proceeds, Tended, Attended
<1>2. CASE l # k
  <2>1. live'[l] = live[l] /\ Keeps(l)
    BY <1>2 DEF Keeps
  <2>2. Unneeded(live[l])' => Unneeded(live[l])
    BY <2>1 DEF Unneeded, isClosing
  <2> QED BY <2>1, <2>2, StillTended DEF Proceeds
<1> QED BY <1>1, <1>2

\* The runtime is acquired or refused, its snapshot arrives or not.
LEMMA CreationStepTended ==
  ASSUME SessionInv, UnneededIsAttended, Created, NEW k \in Reqs,
         RuntimeAcquired(k) \/ RuntimeRefused(k) \/ SessionCreated(k) \/ SnapshotRefused(k),
         NEW l \in Reqs
  PROVE  Proceeds(l) /\ Tended(l)
<1>1. live \in [Reqs -> LiveRecords] /\ live[k] \in LiveRecords
  BY DEF SessionInv, TypeOK
<1>2. live[k].step \in {"acquiring", "snapshot"} /\ req' = req /\ server' = server
  BY DEF RuntimeAcquired, RuntimeRefused, SessionCreated, SnapshotRefused
<1>3. \A m \in Reqs : m # k => live'[m] = live[m]
  BY <1>1 DEF RuntimeAcquired, RuntimeRefused, SessionCreated, SnapshotRefused
<1>4. live'[k].step # "new"
  <2>1. CASE RuntimeAcquired(k)
    <3>1. live'[k] = IF isClosing THEN [Disposing(live[k]) EXCEPT !.step = "failing"]
                     ELSE [live[k] EXCEPT !.runtime = "held", !.step = "snapshot"]
      BY <1>1, <2>1 DEF RuntimeAcquired
    <3> QED BY <1>1, <3>1 DEF Disposing, LiveRecords
  <2>2. CASE RuntimeRefused(k)
    BY <1>1, <2>2 DEF RuntimeRefused, LiveRecords
  <2>3. CASE SessionCreated(k)
    BY <1>1, <2>3 DEF SessionCreated, LiveRecords
  <2>4. CASE SnapshotRefused(k)
    <3>1. live'[k] = [Disposing(live[k]) EXCEPT !.step = "failing"]
      BY <1>1, <2>4 DEF SnapshotRefused
    <3> QED BY <1>1, <3>1 DEF Disposing, LiveRecords
  <2> QED BY <2>1, <2>2, <2>3, <2>4
<1> QED BY <1>2, <1>3, <1>4, CreationTended

\* The creator or a sharer goes on to attach, unless the creation failed.
LEMMA ContinuesTended ==
  ASSUME SessionInv, UnneededIsAttended, NEW r \in Reqs,
         CreatorContinues(r) \/ SharerContinues(r), NEW l \in Reqs
  PROVE  Proceeds(l) /\ Tended(l)
<1>1. live' = live /\ server' = server
  BY DEF CreatorContinues, SharerContinues
<1>2. req \in [Reqs -> Requests] /\ TypeOK
  BY DEF SessionInv, TypeOK
<1>3. CASE live[req[r].live].step = "ready"
  <2>1. req' = [req EXCEPT ![r] = [pc |-> "attach", conn |-> req[r].conn, live |-> req[r].live]]
    BY <1>3 DEF CreatorContinues, SharerContinues, Goto
  <2>2. Keeps(l)
    BY <1>2, <2>1 DEF Keeps
  <2> QED BY <1>1, <2>2, SameTended
<1>4. CASE live[req[r].live].step # "ready"
  <2>1. req' = [req EXCEPT ![r] = [pc |-> "done", conn |-> None, live |-> None]]
    BY <1>4 DEF CreatorContinues, SharerContinues, Answer
  <2>2. CASE req[r].live = l
    BY <1>1, <1>4, <2>2 DEF Proceeds, Tended, Unneeded
  <2>3. CASE req[r].live # l
    <3>1. Keeps(l)
      BY <1>2, <2>1, <2>3, OthersKeep
    <3> QED BY <1>1, <3>1, SameTended
  <2> QED BY <2>2, <2>3
<1> QED BY <1>3, <1>4

\* The runtime's dispose settles.
LEMMA DisposeSettlesTended ==
  ASSUME SessionInv, UnneededIsAttended, NEW k \in Reqs, NEW outcome, DisposeSettles(k, outcome),
         NEW l \in Reqs
  PROVE  Proceeds(l) /\ Tended(l)
<1>1. live \in [Reqs -> LiveRecords] /\ live[l] \in LiveRecords /\ req' = req /\ server' = server
  BY DEF SessionInv, TypeOK, DisposeSettles
<1>2. live' = [live EXCEPT ![k].runtime = outcome,
                           ![k].step = IF @ = "failing" THEN "failed" ELSE @]
  BY DEF DisposeSettles
<1>3. Keeps(l)
  BY <1>1 DEF Keeps
<1>4. CASE l # k
  <2>1. live'[l] = live[l]
    BY <1>1, <1>2, <1>4
  <2>2. Unneeded(live[l])' => Unneeded(live[l])
    BY <1>1, <2>1 DEF Unneeded, isClosing
  <2> QED BY <1>3, <2>1, <2>2, StillTended DEF Proceeds
<1>5. CASE l = k
  <2>1. live'[l] = [live[l] EXCEPT !.runtime = outcome, !.step = IF @ = "failing" THEN "failed" ELSE @]
    BY <1>1, <1>2, <1>5
  <2>2. /\ live'[l].disposing = live[l].disposing /\ live'[l].conns = live[l].conns
        /\ live'[l].ops = live[l].ops /\ live'[l].term = live[l].term /\ live'[l].phase = live[l].phase
        /\ live'[l].step = IF live[l].step = "failing" THEN "failed" ELSE live[l].step
    BY <1>1, <2>1 DEF LiveRecords
  <2>3. Unneeded(live[l])' => Unneeded(live[l])
    BY <1>1, <2>2 DEF Unneeded, isClosing
  <2> QED BY <1>3, <2>2, <2>3, StillTended DEF Proceeds
<1> QED BY <1>4, <1>5

\* One session is changed and handed to maybeDispose.
LEMMA OneDisposalTended ==
  ASSUME SessionInv, UnneededIsAttended, NEW k \in Reqs, NEW v \in LiveRecords,
         v.step = live[k].step, live' = MaybeDispose([live EXCEPT ![k] = v], {k}), server' = server,
         NEW l \in Reqs, l = k \/ Keeps(l)
  PROVE  Proceeds(l) /\ Tended(l)
<1> DEFINE lives == [live EXCEPT ![k] = v]
<1>1. live \in [Reqs -> LiveRecords]
  BY DEF SessionInv, TypeOK
<1>2. lives \in [Reqs -> LiveRecords] /\ lives[k] = v /\ (l # k => lives[l] = live[l])
  BY <1>1
<1> HIDE DEF lives
<1>3. live' = MaybeDispose(lives, {k})
  BY DEF lives
<1> QED BY <1>2, <1>3, DisposalTended

\* One session is changed, and is needed or attended to afterwards if it was not before.
LEMMA OneChangeTended ==
  ASSUME SessionInv, UnneededIsAttended, NEW k \in Reqs, NEW v, v.step = live[k].step,
         live' = [live EXCEPT ![k] = v], server' = server,
         v.term = live[k].term \/ v.term \in {"closing", "disconnected"},
         Unneeded(v) => Unneeded(live[k]) \/ v.term \in {"closing", "disconnected"},
         NEW l \in Reqs, (l = k /\ ~Unneeded(v)) \/ Keeps(l)
  PROVE  Proceeds(l) /\ Tended(l)
<1>1. live \in [Reqs -> LiveRecords]
  BY DEF SessionInv, TypeOK
<1>2. CASE l # k
  <2>1. live'[l] = live[l]
    BY <1>1, <1>2
  <2>2. Unneeded(live[l])' => Unneeded(live[l])
    BY <2>1 DEF Unneeded, isClosing
  <2> QED BY <1>2, <2>1, <2>2, StillTended DEF Proceeds
<1>3. CASE l = k
  <2>1. live'[l] = v
    BY <1>1, <1>3
  <2>2. Unneeded(live[l])' => Unneeded(v)
    BY <2>1 DEF Unneeded, isClosing
  <2>3. CASE v.term \in {"closing", "disconnected"}
    BY <1>3, <2>1, <2>3 DEF Proceeds, Tended, Attended
  <2>4. CASE ~Unneeded(v)
    BY <1>3, <2>1, <2>2, <2>4 DEF Proceeds, Tended
  <2>5. CASE Unneeded(live[k]) /\ v.term = live[k].term /\ Keeps(l)
    BY <1>3, <2>1, <2>5, StillTended DEF Proceeds
  <2> QED BY <1>3, <2>3, <2>4, <2>5
<1> QED BY <1>2, <1>3

\* attach adds a connection, or asks whether the session is needed.
LEMMA AttachTended ==
  ASSUME SessionInv, UnneededIsAttended, NEW r \in Reqs, Attach(r), NEW l \in Reqs
  PROVE  Proceeds(l) /\ Tended(l)
<1> DEFINE k == req[r].live
           c == req[r].conn
<1>1. k \in Reqs /\ live \in [Reqs -> LiveRecords] /\ live[k] \in LiveRecords /\ TypeOK
  BY DEF SessionInv, TypeOK, Informed, Attach
<1>2. server' = server /\ req' = [req EXCEPT ![r] = [pc |-> "done", conn |-> None, live |-> None]]
  BY DEF Attach, Answer
<1>3. l = k \/ Keeps(l)
  BY <1>1, <1>2, OthersKeep
<1>4. CASE live' = MaybeDispose(live, {k})
  <2>1. live = [live EXCEPT ![k] = live[k]]
    BY <1>1
  <2> QED BY <1>1, <1>2, <1>3, <1>4, <2>1, OneDisposalTended
<1>5. CASE live' = [live EXCEPT ![k].conns = @ \cup {c}]
  <2> DEFINE v == [live[k] EXCEPT !.conns = @ \cup {c}]
  <2>1. v.step = live[k].step /\ v.term = live[k].term /\ v.conns # {}
    BY <1>1 DEF LiveRecords
  <2>2. live' = [live EXCEPT ![k] = v]
    BY <1>1, <1>5
  <2>3. ~Unneeded(v)
    BY <2>1 DEF Unneeded
  <2> HIDE DEF v, k
  <2> QED BY <1>1, <1>2, <1>3, <2>1, <2>2, <2>3, OneChangeTended
<1> QED BY <1>4, <1>5 DEF Attach

\* A detach leaves other connections, or asks whether the session is needed.
LEMMA DetachTended ==
  ASSUME SessionInv, UnneededIsAttended, NEW r \in Reqs, NEW c \in Conns, NEW i \in Ids,
         RequestDetach(r, c, i), NEW l \in Reqs
  PROVE  Proceeds(l) /\ Tended(l)
<1> DEFINE k == sessions[i]
           left == [live EXCEPT ![k].conns = @ \ {c}]
<1>1. live \in [Reqs -> LiveRecords] /\ k \in Reqs \cup {None} /\ TypeOK
  BY DEF SessionInv, TypeOK
<1>2. server' = server /\ req[r].pc = "new"
  BY DEF RequestDetach, Receive
<1>3. PICK q : req' = [req EXCEPT ![r] = q]
  BY DEF RequestDetach, Answer, Goto
<1>4. Keeps(l)
  BY <1>1, <1>2, <1>3, OthersKeep
<1>5. CASE k = None
  BY <1>2, <1>4, <1>5, SameTended DEF RequestDetach
<1>6. CASE k # None
  <2> DEFINE v == [live[k] EXCEPT !.conns = @ \ {c}]
  <2>1. k \in Reqs /\ live[k] \in LiveRecords
    BY <1>1, <1>6
  <2>2. left = [live EXCEPT ![k] = v] /\ left[k] = v
    BY <1>1, <2>1
  <2>3. v \in LiveRecords /\ v.step = live[k].step /\ v.term = live[k].term
    BY <2>1 DEF LiveRecords
  <2>4. \/ live' = left /\ v.conns # {}
        \/ live' = MaybeDispose(left, {k})
    BY <1>6, <2>2 DEF RequestDetach
  <2> HIDE DEF v, k, left
  <2>5. CASE live' = left /\ v.conns # {}
    <3>1. ~Unneeded(v)
      BY <2>5 DEF Unneeded
    <3> QED BY <1>2, <1>4, <2>1, <2>2, <2>3, <2>5, <3>1, OneChangeTended
  <2>6. CASE live' = MaybeDispose(left, {k})
    BY <1>2, <1>4, <2>1, <2>2, <2>3, <2>6, OneDisposalTended
  <2> QED BY <2>4, <2>5, <2>6
<1> QED BY <1>5, <1>6

\* After the snapshot for those that remain, the session may not be needed any more.
LEMMA DetachedTended ==
  ASSUME SessionInv, UnneededIsAttended, NEW r \in Reqs, Detached(r), NEW l \in Reqs
  PROVE  Proceeds(l) /\ Tended(l)
<1> DEFINE k == req[r].live
<1>1. k \in Reqs /\ live \in [Reqs -> LiveRecords] /\ live[k] \in LiveRecords /\ TypeOK
  BY DEF SessionInv, TypeOK, Informed, Detached
<1>2. server' = server /\ req' = [req EXCEPT ![r] = [pc |-> "done", conn |-> None, live |-> None]]
  BY DEF Detached, Answer
<1>3. l = k \/ Keeps(l)
  BY <1>1, <1>2, OthersKeep
<1>4. live = [live EXCEPT ![k] = live[k]] /\ live' = MaybeDispose(live, {k})
  BY <1>1 DEF Detached
<1> QED BY <1>1, <1>2, <1>3, <1>4, OneDisposalTended

\* An operation begins, which needs the session, or ends.
LEMMA OperationTended ==
  ASSUME SessionInv, UnneededIsAttended, NEW r \in Reqs,
         OperationDone(r) \/ \E c \in Conns, i \in Ids : RequestOperation(r, c, i), NEW l \in Reqs
  PROVE  Proceeds(l) /\ Tended(l)
<1>1. live \in [Reqs -> LiveRecords] /\ TypeOK
  BY DEF SessionInv, TypeOK
<1>2. PICK q : req' = [req EXCEPT ![r] = q]
  BY DEF OperationDone, RequestOperation, Answer, Goto
<1>3. Keeps(l) /\ server' = server
  BY <1>1, <1>2, OthersKeep DEF OperationDone, RequestOperation, Receive
<1>4. CASE OperationDone(r)
  <2> DEFINE k == req[r].live
             v == [live[k] EXCEPT !.ops = @ \ {r}]
  <2>1. k \in Reqs /\ live[k] \in LiveRecords
    BY <1>1, <1>4 DEF SessionInv, Informed, OperationDone
  <2>2. v \in LiveRecords /\ v.step = live[k].step
    BY <2>1 DEF LiveRecords
  <2>3. [live EXCEPT ![k].ops = @ \ {r}] = [live EXCEPT ![k] = v]
    BY <1>1, <2>1
  <2>4. live' = MaybeDispose([live EXCEPT ![k] = v], {k})
    BY <1>4, <2>3 DEF OperationDone
  <2> HIDE DEF k, v
  <2> QED BY <1>3, <2>1, <2>2, <2>4, OneDisposalTended
<1>5. ASSUME NEW c \in Conns, NEW i \in Ids, RequestOperation(r, c, i)
      PROVE  Proceeds(l) /\ Tended(l)
  <2> DEFINE k == sessions[i]
             v == [live[k] EXCEPT !.ops = @ \cup {r}]
  <2>1. k \in Reqs /\ live[k] \in LiveRecords
    BY <1>1, <1>5 DEF TypeOK, RequestOperation, Controllable
  <2>2. v.step = live[k].step /\ v.term = live[k].term /\ v.ops # {}
    BY <2>1 DEF LiveRecords
  <2>3. live' = [live EXCEPT ![k] = v] /\ ~Unneeded(v)
    BY <1>1, <1>5, <2>1, <2>2 DEF RequestOperation, Unneeded
  <2> HIDE DEF k, v
  <2> QED BY <1>3, <2>1, <2>2, <2>3, OneChangeTended
<1> QED BY <1>4, <1>5

\* Work begins under an operation; when it ends, and after other events, the handler asks
\* whether the session is needed, or its termination does.
LEMMA WorkTended ==
  ASSUME SessionInv, UnneededIsAttended, NEW k \in Reqs,
         WorkStarts(k) \/ WorkEnds(k) \/ RuntimeEvent(k), NEW l \in Reqs
  PROVE  Proceeds(l) /\ Tended(l)
<1>1. live \in [Reqs -> LiveRecords] /\ live[k] \in LiveRecords
  BY DEF SessionInv, TypeOK
<1>2. Keeps(l) /\ server' = server
  BY DEF WorkStarts, WorkEnds, RuntimeEvent, Keeps
<1>3. CASE WorkStarts(k)
  <2> DEFINE v == [live[k] EXCEPT !.phase = "busy"]
  <2>1. v.step = live[k].step /\ v.term = live[k].term /\ v.ops # {}
    BY <1>1, <1>3 DEF LiveRecords, WorkStarts
  <2>2. live' = [live EXCEPT ![k] = v] /\ ~Unneeded(v)
    BY <1>1, <1>3, <2>1 DEF WorkStarts, Unneeded
  <2> HIDE DEF v
  <2> QED BY <1>2, <2>1, <2>2, OneChangeTended
<1>4. CASE WorkEnds(k)
  <2> DEFINE v == [live[k] EXCEPT !.phase = "idle"]
  <2>1. /\ v \in LiveRecords /\ v.step = live[k].step /\ v.term = live[k].term
        /\ v.disposing = live[k].disposing /\ v.conns = live[k].conns /\ v.ops = live[k].ops
    BY <1>1 DEF LiveRecords
  <2>2. [live EXCEPT ![k].phase = "idle"] = [live EXCEPT ![k] = v]
    BY <1>1
  <2>3. CASE Subscribed(live[k])
    <3>1. live' = MaybeDispose([live EXCEPT ![k] = v], {k})
      BY <1>4, <2>2, <2>3 DEF WorkEnds
    <3> HIDE DEF v
    <3> QED BY <1>2, <2>1, <3>1, OneDisposalTended
  <2>4. CASE ~Subscribed(live[k])
    <3>1. live' = [live EXCEPT ![k] = v]
      BY <1>4, <2>2, <2>4 DEF WorkEnds
    <3>2. ASSUME Unneeded(v) PROVE Unneeded(live[k])
      <4>1. ~isClosing /\ live[k].step = "ready" /\ live[k].disposing = "unset"
        BY <2>1, <3>2 DEF Unneeded
      <4>2. live[k].runtime = "held"
        BY <4>1 DEF SessionInv, Mapped, Late, isClosing
      <4>3. live[k].term # "no"
        BY <2>4, <4>1, <4>2 DEF Subscribed
      <4> QED BY <2>1, <3>2, <4>3 DEF Unneeded
    <3> HIDE DEF v
    <3> QED BY <1>2, <2>1, <3>1, <3>2, OneChangeTended
  <2> QED BY <2>3, <2>4
<1>5. CASE RuntimeEvent(k)
  <2>1. live = [live EXCEPT ![k] = live[k]] /\ live' = MaybeDispose(live, {k})
    BY <1>1, <1>5 DEF RuntimeEvent
  <2> QED BY <1>1, <1>2, <2>1, OneDisposalTended
<1> QED BY <1>3, <1>4, <1>5

\* disconnect hands every session that loses a connection to maybeDispose.
LEMMA DisconnectTended ==
  ASSUME SessionInv, UnneededIsAttended, NEW base \in [Reqs -> LiveRecords], NEW X,
         DisconnectAll(base, X), req' = req, server' = server, NEW l \in Reqs,
         base[l] = live[l] \/ (base[l].step = live[l].step /\ base[l].term = "disconnected")
  PROVE  Proceeds(l) /\ Tended(l)
<1> DEFINE gone == {c \in X : stage[c] # "closed"}
           kept(m) == {c \in base[m].conns : ~\E i \in attached[c] : c \in gone /\ sessions[i] = m}
           left == [m \in Reqs |-> [base[m] EXCEPT !.conns = kept(m)]]
<1>1. live' = MaybeDispose(left, Left(gone))
  BY DEF DisconnectAll
<1>2. \A m \in Reqs : kept(m) \in SUBSET Conns
  BY DEF LiveRecords
<1>3. left \in [Reqs -> LiveRecords]
  <2>1. \A v \in LiveRecords, C \in SUBSET Conns : [v EXCEPT !.conns = C] \in LiveRecords
    BY DEF LiveRecords
  <2> HIDE DEF kept
  <2> QED BY <1>2, <2>1
<1>4. base[l] \in LiveRecords /\ left[l] = [base[l] EXCEPT !.conns = kept(l)]
  OBVIOUS
<1>5. left[l].step = base[l].step /\ left[l].term = base[l].term
  BY <1>4 DEF LiveRecords
<1>6. Keeps(l)
  BY DEF Keeps
<1>7. CASE base[l].step = live[l].step /\ base[l].term = "disconnected"
  <2>1. live'[l].step = left[l].step /\ live'[l].term = left[l].term
    <3> HIDE DEF left, gone
    <3> QED BY <1>1, <1>3, DisposedOrNeeded
  <2> QED BY <1>5, <1>7, <2>1 DEF Proceeds, Tended, Attended
<1>8. CASE base[l] = live[l]
  <2>1. ASSUME l \notin Left(gone) PROVE left[l] = live[l]
    <3>1. \A c \in base[l].conns : ~\E i \in attached[c] : c \in gone /\ sessions[i] = l
      <4> SUFFICES ASSUME NEW c \in base[l].conns, NEW i \in attached[c], c \in gone, sessions[i] = l
                   PROVE  FALSE
        OBVIOUS
      <4>1. l # None
        BY SessionConstants
      <4>2. i \in UNION {attached[d] : d \in gone}
        OBVIOUS
      <4> QED BY <2>1, <4>1, <4>2 DEF Left
    <3>2. kept(l) = base[l].conns
      BY <3>1
    <3> QED BY <1>4, <1>8, <3>2 DEF LiveRecords
  <2> HIDE DEF left, gone
  <2> QED BY <1>1, <1>3, <1>5, <1>6, <1>8, <2>1, DisposalTended
<1> QED BY <1>7, <1>8

\* A failing runtime terminates its session, which ends with maybeDispose.
LEMMA TerminationTended ==
  ASSUME SessionInv, UnneededIsAttended, NEW k \in Reqs, RuntimeFails(k) \/ Termination(k),
         NEW l \in Reqs
  PROVE  Proceeds(l) /\ Tended(l)
<1>1. live \in [Reqs -> LiveRecords] /\ live[k] \in LiveRecords /\ Conns \in SUBSET Conns
  BY DEF SessionInv, TypeOK
<1>2. Keeps(l) /\ server' = server /\ req' = req
  BY DEF RuntimeFails, Termination, TerminateDisconnects, TerminateDisposes, Keeps
<1>3. CASE RuntimeFails(k)
  <2> DEFINE v == [live[k] EXCEPT !.term = "closing", !.doomed = live[k].conns]
  <2>1. v.step = live[k].step /\ v.term = "closing"
    BY <1>1 DEF LiveRecords
  <2>2. live' = [live EXCEPT ![k] = v]
    BY <1>1, <1>3 DEF RuntimeFails
  <2> HIDE DEF v
  <2> QED BY <1>2, <2>1, <2>2, OneChangeTended
<1>4. CASE TerminateDisconnects(k)
  <2> DEFINE base == [live EXCEPT ![k].term = "disconnected"]
  <2>1. DisconnectAll(base, live[k].doomed)
    BY <1>4 DEF TerminateDisconnects
  <2>2. \A v \in LiveRecords : /\ [v EXCEPT !.term = "disconnected"] \in LiveRecords
                               /\ [v EXCEPT !.term = "disconnected"].step = v.step
                               /\ [v EXCEPT !.term = "disconnected"].term = "disconnected"
    BY DEF LiveRecords, Terms
  <2>3. /\ base \in [Reqs -> LiveRecords]
        /\ base[l] = live[l] \/ (base[l].step = live[l].step /\ base[l].term = "disconnected")
    BY <1>1, <2>2
  <2> HIDE DEF base
  <2> QED BY <1>2, <2>1, <2>3, DisconnectTended
<1>5. CASE TerminateDisposes(k)
  <2> DEFINE v == [live[k] EXCEPT !.term = "done", !.doomed = {}]
  <2>1. v \in LiveRecords /\ v.step = live[k].step
    BY <1>1 DEF LiveRecords, Terms
  <2>2. [live EXCEPT ![k].term = "done", ![k].doomed = {}] = [live EXCEPT ![k] = v]
    BY <1>1
  <2>3. live' = MaybeDispose([live EXCEPT ![k] = v], {k})
    BY <1>5, <2>2 DEF TerminateDisposes
  <2> HIDE DEF v
  <2> QED BY <1>2, <2>1, <2>3, OneDisposalTended
<1> QED BY <1>3, <1>4, <1>5 DEF Termination

\* While the server closes every session is disposed by close.
LEMMA ClosingTended ==
  ASSUME SessionInv, Close \/ Closing, NEW l \in Reqs
  PROVE  Proceeds(l) /\ Tended(l)
<1>1. live \in [Reqs -> LiveRecords] /\ live[l] \in LiveRecords
  BY DEF SessionInv, TypeOK
<1>2. server'.step # "open"
  BY DEF Close, Closing, CloseConnections, CloseDisconnects, CloseAwaitsOpenings, CloseDisposes,
         Closed, Advance
<1>3. Tended(l)
  BY <1>2 DEF Tended, Unneeded, isClosing
<1>4. CASE live' = live
  BY <1>3, <1>4 DEF Proceeds
<1>5. CASE CloseDisconnects
  <2>1. isClosing
    BY <1>5 DEF CloseDisconnects, Advance, isClosing
  <2> DEFINE gone == {c \in {d \in Conns : stage[d] = "closing"} : stage[c] # "closed"}
             kept(m) == {c \in live[m].conns : ~\E i \in attached[c] : c \in gone /\ sessions[i] = m}
             left == [m \in Reqs |-> [live[m] EXCEPT !.conns = kept(m)]]
  <2>2. live' = MaybeDispose(left, Left(gone))
    BY <1>5 DEF CloseDisconnects, DisconnectAll
  <2>3. left[l] = [live[l] EXCEPT !.conns = kept(l)]
    OBVIOUS
  <2> HIDE DEF left, gone
  <2>4. live'[l] = left[l]
    BY <2>1, <2>2 DEF MaybeDispose, Unneeded
  <2> QED BY <1>1, <1>3, <2>3, <2>4 DEF Proceeds, LiveRecords
<1>6. CASE CloseDisposes
  <2>1. live'[l] = live[l] \/ live'[l] = Disposing(live[l])
    BY <1>6 DEF CloseDisposes
  <2> QED BY <1>1, <1>3, <2>1 DEF Proceeds, Disposing, LiveRecords
<1> QED BY <1>4, <1>5, <1>6 DEF Close, Closing, CloseConnections, CloseAwaitsOpenings, Closed

\* The invariant of progress.
ProgressInv == UnneededIsAttended /\ Created /\ CloseWaits

\* What a step does to each session.
LEMMA StepTended ==
  ASSUME SessionInv, ProgressInv, [Next]_vars, NEW l \in Reqs
  PROVE  Proceeds(l) /\ Tended(l)
<1> USE DEF ProgressInv
<1>1. ASSUME NEW r \in Reqs, NEW c \in Conns, NEW i \in Ids, Message(r, c, i)
      PROVE  Proceeds(l) /\ Tended(l)
  <2>1. CASE RequestSession(r, c, i)
    BY <2>1, AcquireTended DEF RequestSession, Receive
  <2> QED BY <1>1, <2>1, DetachTended, OperationTended DEF Message
<1>2. ASSUME NEW r \in Reqs, Continue(r) \/ OperationDone(r)
      PROVE  Proceeds(l) /\ Tended(l)
  <2>1. CASE AcquireAgain(r)
    <3> DEFINE k == req[r].live
    <3>1. server' = server /\ req[r].pc = "wait" /\ TypeOK
      BY <2>1 DEF AcquireAgain, SessionInv
    <3>2. k \in Reqs /\ live[k].disposing = "set" /\ Coherent(live[k]) /\ live[k].step \in Steps
      BY <3>1 DEF SessionInv, Informed, Records, TypeOK, LiveRecords
    <3>3. live[k].id \in Ids
      BY <3>2 DEF Coherent
    <3>4. CASE Answer(r) /\ live' = live
      <4>1. Keeps(l)
        BY <3>1, <3>4, OthersKeep DEF Answer
      <4> QED BY <3>1, <3>4, <4>1, SameTended
    <3>5. CASE Acquire(r, req[r].conn, live[k].id)
      BY <3>1, <3>3, <3>5, AcquireTended
    <3> QED BY <2>1, <3>4, <3>5 DEF AcquireAgain
  <2> QED BY <1>2, <2>1, ContinuesTended, AttachTended, DetachedTended, OperationTended DEF Continue
<1>3. ASSUME NEW k \in Reqs,
             \/ Creation(k) \/ Termination(k) \/ DisposeDone(k)
             \/ WorkStarts(k) \/ WorkEnds(k) \/ RuntimeEvent(k) \/ Fault(k)
      PROVE  Proceeds(l) /\ Tended(l)
  BY <1>3, CreationStepTended, TerminationTended, DisposeSettlesTended, WorkTended
     DEF Creation, DisposeDone, Fault, DisposeFails
<1>4. ASSUME NEW c \in Conns, Disconnect(c)
      PROVE  Proceeds(l) /\ Tended(l)
  BY <1>4, DisconnectTended DEF Disconnect, SessionInv, TypeOK
<1>5. CASE UNCHANGED <<live, req, server>>
  <2>1. Keeps(l)
    BY <1>5 DEF Keeps
  <2> QED BY <1>5, <2>1, SameTended
<1> QED BY <1>1, <1>2, <1>3, <1>4, <1>5, ClosingTended DEF Next, Step, TransportCloses, vars

\* A request whose creation has not settled waits.
LEMMA CreatorWaits ==
  ASSUME SessionInv, [Next]_vars, NEW l \in Reqs, req[l].pc = "create", ~Settled(req[l].live)
  PROVE  req'[l] = req[l]
<1>1. req \in [Reqs -> Requests]
  BY DEF SessionInv, TypeOK
<1>2. ASSUME NEW r \in Reqs, NEW q, req' = [req EXCEPT ![r] = q],
             req[r].pc # "create" \/ Settled(req[r].live)
      PROVE  req'[l] = req[l]
  BY <1>1, <1>2
<1>3. ASSUME NEW r \in Reqs, NEW c, NEW i, Acquire(r, c, i) \/ Answer(r), req[r].pc # "create"
      PROVE  req'[l] = req[l]
  <2>1. PICK q : req' = [req EXCEPT ![r] = q]
    BY <1>3 DEF Acquire, Answer, Goto
  <2> QED BY <1>2, <1>3, <2>1
<1>4. ASSUME NEW r \in Reqs, NEW c \in Conns, NEW i \in Ids, Message(r, c, i)
      PROVE  req'[l] = req[l]
  <2>1. PICK q : req' = [req EXCEPT ![r] = q]
    BY <1>4 DEF Message, RequestSession, RequestDetach, RequestOperation, Acquire, Answer, Goto
  <2>2. req[r].pc = "new"
    BY <1>4 DEF Message, RequestSession, RequestDetach, RequestOperation, Receive
  <2> QED BY <1>2, <2>1, <2>2
<1>5. ASSUME NEW r \in Reqs, Continue(r) \/ OperationDone(r)
      PROVE  req'[l] = req[l]
  <2>1. PICK q : req' = [req EXCEPT ![r] = q]
    BY <1>5 DEF Continue, OperationDone, AcquireAgain, CreatorContinues, SharerContinues, Attach,
                Detached, Acquire, Answer, Goto
  <2>2. req[r].pc # "create" \/ Settled(req[r].live)
    BY <1>5 DEF Continue, OperationDone, AcquireAgain, CreatorContinues, SharerContinues, Attach, Detached
  <2> QED BY <1>2, <2>1, <2>2
<1>6. CASE req' = req
  BY <1>6
<1> QED BY <1>4, <1>5, <1>6
        DEF Next, Step, Creation, Termination, Fault, Closing, vars, RuntimeAcquired, RuntimeRefused,
            SessionCreated, SnapshotRefused, DisposeDone, DisposeFails, DisposeSettles, RuntimeFails,
            TerminateDisconnects, TerminateDisposes, WorkStarts, WorkEnds, RuntimeEvent,
            TransportCloses, Disconnect, Close, CloseConnections, CloseDisconnects,
            CloseAwaitsOpenings, CloseDisposes, Closed

\* What close awaits, in the step that sets it and afterwards.
LEMMA CloseWaitsStep ==
  ASSUME SessionInv, ProgressInv, [Next]_vars
  PROVE  CloseWaits'
<1>1. \A l \in Reqs : /\ live[l].step # "new" => live'[l].step # "new"
                      /\ live[l].step = "ready" => live'[l].step = "ready"
  BY StepTended DEF Proceeds
<1>2. server.awaits \in SUBSET Reqs
  BY DEF SessionInv, TypeOK
<1>3. CASE server' = server
  BY <1>1, <1>2, <1>3 DEF ProgressInv, CloseWaits
<1>4. CASE CloseAwaitsOpenings
  <2>1. \A l \in server'.awaits : \E i \in Ids : l = opening[i] /\ l # None
    BY <1>4 DEF CloseAwaitsOpenings, Advance
  <2>2. server'.step = "openings" /\ live' = live
    BY <1>4 DEF CloseAwaitsOpenings, Advance
  <2> QED BY <2>1, <2>2 DEF CloseWaits, SessionInv, Opened
<1>5. CASE CloseDisposes
  <2>1. \A l \in server'.awaits : \E i \in Ids : l = sessions[i] /\ l # None
    BY <1>5 DEF CloseDisposes, Advance
  <2>2. server'.step = "disposing"
    BY <1>5 DEF CloseDisposes, Advance
  <2>3. \A l \in server'.awaits : l \in Reqs /\ live[l].step = "ready"
    BY <2>1 DEF SessionInv, Entries, TypeOK
  <2> QED BY <1>1, <2>2, <2>3 DEF CloseWaits
<1>6. CASE server'.step # "openings" /\ server'.step # "disposing"
  BY <1>6 DEF CloseWaits
<1>7. ASSUME NEW r \in Reqs, NEW c \in Conns, NEW i \in Ids, Message(r, c, i) PROVE server' = server
  BY <1>7 DEF Message, RequestSession, RequestDetach, RequestOperation
<1>8. ASSUME NEW r \in Reqs, Continue(r) \/ OperationDone(r) PROVE server' = server
  BY <1>8 DEF Continue, OperationDone, AcquireAgain, CreatorContinues, SharerContinues, Attach, Detached
<1>9. ASSUME NEW k \in Reqs,
             \/ Creation(k) \/ Termination(k) \/ DisposeDone(k)
             \/ WorkStarts(k) \/ WorkEnds(k) \/ RuntimeEvent(k) \/ Fault(k)
      PROVE  server' = server
  BY <1>9 DEF Creation, Termination, Fault, RuntimeAcquired, RuntimeRefused, SessionCreated,
              SnapshotRefused, DisposeDone, DisposeFails, DisposeSettles, RuntimeFails,
              TerminateDisconnects, TerminateDisposes, WorkStarts, WorkEnds, RuntimeEvent
<1>10. ASSUME NEW c \in Conns, TransportCloses(c) \/ Disconnect(c) PROVE server' = server
  BY <1>10 DEF TransportCloses, Disconnect
<1>11. CASE Close \/ Closing
  <2>1. CASE CloseAwaitsOpenings \/ CloseDisposes
    BY <1>4, <1>5, <2>1
  <2>2. CASE Close \/ CloseConnections \/ CloseDisconnects \/ Closed
    BY <1>6, <2>2 DEF Close, CloseConnections, CloseDisconnects, Closed, Advance
  <2> QED BY <1>11, <2>1, <2>2 DEF Closing
<1>12. CASE UNCHANGED vars
  BY <1>3, <1>12 DEF vars
<1> QED BY <1>3, <1>7, <1>8, <1>9, <1>10, <1>11, <1>12 DEF Next, Step

\* ProgressInv is an invariant.
LEMMA ProgressInvariant == Spec => [](SessionInv /\ ProgressInv)
<1>1. Init => ProgressInv
  <2> SUFFICES ASSUME Init PROVE ProgressInv
    OBVIOUS
  <2>1. \A l \in Reqs : live[l].step = "new"
    BY DEF Init, Fresh
  <2> QED BY <2>1 DEF Init, ProgressInv, UnneededIsAttended, Unneeded, Created, CloseWaits
<1>2. SessionInv /\ ProgressInv /\ [Next]_vars => ProgressInv'
  <2> SUFFICES ASSUME SessionInv, ProgressInv, [Next]_vars PROVE ProgressInv'
    OBVIOUS
  <2>1. \A l \in Reqs : Proceeds(l) /\ Tended(l)
    BY StepTended
  <2>2. UnneededIsAttended'
    BY <2>1 DEF Tended, UnneededIsAttended
  <2>3. Created'
    <3> SUFFICES ASSUME NEW l \in Reqs, live'[l].step \in {"acquiring", "snapshot", "failing"}
                 PROVE  req'[l].pc = "create" /\ req'[l].live = l
      BY DEF Created
    <3>1. CASE live[l].step = "new"
      BY <2>1, <3>1 DEF Proceeds
    <3>2. CASE live[l].step \in {"acquiring", "snapshot", "failing"}
      <4>1. req[l].pc = "create" /\ req[l].live = l /\ ~Settled(l)
        BY <3>2 DEF ProgressInv, Created, Settled
      <4> QED BY <4>1, CreatorWaits
    <3> QED BY <2>1, <3>1, <3>2 DEF Proceeds
  <2> QED BY <2>2, <2>3, CloseWaitsStep DEF ProgressInv
<1> QED BY SessionsInvariant, <1>1, <1>2, PTL DEF Spec

\* maybeDispose is called at the end of every operation, attach, detach, termination and
\* at every event, and this is often enough: whenever a session is not needed, one of
\* these is still to come.
THEOREM UnneededIsNoticed == Spec => []UnneededIsAttended
<1>1. ProgressInv => UnneededIsAttended
  BY DEF ProgressInv
<1> QED BY <1>1, ProgressInvariant, PTL

\* Requests and close wait for the backend and for runtimes, and not in a circle.
THEOREM NobodyWaitsInCircle == Spec => []WaitsForSomebody
<1>1. SessionInv /\ ProgressInv => WaitsForSomebody
  <2> SUFFICES ASSUME SessionInv, ProgressInv PROVE WaitsForSomebody
    OBVIOUS
  <2>1. \A l \in Reqs : live[l].step \in Steps /\ Coherent(live[l]) /\ live[l].runtime \in Runtimes
    BY DEF SessionInv, Records, TypeOK, LiveRecords
  <2>2. \A l \in Reqs : live[l].step # "new" => Settled(l) \/ InProgress(l)
    BY <2>1 DEF Coherent, Steps, Settled, InProgress
  <2>3. ASSUME NEW r \in Reqs, req[r].pc \notin {"new", "done", "operate", "detach"}
        PROVE  Ready(r) \/ InProgress(req[r].live)
    <3>1. req[r].pc \in {"wait", "create", "opening", "attach"} /\ req[r].live \in Reqs
      BY <2>3 DEF SessionInv, Informed, TypeOK, Requests, PCs
    <3>2. CASE req[r].pc = "wait"
      BY <3>2 DEF Ready, DisposalPending, InProgress
    <3>3. CASE req[r].pc \in {"create", "opening"}
      BY <2>2, <3>1, <3>3 DEF SessionInv, Informed, Ready
    <3> QED BY <3>1, <3>2, <3>3 DEF Ready
  <2>4. server.awaits \in SUBSET Reqs
    BY DEF SessionInv, TypeOK
  <2>5. server.step = "openings" => \A l \in server.awaits : Settled(l) \/ InProgress(l)
    BY <2>2, <2>4 DEF ProgressInv, CloseWaits
  <2>6. ASSUME server.step = "disposing", NEW l \in server.awaits
        PROVE  live[l].runtime \in {"disposed", "failed"} \/ InProgress(l)
    <3>1. l \in Reqs /\ live[l].step = "ready"
      BY <2>4, <2>6 DEF ProgressInv, CloseWaits
    <3>2. live[l].runtime # "held"
      <4>1. live[l].id \in Ids
        BY <2>1, <3>1 DEF Coherent
      <4> QED BY <2>6, <3>1, <4>1, SessionConstants DEF SessionInv, Mapped, Shutdown, Late
    <3> QED BY <2>1, <3>1, <3>2 DEF Coherent, Runtimes, InProgress
  <2> QED BY <2>3, <2>5, <2>6 DEF WaitsForSomebody
<1> QED BY <1>1, ProgressInvariant, PTL

=============================================================================
