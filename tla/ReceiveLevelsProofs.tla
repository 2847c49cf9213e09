------------------------- MODULE ReceiveLevelsProofs -------------------------
(* Proofs about the shared receivers (MergeReceiver), the handlers that use  *)
(* them (ReceiveLevels) and the handlers' pages (ReceiveLevelsPage), for any *)
(* handlers, universes and sources.                                          *)
EXTENDS ReceiveLevelsPage, FiniteSetTheorems, WellFoundedInduction, TLAPS

-----------------------------------------------------------------------------
(* Sequences: what the actions do to the delivery queues keeps them queues. *)

\* Marking the deliveries of destroyed objects leaves a sequence of events.
LEMMA OrphanIsQueue ==
    ASSUME NEW q \in Seq(Event), NEW gone
    PROVE  Orphan(q, gone) \in Seq(Event)
<1>1. DOMAIN q = 1..Len(q) /\ Len(q) \in Nat
  OBVIOUS
<1>2. ASSUME NEW i \in 1..Len(q)
      PROVE  (IF q[i].from \in gone THEN [q[i] EXCEPT !.from = None] ELSE q[i]) \in Event
  <2>1. q[i] \in Event
    BY <1>1, <1>2
  <2>2. \A e \in Event : [e EXCEPT !.from = None] \in Event
    BY DEF Event
  <2>. QED
    BY <2>1, <2>2
<1>. QED
  BY <1>1, <1>2 DEF Orphan

\* Queueing some copies of one event leaves a sequence of events.
LEMMA EmitIsQueue ==
    ASSUME NEW q \in Seq(Event), NEW k \in Nat, NEW e \in Event
    PROVE  q \o [n \in 1..k |-> e] \in Seq(Event)
<1>1. [n \in 1..k |-> e] \in Seq(Event)
  OBVIOUS
<1>. QED
  BY <1>1

\* Dropping what objects in `gone` had keeps the type of a function on Universe.
LEMMA WithoutType ==
    ASSUME NEW S, NEW f \in [Universe -> S], NEW gone, NEW empty \in S
    PROVE  Without(f, gone, empty) \in [Universe -> S]
  BY DEF Without

-----------------------------------------------------------------------------
(* The inductive invariant: the promises, and what they rest on.            *)

\* The request that the main thread is carrying out is about the receiver
\* its handler already holds.
RequestIsHeld ==
    main.pc # "idle" =>
       main.h \in Handler /\ main.u \in Universe /\ held[main.h] = main.u

\* A callback in progress is for a receiver that was started.
CallbackIsStarted == rx.pc # "idle" => rx.u \in Universe /\ started[rx.u]

\* What the argument is made of: a receiver that was started, or
\* that anyone is connected to, is held by some handler.
OnlyLiveTouched ==
    /\ \A u \in Universe : started[u] => Alive(u)
    /\ \A h \in Handler, u \in Universe, s \in Signal : conn[h][u][s] > 0 => Alive(u)

ReceiversInv ==
    /\ TypeOK
    /\ RequestIsHeld
    /\ CallbackIsStarted
    /\ OnlyLiveTouched
    /\ HolderIsSubscribed
    /\ UpdateExcludesCopy

\* The initial states satisfy the inductive invariant.
LEMMA ReceiversInit == Init => ReceiversInv
<1>. SUFFICES ASSUME Init PROVE ReceiversInv
  OBVIOUS
<1>. USE DEF Init, MainIdle, RxIdle, NotConnected, NoSources
<1>1. TypeOK
  <2>. USE LevelHasZero
  <2>1. queue \in [Handler -> Seq(Event)]
    OBVIOUS
  <2>2. main \in MainState /\ rx \in RxState
    BY DEF MainState, RxState
  <2>. QED
    BY <2>1, <2>2 DEF TypeOK
<1>2. RequestIsHeld /\ CallbackIsStarted
  BY DEF RequestIsHeld, CallbackIsStarted
<1>3. OnlyLiveTouched
  BY DEF OnlyLiveTouched
<1>4. HolderIsSubscribed
  BY NoneIsFresh DEF HolderIsSubscribed
<1>5. UpdateExcludesCopy
  BY DEF UpdateExcludesCopy, RxHoldsSources, MainHoldsSources
<1>. QED
  BY <1>1, <1>2, <1>3, <1>4, <1>5 DEF ReceiversInv

-----------------------------------------------------------------------------
(* Releasing a receiver.                                                    *)

\* The objects that die are those nobody holds afterwards, and the others
\* stay alive.
LEMMA DyingIsUnheld ==
    ASSUME TypeOK, NEW h \in Handler, NEW u, SetReceiver(h, u)
    PROVE  /\ \A v \in Universe : v \notin Dying(h, u) /\ Alive(v) => Alive(v)'
           /\ \A g \in Handler, v \in Universe :
                 held'[g] = v => v \notin Dying(h, u)
  BY DEF TypeOK, SetReceiver, Dying, Alive

\* What every release keeps of the types, whatever else the step does.
LEMMA ReleaseTypes ==
    ASSUME TypeOK, NEW h \in Handler, NEW u \in Universe \cup {None},
           SetReceiver(h, u)
    PROVE  /\ held' \in [Handler -> Universe \cup {None}]
           /\ lib' \in [Universe -> [Cid -> Info \cup {None}]]
           /\ sources' \in [Universe -> [Cid -> Info \cup {None}]]
           /\ buf' \in [Universe -> Level]
<1>1. NoSources \in [Cid -> Info \cup {None}]
  BY DEF NoSources
<1>. QED
  BY <1>1, WithoutType, LevelHasZero DEF TypeOK, SetReceiver

\* The other variables after a release: connections, deliveries, startups.
LEMMA ReleaseRest ==
    ASSUME TypeOK, NEW gone
    PROVE  /\ Without(started, gone, FALSE) \in [Universe -> BOOLEAN]
           /\ \A g \in Handler : Without(conn[g], gone, NotConnected)
                                    \in [Universe -> [Signal -> Nat]]
           /\ \A g \in Handler : Orphan(queue[g], gone) \in Seq(Event)
<1>1. NotConnected \in [Signal -> Nat]
  BY DEF NotConnected
<1>2. Without(started, gone, FALSE) \in [Universe -> BOOLEAN]
  BY WithoutType DEF TypeOK
<1>3. ASSUME NEW g \in Handler
      PROVE  Without(conn[g], gone, NotConnected) \in [Universe -> [Signal -> Nat]]
  <2>1. conn[g] \in [Universe -> [Signal -> Nat]]
    BY DEF TypeOK
  <2>. QED
    BY <1>1, <2>1, WithoutType
<1>4. ASSUME NEW g \in Handler PROVE Orphan(queue[g], gone) \in Seq(Event)
  <2>1. queue[g] \in Seq(Event)
    BY DEF TypeOK
  <2>. QED
    BY <2>1, OrphanIsQueue
<1>. QED
  BY <1>2, <1>3, <1>4

-----------------------------------------------------------------------------
(* Requests.                                                                *)

LEMMA ReceiversChangeUniverse ==
    ASSUME ReceiversInv, NEW h \in Handler, NEW u \in Universe, ChangeUniverse(h, u)
    PROVE  ReceiversInv'
<1>. DEFINE gone == Dying(h, u)
<1>. USE DEF ReceiversInv
<1>1. TypeOK'
  <2>1. started' \in [Universe -> BOOLEAN]
    <3>. DEFINE f == Without(started, gone, FALSE)
    <3>1. f \in [Universe -> BOOLEAN]
      BY ReleaseRest
    <3>2. PICK ok \in BOOLEAN : started' = [f EXCEPT ![u] = IF Alive(u) THEN f[u] ELSE ok]
      BY DEF ChangeUniverse
    <3>. HIDE DEF f
    <3>. QED
      BY <3>1, <3>2
  <2>2. conn' \in [Handler -> [Universe -> [Signal -> Nat]]]
    BY ReleaseRest DEF ChangeUniverse
  <2>3. queue' \in [Handler -> Seq(Event)]
    BY ReleaseRest DEF ChangeUniverse
  <2>4. main' \in MainState
    BY DEF ChangeUniverse, MainState, Signal
  <2>. QED
    BY <2>1, <2>2, <2>3, <2>4, ReleaseTypes DEF ChangeUniverse, TypeOK
<1>2. held'[h] = u /\ Alive(u)'
  BY DEF ChangeUniverse, SetReceiver, TypeOK, Alive
<1>3. RequestIsHeld'
  BY <1>2 DEF RequestIsHeld, ChangeUniverse
<1>4. CallbackIsStarted'
  BY DEF CallbackIsStarted, OnlyLiveTouched, ChangeUniverse, SetReceiver, Without, TypeOK
<1>5. OnlyLiveTouched'
  <2>1. \A v \in Universe : started'[v] => Alive(v)'
    BY <1>2, DyingIsUnheld DEF OnlyLiveTouched, ChangeUniverse, Without, TypeOK
  <2>2. \A g \in Handler, v \in Universe, s \in Signal : conn'[g][v][s] > 0 => Alive(v)'
    BY DyingIsUnheld DEF OnlyLiveTouched, ChangeUniverse, Without, TypeOK, NotConnected
  <2>. QED
    BY <2>1, <2>2 DEF OnlyLiveTouched
<1>6. HolderIsSubscribed'
  <2>. SUFFICES ASSUME NEW g \in Handler, NEW v \in Universe, held'[g] = v,
                       NEW s \in Signal \ NotYetConnected(g, v)'
                PROVE  conn'[g][v][s] > 0
    BY DEF HolderIsSubscribed
  <2>1. g # h
    BY <1>2 DEF ChangeUniverse, NotYetConnected, ToConnect
  <2>2. held[g] = v
    BY <2>1 DEF ChangeUniverse, SetReceiver, TypeOK
  <2>3. v \notin gone
    BY DyingIsUnheld DEF ChangeUniverse
  <2>4. conn[g][v][s] > 0
    BY <2>2 DEF HolderIsSubscribed, NotYetConnected, ToConnect, ChangeUniverse
  <2>. QED
    BY <2>3, <2>4 DEF ChangeUniverse, Without, TypeOK
<1>7. UpdateExcludesCopy'
  BY DEF UpdateExcludesCopy, RxHoldsSources, MainHoldsSources, ChangeUniverse
<1>. QED
  BY <1>1, <1>3, <1>4, <1>5, <1>6, <1>7

LEMMA ReceiversLeaveUniverse ==
    ASSUME ReceiversInv, NEW h \in Handler, LeaveUniverse(h)
    PROVE  ReceiversInv'
<1>. DEFINE gone == Dying(h, None)
<1>. USE DEF ReceiversInv
<1>1. TypeOK'
  BY ReleaseRest, ReleaseTypes DEF LeaveUniverse, TypeOK
<1>2. RequestIsHeld'
  BY DEF RequestIsHeld, LeaveUniverse
<1>3. CallbackIsStarted'
  BY DEF CallbackIsStarted, LeaveUniverse, SetReceiver, Without, TypeOK
<1>4. OnlyLiveTouched'
  <2>1. \A v \in Universe : started'[v] => Alive(v)'
    BY DyingIsUnheld DEF OnlyLiveTouched, LeaveUniverse, Without, TypeOK
  <2>2. \A g \in Handler, v \in Universe, s \in Signal : conn'[g][v][s] > 0 => Alive(v)'
    BY DyingIsUnheld DEF OnlyLiveTouched, LeaveUniverse, Without, TypeOK, NotConnected
  <2>. QED
    BY <2>1, <2>2 DEF OnlyLiveTouched
<1>5. HolderIsSubscribed'
  <2>. SUFFICES ASSUME NEW g \in Handler, NEW v \in Universe, held'[g] = v,
                       NEW s \in Signal \ NotYetConnected(g, v)'
                PROVE  conn'[g][v][s] > 0
    BY DEF HolderIsSubscribed
  <2>1. held[g] = v
    BY NoneIsFresh DEF LeaveUniverse, SetReceiver, TypeOK
  <2>2. v \notin gone
    BY DyingIsUnheld DEF LeaveUniverse
  <2>3. conn[g][v][s] > 0
    BY <2>1 DEF HolderIsSubscribed, NotYetConnected, ToConnect, LeaveUniverse
  <2>. QED
    BY <2>2, <2>3 DEF LeaveUniverse, Without, TypeOK
<1>6. UpdateExcludesCopy'
  BY DEF UpdateExcludesCopy, RxHoldsSources, MainHoldsSources, LeaveUniverse
<1>. QED
  BY <1>1, <1>2, <1>3, <1>4, <1>5, <1>6

LEMMA ReceiversClose ==
    ASSUME ReceiversInv, NEW h \in Handler, Close(h)
    PROVE  ReceiversInv'
<1>. DEFINE gone == Dying(h, None)
<1>. USE DEF ReceiversInv
<1>1. TypeOK'
  <2>1. conn' \in [Handler -> [Universe -> [Signal -> Nat]]]
    <3>1. [v \in Universe |-> NotConnected] \in [Universe -> [Signal -> Nat]]
      BY DEF NotConnected
    <3>. QED
      BY <3>1, ReleaseRest DEF Close
  <2>2. queue' \in [Handler -> Seq(Event)]
    <3>1. << >> \in Seq(Event)
      OBVIOUS
    <3>. QED
      BY <3>1, ReleaseRest DEF Close
  <2>. QED
    BY <2>1, <2>2, ReleaseRest, ReleaseTypes DEF Close, TypeOK
<1>2. RequestIsHeld'
  BY DEF RequestIsHeld, Close
<1>3. CallbackIsStarted'
  BY DEF CallbackIsStarted, Close, SetReceiver, Without, TypeOK
<1>4. OnlyLiveTouched'
  <2>1. \A v \in Universe : started'[v] => Alive(v)'
    BY DyingIsUnheld DEF OnlyLiveTouched, Close, Without, TypeOK
  <2>2. \A g \in Handler, v \in Universe, s \in Signal : conn'[g][v][s] > 0 => Alive(v)'
    BY DyingIsUnheld DEF OnlyLiveTouched, Close, Without, TypeOK, NotConnected
  <2>. QED
    BY <2>1, <2>2 DEF OnlyLiveTouched
<1>5. HolderIsSubscribed'
  <2>. SUFFICES ASSUME NEW g \in Handler, NEW v \in Universe, held'[g] = v,
                       NEW s \in Signal \ NotYetConnected(g, v)'
                PROVE  conn'[g][v][s] > 0
    BY DEF HolderIsSubscribed
  <2>1. g # h /\ held[g] = v
    BY NoneIsFresh DEF Close, SetReceiver, TypeOK
  <2>2. v \notin gone
    BY DyingIsUnheld DEF Close
  <2>3. conn[g][v][s] > 0
    BY <2>1 DEF HolderIsSubscribed, NotYetConnected, ToConnect, Close
  <2>. QED
    BY <2>1, <2>2, <2>3 DEF Close, Without, TypeOK
<1>6. UpdateExcludesCopy'
  BY DEF UpdateExcludesCopy, RxHoldsSources, MainHoldsSources, Close
<1>. QED
  BY <1>1, <1>2, <1>3, <1>4, <1>5, <1>6

\* Moving to another step of a request keeps the shape of `main`.
LEMMA StepIsMainState ==
    ASSUME NEW m \in MainState, NEW p \in {"idle", "lock", "copying"} \cup Signal
    PROVE  [m EXCEPT !.pc = p] \in MainState
  BY DEF MainState

\* One connect() call: the receiver it connects to is the one its handler holds.
LEMMA ReceiversConnect ==
    ASSUME ReceiversInv, Connect
    PROVE  ReceiversInv'
<1>. USE DEF ReceiversInv, Connect, NextStep, Signal
<1>1. TypeOK'
  <2>1. main' \in MainState
    <3>1. main \in MainState /\ NextStep[main.pc] \in {"lock"} \cup Signal
      BY DEF TypeOK
    <3>. QED
      BY <3>1, StepIsMainState
  <2>2. conn' \in [Handler -> [Universe -> [Signal -> Nat]]]
    BY DEF TypeOK, RequestIsHeld
  <2>. QED
    BY <2>1, <2>2 DEF TypeOK
<1>2. RequestIsHeld' /\ CallbackIsStarted' /\ UpdateExcludesCopy'
  BY DEF RequestIsHeld, CallbackIsStarted, UpdateExcludesCopy, RxHoldsSources, MainHoldsSources
<1>3. OnlyLiveTouched'
  BY DEF OnlyLiveTouched, RequestIsHeld, TypeOK, Alive
<1>4. HolderIsSubscribed'
  <2>. SUFFICES ASSUME NEW g \in Handler, NEW v \in Universe, held[g] = v,
                       NEW s \in Signal \ NotYetConnected(g, v)'
                PROVE  conn'[g][v][s] > 0
    BY DEF HolderIsSubscribed
  <2>1. CASE g = main.h /\ v = main.u /\ s = main.pc
    BY <2>1 DEF TypeOK
  <2>2. CASE ~(g = main.h /\ v = main.u /\ s = main.pc)
    <3>1. conn'[g][v][s] = conn[g][v][s]
      BY <2>2 DEF TypeOK
    <3>2. s \notin NotYetConnected(g, v)
      BY <2>2 DEF NotYetConnected, ToConnect, TypeOK, MainState
    <3>. QED
      BY <3>1, <3>2 DEF HolderIsSubscribed
  <2>. QED
    BY <2>1, <2>2
<1>. QED
  BY <1>1, <1>2, <1>3, <1>4

\* Steps that leave who holds, who is connected and who was started alone.
LEMMA ReceiversQuiet ==
    ASSUME ReceiversInv, TypeOK', UpdateExcludesCopy', UNCHANGED <<held, started, conn>>,
           \/ main' = main
           \/ main.pc = "lock" /\ main' = [main EXCEPT !.pc = "copying"]
           \/ main.pc = "copying" /\ main' = MainIdle,
           rx'.pc # "idle" => rx'.u \in Universe /\ started[rx'.u]
    PROVE  ReceiversInv'
<1>. USE DEF ReceiversInv
<1>1. RequestIsHeld' /\ CallbackIsStarted'
  BY DEF RequestIsHeld, CallbackIsStarted, MainIdle, TypeOK, MainState
<1>2. OnlyLiveTouched'
  BY DEF OnlyLiveTouched, Alive
<1>3. \A h \in Handler, v \in Universe :
         held[h] = v => NotYetConnected(h, v)' = NotYetConnected(h, v)
  <2>1. CASE main' = main
    BY <2>1 DEF NotYetConnected
  <2>2. CASE main.pc = "lock" /\ main' = [main EXCEPT !.pc = "copying"]
    <3>1. main'.pc = "copying" /\ main'.h = main.h /\ main'.u = main.u
      BY <2>2 DEF TypeOK, MainState
    <3>. QED
      BY <2>2, <3>1 DEF NotYetConnected, ToConnect
  <2>3. CASE main.pc = "copying" /\ main' = MainIdle
    <3>1. main'.pc = "idle"
      BY <2>3 DEF MainIdle
    <3>. QED
      BY <2>3, <3>1 DEF NotYetConnected, ToConnect
  <2>. QED
    BY <2>1, <2>2, <2>3
<1>4. HolderIsSubscribed'
  BY <1>3 DEF HolderIsSubscribed
<1>. QED
  BY <1>1, <1>2, <1>4

LEMMA ReceiversMainSteps ==
    ASSUME ReceiversInv, LockSources \/ SendKnownSources
    PROVE  ReceiversInv'
<1>. USE DEF ReceiversInv
<1>1. TypeOK'
  <2>1. main' \in MainState
    <3>1. MainIdle \in MainState
      BY DEF MainIdle, MainState
    <3>2. main \in MainState
      BY DEF TypeOK
    <3>. QED
      BY <3>1, <3>2, StepIsMainState DEF LockSources, SendKnownSources
  <2>. QED
    BY <2>1 DEF LockSources, SendKnownSources, TypeOK
<1>2. UpdateExcludesCopy'
  BY DEF LockSources, SendKnownSources, UpdateExcludesCopy, RxHoldsSources,
         MainHoldsSources, TypeOK, MainState, MainIdle
<1>. QED
  BY <1>1, <1>2, ReceiversQuiet
     DEF LockSources, SendKnownSources, CallbackIsStarted, TypeOK, MainState, MainIdle

LEMMA ReceiversDeliver ==
    ASSUME ReceiversInv, NEW h \in Handler, Deliver(h)
    PROVE  ReceiversInv'
<1>. USE DEF ReceiversInv
<1>1. TypeOK'
  <2>1. queue' \in [Handler -> Seq(Event)]
    BY DEF Deliver, TypeOK
  <2>. QED
    BY <2>1 DEF Deliver, TypeOK
<1>2. UpdateExcludesCopy'
  BY DEF Deliver, UpdateExcludesCopy, RxHoldsSources, MainHoldsSources
<1>. QED
  BY <1>1, <1>2, ReceiversQuiet DEF Deliver, CallbackIsStarted

-----------------------------------------------------------------------------
(* Callbacks.                                                               *)

\* Emitting a well-formed signal keeps the queues queues.
LEMMA EmitTypes ==
    ASSUME TypeOK, NEW s \in Signal, NEW u \in Universe, NEW c \in Cid \cup {None},
           NEW i \in Info \cup {None}, Emit(s, u, c, i)
    PROVE  queue' \in [Handler -> Seq(Event)]
<1>. DEFINE e == [signal |-> s, from |-> u, cid |-> c, info |-> i]
<1>1. e \in Event
  BY DEF Event
<1>. HIDE DEF e
<1>2. ASSUME NEW h \in Handler
      PROVE  queue[h] \o [n \in 1..conn[h][u][s] |-> e] \in Seq(Event)
  <2>1. queue[h] \in Seq(Event) /\ conn[h][u][s] \in Nat
    BY DEF TypeOK
  <2>. QED
    BY <1>1, <2>1, EmitIsQueue
<1>3. queue' = [h \in Handler |-> queue[h] \o [n \in 1..conn[h][u][s] |-> e]]
  BY DEF Emit, e
<1>. QED
  BY <1>2, <1>3

LEMMA ReceiversStartCallback ==
    ASSUME ReceiversInv, NEW u \in Universe, HandleMergedData(u) \/ HandleSourcesLost(u)
    PROVE  ReceiversInv'
<1>. USE DEF ReceiversInv
<1>1. TypeOK'
  <2>1. CASE HandleMergedData(u)
    <3>1. lib' \in [Universe -> [Cid -> Info \cup {None}]]
      BY <2>1 DEF HandleMergedData, TypeOK
    <3>2. buf' \in [Universe -> Level]
      BY <2>1 DEF HandleMergedData, TypeOK
    <3>3. rx' \in RxState
      BY <2>1 DEF HandleMergedData, RxState
    <3>. QED
      BY <2>1, <3>1, <3>2, <3>3 DEF HandleMergedData, TypeOK
  <2>2. CASE HandleSourcesLost(u)
    <3>1. lib' \in [Universe -> [Cid -> Info \cup {None}]]
      BY <2>2 DEF HandleSourcesLost, TypeOK
    <3>2. rx' \in RxState
      BY <2>2 DEF HandleSourcesLost, RxState
    <3>. QED
      BY <2>2, <3>1, <3>2 DEF HandleSourcesLost, TypeOK
  <2>. QED
    BY <2>1, <2>2
<1>2. rx'.pc \in {"tryLock", "losing"} /\ rx'.u = u
  BY DEF HandleMergedData, HandleSourcesLost
<1>3. UpdateExcludesCopy'
  BY <1>2 DEF UpdateExcludesCopy, RxHoldsSources
<1>. QED
  BY <1>1, <1>2, <1>3, ReceiversQuiet DEF HandleMergedData, HandleSourcesLost

LEMMA ReceiversRxSteps ==
    ASSUME ReceiversInv, RxSteps
    PROVE  ReceiversInv'
<1>. USE DEF ReceiversInv
<1>1. rx.pc # "idle" /\ rx.u \in Universe /\ started[rx.u]
  BY DEF RxSteps, TryLockSources, UnlockSources, EmitData, EraseSource, UpdateSource,
         EmitLost, CallbackIsStarted
<1>2. CASE TryLockSources
  <2>1. TypeOK'
    BY <1>2 DEF TryLockSources, TypeOK, RxState
  <2>2. UpdateExcludesCopy'
    BY <1>2 DEF TryLockSources, UpdateExcludesCopy, RxHoldsSources, MainHoldsSources,
                TypeOK, RxState
  <2>. QED
    BY <1>1, <1>2, <2>1, <2>2, ReceiversQuiet DEF TryLockSources, TypeOK, RxState
<1>3. CASE UnlockSources
  <2>1. TypeOK'
    BY <1>3 DEF UnlockSources, TypeOK, RxState
  <2>2. UpdateExcludesCopy'
    BY <1>3 DEF UnlockSources, UpdateExcludesCopy, RxHoldsSources, MainHoldsSources,
                TypeOK, RxState
  <2>. QED
    BY <1>1, <1>3, <2>1, <2>2, ReceiversQuiet DEF UnlockSources, TypeOK, RxState
<1>4. CASE EmitData
  <2>1. queue' \in [Handler -> Seq(Event)]
    <3>1. OwnerCid(rx.u, rx.cid) \in Cid \cup {None}
      BY DEF OwnerCid, TypeOK, RxState
    <3>. QED
      BY <1>1, <1>4, <3>1, EmitTypes DEF EmitData, Signal
  <2>2. TypeOK'
    BY <1>4, <2>1 DEF EmitData, TypeOK, RxState, RxIdle
  <2>3. UpdateExcludesCopy'
    BY <1>4 DEF EmitData, UpdateExcludesCopy, RxHoldsSources, RxIdle
  <2>. QED
    BY <1>4, <2>2, <2>3, ReceiversQuiet DEF EmitData, RxIdle
<1>5. CASE EraseSource
  <2>1. TypeOK'
    BY <1>5 DEF EraseSource, TypeOK, RxState, RxIdle
  <2>2. UpdateExcludesCopy'
    BY <1>5 DEF EraseSource, UpdateExcludesCopy, RxHoldsSources, RxIdle, TypeOK, RxState
  <2>. QED
    BY <1>1, <1>5, <2>1, <2>2, ReceiversQuiet DEF EraseSource, RxIdle, TypeOK, RxState
<1>6. ASSUME NEW c \in Cid, UpdateSource(c) PROVE ReceiversInv'
  <2>1. lib[rx.u][c] \in Info \cup {None}
    BY <1>1 DEF TypeOK
  <2>2. /\ queue' \in [Handler -> Seq(Event)]
        /\ sources' \in [Universe -> [Cid -> Info \cup {None}]]
    <3>1. CASE sources[rx.u][c] # lib[rx.u][c]
      <4>1. Emit("sourceUpdated", rx.u, c, lib[rx.u][c])
        BY <1>6, <3>1 DEF UpdateSource
      <4>2. queue' \in [Handler -> Seq(Event)]
        BY <1>1, <2>1, <4>1, EmitTypes DEF Signal
      <4>3. sources' = [sources EXCEPT ![rx.u][c] = lib[rx.u][c]]
        BY <1>6, <3>1 DEF UpdateSource
      <4>4. sources' \in [Universe -> [Cid -> Info \cup {None}]]
        BY <1>1, <2>1, <4>3 DEF TypeOK
      <4>. QED
        BY <4>2, <4>4
    <3>2. CASE sources[rx.u][c] = lib[rx.u][c]
      BY <1>6, <3>2 DEF UpdateSource, TypeOK
    <3>. QED
      BY <3>1, <3>2
  <2>3. TypeOK'
    BY <1>6, <2>2 DEF UpdateSource, TypeOK, RxState
  <2>4. UpdateExcludesCopy'
    BY <1>6 DEF UpdateSource, UpdateExcludesCopy, RxHoldsSources, MainHoldsSources,
                TypeOK, RxState
  <2>. QED
    BY <1>1, <1>6, <2>3, <2>4, ReceiversQuiet DEF UpdateSource, TypeOK, RxState
<1>7. ASSUME NEW c \in Cid, EmitLost(c) PROVE ReceiversInv'
  <2>1. queue' \in [Handler -> Seq(Event)]
    BY <1>1, <1>7, EmitTypes DEF EmitLost, Signal
  <2>2. TypeOK'
    BY <1>7, <2>1 DEF EmitLost, TypeOK, RxState
  <2>3. UpdateExcludesCopy'
    BY <1>7 DEF EmitLost, UpdateExcludesCopy, RxHoldsSources, TypeOK, RxState
  <2>. QED
    BY <1>1, <1>7, <2>2, <2>3, ReceiversQuiet DEF EmitLost, TypeOK, RxState
<1>. QED
  BY <1>2, <1>3, <1>4, <1>5, <1>6, <1>7 DEF RxSteps

-----------------------------------------------------------------------------
(* The theorems about the receivers.                                        *)

LEMMA ReceiversNext == ReceiversInv /\ [Next]_vars => ReceiversInv'
<1>. SUFFICES ASSUME ReceiversInv, [Next]_vars PROVE ReceiversInv'
  OBVIOUS
<1>1. CASE UNCHANGED vars
  BY <1>1 DEF vars, ReceiversInv, TypeOK, RequestIsHeld, CallbackIsStarted, OnlyLiveTouched,
              HolderIsSubscribed, UpdateExcludesCopy, NotYetConnected, Alive,
              RxHoldsSources, MainHoldsSources
<1>2. CASE Next
  <2>1. ASSUME NEW h \in Handler, NEW u \in Universe, ChangeUniverse(h, u)
        PROVE  ReceiversInv'
    BY <2>1, ReceiversChangeUniverse
  <2>2. ASSUME NEW h \in Handler, LeaveUniverse(h) PROVE ReceiversInv'
    BY <2>2, ReceiversLeaveUniverse
  <2>3. ASSUME NEW h \in Handler, Deliver(h) PROVE ReceiversInv'
    BY <2>3, ReceiversDeliver
  <2>4. ASSUME NEW h \in Handler, Close(h) PROVE ReceiversInv'
    BY <2>4, ReceiversClose
  <2>5. CASE MainSteps
    BY <2>5, ReceiversConnect, ReceiversMainSteps DEF MainSteps
  <2>6. CASE RxSteps
    BY <2>6, ReceiversRxSteps
  <2>7. ASSUME NEW u \in Universe, HandleMergedData(u) \/ HandleSourcesLost(u)
        PROVE  ReceiversInv'
    BY <2>7, ReceiversStartCallback
  <2>. QED
    BY <1>2, <2>1, <2>2, <2>3, <2>4, <2>5, <2>6, <2>7 DEF Next
<1>. QED
  BY <1>1, <1>2

\* ReceiversInv holds in every reachable state.
LEMMA ReceiversSpec == Spec => []ReceiversInv
  BY ReceiversInit, ReceiversNext, PTL DEF Spec

\* Every variable of the receivers and of the two threads keeps its shape.
THEOREM ReceiversTypeCorrect == Spec => []TypeOK
<1>1. ReceiversInv => TypeOK
  BY DEF ReceiversInv
<1>. QED
  BY <1>1, ReceiversSpec, PTL

\* No callback runs on a destroyed receiver and no connection leads out of
\* one, for any number of handlers that share and swap universes.
THEOREM ReceiversOutliveTheirUsers == Spec => []NoDeadReceiver
<1>1. ReceiversInv => NoDeadReceiver
  BY DEF ReceiversInv, CallbackIsStarted, OnlyLiveTouched, NoDeadReceiver
<1>. QED
  BY <1>1, ReceiversSpec, PTL

\* A handler that holds a receiver is subscribed to all its signals, whether
\* getForUniverse made the receiver or found it.
THEOREM HoldersAreSubscribed == Spec => []HolderIsSubscribed
<1>1. ReceiversInv => HolderIsSubscribed
  BY DEF ReceiversInv
<1>. QED
  BY <1>1, ReceiversSpec, PTL

\* The mutex keeps updateSources out of sources() while it copies.
THEOREM UpdateNeverDuringCopy == Spec => []UpdateExcludesCopy
<1>1. ReceiversInv => UpdateExcludesCopy
  BY DEF ReceiversInv
<1>. QED
  BY <1>1, ReceiversSpec, PTL

-----------------------------------------------------------------------------
(* The receivers keep their invariant under a handler.                      *)

\* A step of ReceiveLevels is a step of the receivers, or leaves them alone.
LEMMA ReceiversStep == [ViewNext]_viewVars => Next \/ UNCHANGED vars
<1>. SUFFICES ASSUME ViewNext PROVE Next \/ UNCHANGED vars
  BY DEF viewVars
<1>1. ASSUME NEW h \in Handler,
             OnConnect(h) \/ \E on \in BOOLEAN : OnChangeFlickerFinder(h, on)
      PROVE  UNCHANGED vars
  BY <1>1 DEF OnConnect, OnChangeFlickerFinder
<1>2. ASSUME NEW h \in Handler,
             \/ OnDisconnect(h) \/ OnLeaveUniverse(h) \/ OnSource(h) \/ OnMergedData(h)
             \/ \E u \in Universe : OnChangeUniverse(h, u)
      PROVE  Next
  BY <1>2 DEF OnDisconnect, OnLeaveUniverse, OnSource, OnMergedData, OnMergedLevels,
              OnMergedFlicker, OnChangeUniverse, Next
<1>3. CASE OnChangeUniverseStep \/ OnChangeUniverseEnd
  BY <1>3 DEF OnChangeUniverseStep, OnChangeUniverseEnd, MainSteps, Next
<1>4. CASE Receiving
  BY <1>4 DEF Receiving, Next
<1>. QED
  BY <1>1, <1>2, <1>3, <1>4 DEF ViewNext

\* Beneath the handlers the receivers behave as MergeReceiver says: no handler
\* touches them but by the steps of getForUniverse, connect and sources, so
\* what holds of the receivers alone holds of them in the program.
THEOREM HandlersKeepToReceivers == ViewSpec => Spec
<1>1. ViewInit => Init
  BY DEF ViewInit
<1>2. [ViewNext]_viewVars => [Next]_vars
  BY ReceiversStep
<1>. QED
  BY <1>1, <1>2, PTL DEF ViewSpec, Spec

LEMMA ReceiversKeep == ReceiversInv /\ [ViewNext]_viewVars => ReceiversInv'
<1>. SUFFICES ASSUME ReceiversInv, [ViewNext]_viewVars PROVE ReceiversInv'
  OBVIOUS
<1>1. [Next]_vars
  BY ReceiversStep
<1>. QED
  BY <1>1, ReceiversNext

\* What the argument about the handlers takes of it.
Callback == rx.pc # "idle" => rx.u \in Universe /\ Alive(rx.u)
Connections == \A h \in Handler, u \in Universe, s \in Signal :
                  conn[h][u][s] > 0 => Alive(u)

LEMMA ReceiversFacts ==
    ASSUME ReceiversInv
    PROVE  TypeOK /\ RequestIsHeld /\ Callback /\ Connections /\ HolderIsSubscribed
  BY DEF ReceiversInv, CallbackIsStarted, OnlyLiveTouched, Callback, Connections

-----------------------------------------------------------------------------
(* The levels: what was sent to the client adds up to what was seen last.   *)

\* What DifferencesAddUp says of a handler, and what holds while it carries a
\* request out: nothing was sent since, for no delivery comes in between.
AddsUp(h) ==
    /\ lastSeen[h] = IF told[h].level = None THEN 0 ELSE told[h].level
    /\ told[h].diff # None => flicker[h] /\ told[h].diff = lastSeen[h] - reference[h]

NothingSent(h) == told[h].level = None /\ told[h].diff = None

BusyIsCleared == \A h \in Handler : Busy(h) => NothingSent(h)

\* A delivery about a source names it.
NamedSources == \A h \in Handler : \A i \in DOMAIN queue[h] :
                   queue[h][i].signal # "dataChanged" => queue[h][i].cid \in Cid

LevelsInv == ReceiversInv /\ ViewTypeOK /\ BusyIsCleared /\ DifferencesAddUp

LEMMA NothingToldType == NothingTold \in ClientState
  BY DEF NothingTold, ClientState

LEMMA LevelsInit == ViewInit => LevelsInv
<1>. SUFFICES ASSUME ViewInit PROVE LevelsInv
  OBVIOUS
<1>. USE DEF ViewInit
<1>1. ReceiversInv
  BY ReceiversInit
<1>2. ViewTypeOK
  BY LevelHasZero, NothingToldType DEF ViewTypeOK, NothingSeen
<1>3. BusyIsCleared
  BY DEF BusyIsCleared, Busy, Init, MainIdle
<1>4. DifferencesAddUp
  BY DEF DifferencesAddUp
<1>. QED
  BY <1>1, <1>2, <1>3, <1>4 DEF LevelsInv

\* A step of one handler: the promise is about that handler alone.
OthersStay(h) ==
    \A g \in Handler \ {h} :
       /\ told'[g] = told[g] /\ lastSeen'[g] = lastSeen[g]
       /\ flicker'[g] = flicker[g] /\ reference'[g] = reference[g]
       /\ open'[g] = open[g] /\ (Busy(g)' <=> Busy(g))

LEMMA StepOfOne ==
    ASSUME LevelsInv, NEW h \in Handler, OthersStay(h),
           Busy(h)' => NothingSent(h)', open'[h] /\ ~Busy(h)' => AddsUp(h)'
    PROVE  BusyIsCleared' /\ DifferencesAddUp'
<1>1. ASSUME NEW g \in Handler
      PROVE  (Busy(g)' => NothingSent(g)') /\ (open'[g] /\ ~Busy(g)' => AddsUp(g)')
  <2>1. CASE g = h
    BY <2>1
  <2>2. CASE g # h
    BY <2>2 DEF OthersStay, LevelsInv, BusyIsCleared, NothingSent, DifferencesAddUp, AddsUp
  <2>. QED
    BY <2>1, <2>2
<1>. QED
  BY <1>1 DEF BusyIsCleared, DifferencesAddUp, AddsUp

\* What is read through the pointer of a delivery is a level.
LEMMA ReadLevelsType ==
    ASSUME TypeOK, NEW h \in Handler, queue[h] # <<>>,
           NEW level \in ReadLevels(Head(queue[h]))
    PROVE  level \in Level
<1>1. Head(queue[h]) \in Event
  BY DEF TypeOK
<1>2. Head(queue[h]).from \in Universe \cup {None}
  BY <1>1 DEF Event
<1>. QED
  BY <1>2 DEF ReadLevels, TypeOK

\* The client's state after each message is a client state.
LEMMA ClientStateUpdates ==
    ASSUME NEW t \in ClientState
    PROVE  /\ \A l \in Level : [t EXCEPT !.level = l] \in ClientState
           /\ \A l \in Level, d \in Int : [t EXCEPT !.level = l, !.diff = d] \in ClientState
           /\ \A c \in Cid, i \in Info \cup {None}, s \in SUBSET Cid :
                 [t EXCEPT !.src[c] = i, !.stray = s] \in ClientState
           /\ \A f \in [Cid -> Info \cup {None}] : [t EXCEPT !.src = f] \in ClientState
           /\ [t EXCEPT !.diff = None] \in ClientState
  BY DEF ClientState

LEMMA ConnectLevels ==
    ASSUME LevelsInv, NEW h \in Handler, OnConnect(h)
    PROVE  ViewTypeOK' /\ BusyIsCleared' /\ DifferencesAddUp'
<1>. USE DEF LevelsInv, OnConnect
<1>1. ViewTypeOK'
  BY LevelHasZero, NothingToldType DEF ViewTypeOK, NothingSeen
<1>2. told'[h] = NothingTold /\ lastSeen'[h] = NothingSeen
  BY DEF ViewTypeOK
<1>3. AddsUp(h)' /\ NothingSent(h)'
  BY <1>2 DEF AddsUp, NothingSent, NothingTold, NothingSeen
<1>4. OthersStay(h)
  BY DEF OthersStay, ViewTypeOK, Busy, vars
<1>. QED
  BY <1>1, <1>3, <1>4, StepOfOne

LEMMA DisconnectLevels ==
    ASSUME LevelsInv, NEW h \in Handler, OnDisconnect(h)
    PROVE  ViewTypeOK' /\ BusyIsCleared' /\ DifferencesAddUp'
<1>. USE DEF LevelsInv, OnDisconnect
<1>1. \A g \in Handler : Busy(g)' <=> Busy(g)
  BY DEF Busy, Close
<1>. QED
  BY <1>1 DEF BusyIsCleared, NothingSent, DifferencesAddUp, ViewTypeOK

LEMMA ChangeUniverseLevels ==
    ASSUME LevelsInv, NEW h \in Handler, NEW u \in Universe, OnChangeUniverse(h, u)
    PROVE  ViewTypeOK' /\ BusyIsCleared' /\ DifferencesAddUp'
<1>. USE DEF LevelsInv, OnChangeUniverse
<1>1. ViewTypeOK'
  BY NothingToldType DEF ViewTypeOK
<1>2. NothingSent(h)'
  BY DEF NothingSent, NothingTold, ViewTypeOK
<1>3. Busy(h)' /\ OthersStay(h)
  BY DEF Busy, ChangeUniverse, OthersStay, ViewTypeOK
<1>. QED
  BY <1>1, <1>2, <1>3, StepOfOne

LEMMA ChangeUniverseStepLevels ==
    ASSUME LevelsInv, OnChangeUniverseStep
    PROVE  ViewTypeOK' /\ BusyIsCleared' /\ DifferencesAddUp'
<1>. USE DEF LevelsInv, OnChangeUniverseStep, rlVars
<1>1. main.pc # "idle" /\ main'.pc # "idle" /\ main'.h = main.h
  BY ReceiversFacts
     DEF Connect, LockSources, NextStep, Signal, TypeOK, MainState
<1>. QED
  BY <1>1 DEF Busy, BusyIsCleared, NothingSent, DifferencesAddUp, ViewTypeOK

LEMMA ChangeUniverseEndLevels ==
    ASSUME LevelsInv, OnChangeUniverseEnd
    PROVE  ViewTypeOK' /\ BusyIsCleared' /\ DifferencesAddUp'
<1>. USE DEF LevelsInv
<1>1. TypeOK /\ main.h \in Handler /\ main.u \in Universe /\ main.pc = "copying"
  BY ReceiversFacts DEF OnChangeUniverseEnd, SendKnownSources, RequestIsHeld
<1>2. PICK h \in Handler : h = main.h
  BY <1>1
<1>. DEFINE t == told[h]
            known == sources[main.u]
            src == [c \in Cid |-> IF known[c] # None THEN known[c] ELSE t.src[c]]
<1>3. /\ told' = [told EXCEPT ![h].src = src]
      /\ lastSeen' = [lastSeen EXCEPT ![h] = NothingSeen]
      /\ UNCHANGED <<open, flicker, reference>>
  BY <1>2 DEF OnChangeUniverseEnd
<1>4. t \in ClientState
  BY DEF ViewTypeOK
<1>5. known \in [Cid -> Info \cup {None}]
  BY <1>1 DEF TypeOK
<1>6. src \in [Cid -> Info \cup {None}]
  BY <1>4, <1>5 DEF ClientState
<1>. HIDE DEF src, known
<1>7. [t EXCEPT !.src = src] \in ClientState
  BY <1>4, <1>6, ClientStateUpdates
<1>8. ViewTypeOK'
  BY <1>3, <1>7, LevelHasZero DEF ViewTypeOK, NothingSeen
<1>9. told'[h].level = None /\ told'[h].diff = None /\ lastSeen'[h] = 0
  <2>1. NothingSent(h)
    BY <1>1, <1>2 DEF BusyIsCleared, Busy
  <2>. QED
    BY <1>3, <2>1 DEF ViewTypeOK, ClientState, NothingSeen, NothingSent
<1>10. OthersStay(h)
  BY <1>1, <1>2, <1>3
     DEF OthersStay, ViewTypeOK, Busy, OnChangeUniverseEnd, SendKnownSources, MainIdle
<1>11. NothingSent(h)' /\ AddsUp(h)'
  BY <1>9 DEF NothingSent, AddsUp
<1>. QED
  BY <1>8, <1>10, <1>11, StepOfOne

LEMMA LeaveUniverseLevels ==
    ASSUME LevelsInv, NEW h \in Handler, OnLeaveUniverse(h)
    PROVE  ViewTypeOK' /\ BusyIsCleared' /\ DifferencesAddUp'
<1>. USE DEF LevelsInv, OnLeaveUniverse
<1>1. ViewTypeOK'
  BY NothingToldType, LevelHasZero DEF ViewTypeOK, NothingSeen
<1>2. told'[h] = NothingTold /\ lastSeen'[h] = NothingSeen
  BY DEF ViewTypeOK
<1>3. AddsUp(h)' /\ NothingSent(h)'
  BY <1>2 DEF AddsUp, NothingSent, NothingTold, NothingSeen
<1>4. OthersStay(h)
  BY DEF OthersStay, ViewTypeOK, Busy, LeaveUniverse
<1>. QED
  BY <1>1, <1>3, <1>4, StepOfOne

LEMMA FlickerFinderLevels ==
    ASSUME LevelsInv, NEW h \in Handler, NEW on \in BOOLEAN, OnChangeFlickerFinder(h, on)
    PROVE  ViewTypeOK' /\ BusyIsCleared' /\ DifferencesAddUp'
<1>. USE DEF LevelsInv, OnChangeFlickerFinder
<1>1. [told[h] EXCEPT !.diff = None] \in ClientState
  BY ClientStateUpdates DEF ViewTypeOK
<1>2. told' \in [Handler -> ClientState]
  BY <1>1 DEF ViewTypeOK
<1>3. ViewTypeOK'
  BY <1>2 DEF ViewTypeOK
<1>4. told'[h].level = told[h].level /\ told'[h].diff = None /\ lastSeen'[h] = lastSeen[h]
  BY DEF ViewTypeOK, ClientState
<1>5. OthersStay(h) /\ ~Busy(h) /\ ~Busy(h)'
  BY DEF OthersStay, ViewTypeOK, Busy, vars
<1>6. open'[h] => AddsUp(h)'
  BY <1>4, <1>5 DEF DifferencesAddUp, AddsUp
<1>. QED
  BY <1>3, <1>5, <1>6, StepOfOne

LEMMA SourceLevels ==
    ASSUME LevelsInv, NamedSources, NEW h \in Handler, OnSource(h)
    PROVE  ViewTypeOK' /\ BusyIsCleared' /\ DifferencesAddUp'
<1>. DEFINE e == Head(queue[h])
            stray == IF e.from = held[h] THEN told[h].stray \ {e.cid}
                     ELSE told[h].stray \cup {e.cid}
<1>. USE DEF LevelsInv
<1>1. told' = [told EXCEPT ![h].src[e.cid] = e.info, ![h].stray = stray]
  BY DEF OnSource, ViewTypeOK, ClientState
<1>2. e.cid \in Cid /\ e.info \in Info \cup {None}
  <2>1. TypeOK /\ queue[h] # <<>>
    BY ReceiversFacts DEF OnSource, Deliver
  <2>2. e = queue[h][1] /\ 1 \in DOMAIN queue[h] /\ e \in Event
    BY <2>1 DEF TypeOK
  <2>. QED
    BY <2>2 DEF OnSource, NamedSources, Event
<1>3. stray \in SUBSET Cid
  BY <1>2 DEF ViewTypeOK, ClientState
<1>. HIDE DEF stray, e
<1>4. told' = [told EXCEPT ![h] = [told[h] EXCEPT !.src[e.cid] = e.info, !.stray = stray]]
  BY <1>1 DEF ViewTypeOK, ClientState
<1>5. ViewTypeOK'
  <2>1. told[h] \in ClientState
    BY DEF ViewTypeOK
  <2>2. [told[h] EXCEPT !.src[e.cid] = e.info, !.stray = stray] \in ClientState
    BY <1>2, <1>3, <2>1, ClientStateUpdates
  <2>3. told' \in [Handler -> ClientState]
    BY <1>4, <2>2 DEF ViewTypeOK
  <2>. QED
    BY <2>3 DEF ViewTypeOK, OnSource
<1>6. \A g \in Handler : told'[g].level = told[g].level /\ told'[g].diff = told[g].diff
  BY <1>4 DEF ViewTypeOK, ClientState
<1>7. \A g \in Handler : Busy(g)' <=> Busy(g)
  BY DEF Busy, OnSource, Deliver
<1>. QED
  BY <1>5, <1>6, <1>7 DEF BusyIsCleared, NothingSent, DifferencesAddUp, OnSource

\* The client's state after a frame: one of three, by mode and by level.
LEMMA FrameIsTold ==
    ASSUME LevelsInv, NEW h \in Handler, OnMergedData(h)
    PROVE  \E level \in Level :
              /\ lastSeen' = [lastSeen EXCEPT ![h] = level]
              /\ \/ /\ ~flicker[h]
                    /\ told' = [told EXCEPT ![h] = [told[h] EXCEPT !.level = level]]
                 \/ /\ flicker[h] /\ level # lastSeen[h]
                    /\ told' = [told EXCEPT ![h] = [told[h] EXCEPT !.level = level,
                                                             !.diff = level - reference[h]]]
                 \/ flicker[h] /\ level = lastSeen[h] /\ told' = told
<1>1. queue[h] # <<>> /\ TypeOK
  BY ReceiversFacts DEF LevelsInv, OnMergedData, OnMergedLevels, OnMergedFlicker, Deliver
<1>2. PICK level \in ReadLevels(Head(queue[h])) :
         /\ SeeFrame(h, level)
         /\ \/ ~flicker[h] /\ told' = [told EXCEPT ![h].level = level]
            \/ flicker[h] /\ FlickerMessage(h, level)
  BY DEF OnMergedData, OnMergedLevels, OnMergedFlicker
<1>3. level \in Level
  BY <1>1, <1>2, ReadLevelsType
<1>. QED
  BY <1>2, <1>3 DEF SeeFrame, FlickerMessage, Differs, LevelsInv, ViewTypeOK, ClientState

LEMMA FrameLevels ==
    ASSUME LevelsInv, NEW h \in Handler, OnMergedData(h)
    PROVE  ViewTypeOK' /\ BusyIsCleared' /\ DifferencesAddUp'
<1>. USE DEF LevelsInv
<1>1. /\ main.pc = "idle" /\ main' = main /\ UNCHANGED <<open, flicker, reference>>
  BY DEF OnMergedData, OnMergedLevels, OnMergedFlicker, Deliver
<1>2. PICK level \in Level :
         /\ lastSeen' = [lastSeen EXCEPT ![h] = level]
         /\ \/ /\ ~flicker[h]
               /\ told' = [told EXCEPT ![h] = [told[h] EXCEPT !.level = level]]
            \/ /\ flicker[h]
               /\ told' = [told EXCEPT ![h] = [told[h] EXCEPT !.level = level,
                                                        !.diff = level - reference[h]]]
            \/ flicker[h] /\ level = lastSeen[h] /\ told' = told
  BY FrameIsTold
<1>3. told[h] \in ClientState /\ reference[h] \in Level
  BY DEF ViewTypeOK
<1>4. level - reference[h] \in Int /\ level # None
  <2>1. level \in Nat /\ reference[h] \in Nat
    BY <1>3, LevelsAreNat
  <2>. QED
    BY <2>1, NoneIsFresh
<1>5. told' \in [Handler -> ClientState]
  <2>1. /\ [told[h] EXCEPT !.level = level] \in ClientState
        /\ [told[h] EXCEPT !.level = level, !.diff = level - reference[h]] \in ClientState
    BY <1>3, <1>4, ClientStateUpdates
  <2>. QED
    BY <1>2, <2>1 DEF ViewTypeOK
<1>6. ViewTypeOK'
  BY <1>1, <1>2, <1>5 DEF ViewTypeOK
<1>7. \A g \in Handler : ~Busy(g) /\ ~Busy(g)'
  BY <1>1 DEF Busy
<1>8. OthersStay(h)
  BY <1>1, <1>2, <1>7 DEF OthersStay, ViewTypeOK
<1>9. lastSeen'[h] = level /\ flicker'[h] = flicker[h] /\ reference'[h] = reference[h]
  BY <1>1, <1>2 DEF ViewTypeOK
<1>10. open[h] => AddsUp(h)
  BY <1>7 DEF DifferencesAddUp, AddsUp
<1>11. open'[h] => AddsUp(h)'
  <2>1. CASE /\ ~flicker[h]
             /\ told' = [told EXCEPT ![h] = [told[h] EXCEPT !.level = level]]
    <3>1. told'[h].level = level /\ told'[h].diff = told[h].diff
      BY <1>3, <2>1 DEF ViewTypeOK, ClientState
    <3>. QED
      BY <1>1, <1>4, <1>9, <1>10, <2>1, <3>1 DEF AddsUp
  <2>2. CASE told' = [told EXCEPT ![h] = [told[h] EXCEPT !.level = level,
                                                   !.diff = level - reference[h]]] /\ flicker[h]
    <3>1. told'[h].level = level /\ told'[h].diff = level - reference[h]
      BY <1>3, <2>2 DEF ViewTypeOK, ClientState
    <3>. QED
      BY <1>4, <1>9, <2>2, <3>1 DEF AddsUp
  <2>3. CASE level = lastSeen[h] /\ told' = told
    BY <1>1, <1>9, <1>10, <2>3 DEF AddsUp
  <2>. QED
    BY <1>2, <2>1, <2>2, <2>3
<1>. QED
  BY <1>6, <1>7, <1>8, <1>11, StepOfOne

LEMMA ReceivingLevels ==
    ASSUME LevelsInv, Receiving
    PROVE  ViewTypeOK' /\ BusyIsCleared' /\ DifferencesAddUp'
<1>. USE DEF LevelsInv
<1>1. UNCHANGED rlVars
  BY DEF Receiving
<1>2. main' = main
  BY DEF Receiving, RxSteps, TryLockSources, UnlockSources, EmitData,
         EraseSource, UpdateSource, EmitLost, HandleMergedData,
         HandleSourcesLost
<1>. QED
  BY <1>1, <1>2 DEF rlVars, Busy, BusyIsCleared, NothingSent, DifferencesAddUp, ViewTypeOK

LEMMA LevelsNext == LevelsInv /\ NamedSources /\ [ViewNext]_viewVars => LevelsInv'
<1>. SUFFICES ASSUME LevelsInv, NamedSources, [ViewNext]_viewVars PROVE LevelsInv'
  OBVIOUS
<1>1. ReceiversInv'
  BY ReceiversKeep DEF LevelsInv
<1>2. ViewTypeOK' /\ BusyIsCleared' /\ DifferencesAddUp'
  <2>1. CASE UNCHANGED viewVars
    BY <2>1 DEF viewVars, vars, rlVars, LevelsInv, ViewTypeOK, BusyIsCleared, Busy,
                NothingSent, DifferencesAddUp
  <2>2. CASE ViewNext
    BY <2>2, ConnectLevels, DisconnectLevels, ChangeUniverseLevels, ChangeUniverseStepLevels,
       ChangeUniverseEndLevels, LeaveUniverseLevels, FlickerFinderLevels, SourceLevels,
       FrameLevels, ReceivingLevels DEF ViewNext
  <2>. QED
    BY <2>1, <2>2
<1>. QED
  BY <1>1, <1>2 DEF LevelsInv

-----------------------------------------------------------------------------
(* The sources: what is told and what is queued add up to what is known.    *)

\* The deliveries to h in which the receiver for u speaks of source c.
Words(h, u, c) == {i \in About(h, c) : queue[h][i].from = u}

\* The last of them, if there is one, says v.
LastWord(h, u, c, v) ==
    \A i \in Words(h, u, c) : (\A j \in Words(h, u, c) : j <= i) => queue[h][i].info = v

Erasing(u, c) == rx.pc = "erasing" /\ rx.u = u /\ rx.cid = c
Listed(u, c) == sources[u][c] # None /\ ~Erasing(u, c)

\* A receiver that still lives and has a delivery about a source queued is one
\* the handler is connected to; and who is connected at all gets the updates.
SpeakersAreConnected ==
    \A h \in Handler : \A i \in DOMAIN queue[h] :
       (queue[h][i].signal # "dataChanged" /\ queue[h][i].from # None) =>
          conn[h][queue[h][i].from]["sourceUpdated"] > 0

UpdatesComeFirst ==
    \A h \in Handler, u \in Universe, s \in Signal :
       conn[h][u][s] > 0 => conn[h][u]["sourceUpdated"] > 0

\* The last word queued of a source that is listed is what is listed.
LastWordIsTrue ==
    \A h \in Handler, u \in Universe, c \in Cid :
       Listed(u, c) => LastWord(h, u, c, sources[u][c])

\* With no word of it queued, the client was told what is listed.
ToldIsTrue ==
    \A h \in Handler, u \in Universe, c \in Cid :
       /\ held[h] = u /\ ~Busy(h)
       /\ Listed(u, c)
       /\ c \notin told[h].stray
       /\ Words(h, u, c) = {}
       => told[h].src[c] = sources[u][c]

\* A handler that does not exist holds no receiver.
ClosedHoldsNothing == \A h \in Handler : ~open[h] => held[h] = None

QueuesInv == NamedSources /\ SpeakersAreConnected /\ UpdatesComeFirst /\ LastWordIsTrue

SourcesInv == LevelsInv /\ QueuesInv /\ ToldIsTrue /\ ClosedHoldsNothing

LEMMA SourcesInit == ViewInit => SourcesInv
<1>. SUFFICES ASSUME ViewInit PROVE SourcesInv
  OBVIOUS
<1>1. LevelsInv
  BY LevelsInit
<1>2. /\ \A h \in Handler : DOMAIN queue[h] = {}
      /\ \A h \in Handler, u \in Universe, s \in Signal : conn[h][u][s] = 0
      /\ \A u \in Universe, c \in Cid : sources[u][c] = None
      /\ \A h \in Handler : held[h] = None
  BY DEF ViewInit, Init, NoSources, NotConnected
<1>3. QueuesInv
  BY <1>2 DEF QueuesInv, NamedSources, SpeakersAreConnected, UpdatesComeFirst, LastWordIsTrue,
              Listed
<1>4. ToldIsTrue /\ ClosedHoldsNothing
  BY <1>2 DEF ToldIsTrue, Listed, ClosedHoldsNothing
<1>. QED
  BY <1>1, <1>3, <1>4 DEF SourcesInv

\* The last of some deliveries exists.
LEMMA Least ==
    ASSUME NEW T \in SUBSET Nat, T # {}
    PROVE  \E n \in T : \A m \in T : n <= m
<1>. DEFINE R == OpToRel(<, Nat)
<1>1. \A x, y \in Nat : <<y, x>> \in R <=> y < x
  BY DEF OpToRel
<1>2. IsWellFoundedOn(R, Nat)
  BY NatLessThanWellFounded
<1>. HIDE DEF R
<1>3. PICK n \in T : \A m \in T : ~ (<<m, n>> \in R)
  BY <1>2, WFMin
<1>4. \A m \in T : ~ (m < n)
  BY <1>1, <1>3
<1>. QED
  BY <1>4

LEMMA Greatest ==
    ASSUME NEW n \in Nat, NEW T \in SUBSET (1..n), T # {}
    PROVE  \E k \in T : \A m \in T : m <= k
<1>. DEFINE B == {k \in Nat : \A m \in T : m <= k}
<1>1. n \in B
  OBVIOUS
<1>2. PICK k \in B : \A j \in B : k <= j
  <2>1. B \in SUBSET Nat /\ B # {}
    BY <1>1
  <2>. HIDE DEF B
  <2>. QED
    BY <2>1, Least
<1>3. PICK t \in T : TRUE
  OBVIOUS
<1>4. k \in T
  <2>. SUFFICES ASSUME k \notin T PROVE FALSE
    OBVIOUS
  <2>1. k - 1 \in Nat
    BY <1>3
  <2>2. ASSUME NEW m \in T PROVE m <= k - 1
    <3>1. m \in 1..n /\ m <= k /\ m # k
      BY <2>2
    <3>. QED
      BY <3>1
  <2>3. k - 1 \in B
    BY <2>1, <2>2
  <2>. QED
    BY <1>2, <2>3
<1>. QED
  BY <1>4

\* The invariant is what the property asks for.
LEMMA SourcesInvImplies == SourcesInv => SourcesReachClient
<1>. SUFFICES ASSUME SourcesInv, NEW h \in Handler, NEW u \in Universe, NEW c \in Cid,
                     held[h] = u, ~Busy(h), Listed(u, c), ~Stray(h, c)
              PROVE  WillKnow(h, c) = sources[u][c]
  BY DEF SourcesReachClient, Listed, Erasing
<1>1. About(h, c) = Words(h, u, c)
  BY DEF Stray, Words
<1>2. CASE About(h, c) = {}
  BY <1>1, <1>2 DEF SourcesInv, ToldIsTrue, Stray, WillKnow
<1>3. CASE About(h, c) # {}
  <2>1. TypeOK
    BY ReceiversFacts DEF SourcesInv, LevelsInv
  <2>2. Len(queue[h]) \in Nat /\ About(h, c) \in SUBSET (1..Len(queue[h]))
    BY <2>1 DEF TypeOK, About
  <2>3. \E i \in About(h, c) : \A j \in About(h, c) : j <= i
    BY <1>3, <2>2, Greatest
  <2>. DEFINE last == CHOOSE i \in About(h, c) : \A j \in About(h, c) : j <= i
  <2>4. last \in About(h, c) /\ \A j \in About(h, c) : j <= last
    BY <2>3
  <2>5. WillKnow(h, c) = queue[h][last].info
    BY <1>3 DEF WillKnow
  <2>. HIDE DEF last
  <2>6. LastWord(h, u, c, sources[u][c])
    BY DEF SourcesInv, QueuesInv, LastWordIsTrue
  <2>. QED
    BY <1>1, <2>4, <2>5, <2>6 DEF LastWord
<1>. QED
  BY <1>2, <1>3

-----------------------------------------------------------------------------
(* What the three operations on queues do to the words in them.             *)

LEMMA QueueTypes ==
    ASSUME SourcesInv
    PROVE  /\ TypeOK /\ ViewTypeOK
           /\ \A h \in Handler : /\ queue[h] \in Seq(Event)
                                 /\ Len(queue[h]) \in Nat
                                 /\ DOMAIN queue[h] = 1..Len(queue[h])
<1>1. TypeOK
  BY ReceiversFacts DEF SourcesInv, LevelsInv
<1>. QED
  BY <1>1 DEF TypeOK, SourcesInv, LevelsInv

LEMMA AppendCopies ==
    ASSUME NEW S, NEW q \in Seq(S), NEW k \in Nat, NEW e
    PROVE  LET q2 == q \o [n \in 1..k |-> e] IN
           /\ DOMAIN q2 = 1..(Len(q) + k)
           /\ \A i \in 1..Len(q) : q2[i] = q[i]
           /\ \A i \in (Len(q) + 1)..(Len(q) + k) : q2[i] = e
<1>. DEFINE r == [n \in 1..k |-> e]
<1>1. r \in Seq({e}) /\ Len(r) = k
  OBVIOUS
<1>2. \A n \in 1..k : r[n] = e
  OBVIOUS
<1>. HIDE DEF r
<1>3. Len(q \o r) = Len(q) + k /\ DOMAIN (q \o r) = 1..(Len(q) + k)
  BY <1>1
<1>4. \A i \in 1..Len(q) : (q \o r)[i] = q[i]
  BY <1>1
<1>5. ASSUME NEW i \in (Len(q) + 1)..(Len(q) + k) PROVE (q \o r)[i] = e
  <2>1. (q \o r)[i] = r[i - Len(q)]
    BY <1>1
  <2>2. i - Len(q) \in 1..k
    OBVIOUS
  <2>. QED
    BY <1>2, <2>1, <2>2
<1>. QED
  BY <1>3, <1>4, <1>5 DEF r

\* Emitting: handlers that are connected get a last word, others no new one.
LEMMA EmitWords ==
    ASSUME SourcesInv, NEW s \in Signal, NEW u \in Universe, NEW c \in Cid \cup {None},
           NEW info, Emit(s, u, c, info), UNCHANGED conn, s # "dataChanged" => c \in Cid
    PROVE  /\ NamedSources' /\ SpeakersAreConnected' /\ UpdatesComeFirst'
           /\ \A h \in Handler, v \in Universe, d \in Cid :
                 \/ s = "dataChanged" \/ v # u \/ d # c \/ conn[h][u][s] = 0
                 => /\ Words(h, v, d)' = Words(h, v, d)
                    /\ \A val : LastWord(h, v, d, val) => LastWord(h, v, d, val)'
           /\ \A h \in Handler :
                 s # "dataChanged" /\ conn[h][u][s] > 0 =>
                    Words(h, u, c)' # {} /\ LastWord(h, u, c, info)'
<1>. DEFINE e == [signal |-> s, from |-> u, cid |-> c, info |-> info]
            k(h) == conn[h][u][s]
            n(h) == Len(queue[h])
<1>0. NamedSources /\ SpeakersAreConnected /\ UpdatesComeFirst /\ None \notin Universe
  BY NoneIsFresh DEF SourcesInv, QueuesInv
<1>1. ASSUME NEW h \in Handler
      PROVE  /\ n(h) \in Nat /\ k(h) \in Nat /\ DOMAIN queue[h] = 1..n(h)
             /\ DOMAIN queue'[h] = 1..(n(h) + k(h))
             /\ \A i \in 1..n(h) : queue'[h][i] = queue[h][i]
             /\ \A i \in (n(h) + 1)..(n(h) + k(h)) : queue'[h][i] = e
  <2>1. queue'[h] = queue[h] \o [m \in 1..k(h) |-> e]
    BY DEF Emit
  <2>2. queue[h] \in Seq(Event) /\ k(h) \in Nat
    BY QueueTypes DEF TypeOK
  <2>. QED
    BY <2>1, <2>2, AppendCopies, QueueTypes
<1>. HIDE DEF e, k, n
<1>2. /\ e.signal = s /\ e.from = u /\ e.cid = c /\ e.info = info
      /\ \A h \in Handler : k(h) = conn[h][u][s]
  BY DEF e, k
<1>3. ASSUME NEW h \in Handler, NEW i \in DOMAIN queue'[h]
      PROVE  \/ i \in DOMAIN queue[h] /\ queue'[h][i] = queue[h][i]
             \/ /\ k(h) > 0 /\ queue'[h][i] = e
                /\ i > n(h)
  <2>1. i \in 1..n(h) \/ i \in (n(h) + 1)..(n(h) + k(h))
    BY <1>1
  <2>. QED
    BY <1>1, <2>1
<1>4. NamedSources'
  BY <1>0, <1>2, <1>3 DEF NamedSources
<1>5. SpeakersAreConnected'
  BY <1>0, <1>2, <1>3 DEF SpeakersAreConnected, UpdatesComeFirst
<1>6. UpdatesComeFirst'
  BY <1>0 DEF UpdatesComeFirst, Signal
<1>7. ASSUME NEW h \in Handler, NEW v \in Universe, NEW d \in Cid,
             s = "dataChanged" \/ v # u \/ d # c \/ conn[h][u][s] = 0
      PROVE  /\ Words(h, v, d)' = Words(h, v, d)
             /\ \A val : LastWord(h, v, d, val) => LastWord(h, v, d, val)'
  <2>1. \A i \in DOMAIN queue[h] : i \in DOMAIN queue'[h] /\ queue'[h][i] = queue[h][i]
    BY <1>1
  <2>2. Words(h, v, d)' = Words(h, v, d)
    BY <1>2, <1>3, <1>7, <2>1 DEF Words, About
  <2>3. \A i \in Words(h, v, d) : queue'[h][i] = queue[h][i]
    BY <2>1 DEF Words, About
  <2>. QED
    BY <2>2, <2>3 DEF LastWord
<1>8. ASSUME NEW h \in Handler, s # "dataChanged", conn[h][u][s] > 0
      PROVE  Words(h, u, c)' # {} /\ LastWord(h, u, c, info)'
  <2>. DEFINE last == n(h) + k(h)
  <2>1. last \in DOMAIN queue'[h] /\ queue'[h][last] = e
    BY <1>1, <1>2, <1>8
  <2>2. last \in Words(h, u, c)'
    BY <1>2, <1>8, <2>1 DEF Words, About
  <2>3. ASSUME NEW i \in Words(h, u, c)', \A j \in Words(h, u, c)' : j <= i
        PROVE  queue'[h][i].info = info
    <3>1. last <= i /\ i \in DOMAIN queue'[h]
      BY <2>2, <2>3 DEF Words, About
    <3>2. i = last
      BY <1>1, <3>1
    <3>. QED
      BY <1>2, <2>1, <3>2
  <2>. QED
    BY <2>2, <2>3 DEF LastWord
<1>. QED
  BY <1>4, <1>5, <1>6, <1>7, <1>8

\* Delivering: the head leaves, and what remains keeps its order.
LEMMA DeliverWords ==
    ASSUME SourcesInv, NEW h \in Handler, Deliver(h)
    PROVE  /\ QueuesInv'
           /\ \A g \in Handler \ {h}, u \in Universe, c \in Cid :
                 Words(g, u, c)' = Words(g, u, c)
           /\ \A u \in Universe, c \in Cid :
                 Words(h, u, c)' = {} => Words(h, u, c) \subseteq {1}
<1>. DEFINE n == Len(queue[h])
<1>1. /\ queue' = [queue EXCEPT ![h] = Tail(queue[h])]
      /\ UNCHANGED <<held, sources, conn, rx>>
      /\ queue[h] # <<>>
  BY DEF Deliver
<1>2. /\ n \in Nat /\ n > 0 /\ DOMAIN queue[h] = 1..n
      /\ DOMAIN queue'[h] = 1..(n - 1)
      /\ \A i \in 1..(n - 1) : queue'[h][i] = queue[h][i + 1]
  BY <1>1, QueueTypes DEF TypeOK
<1>3. \A g \in Handler \ {h} : queue'[g] = queue[g]
  BY <1>1, QueueTypes DEF TypeOK
<1>. HIDE DEF n
<1>4. \A i \in DOMAIN queue'[h] : i + 1 \in DOMAIN queue[h] /\ queue'[h][i] = queue[h][i + 1]
  BY <1>2
<1>5. NamedSources' /\ SpeakersAreConnected' /\ UpdatesComeFirst'
  <2>1. NamedSources /\ SpeakersAreConnected /\ UpdatesComeFirst
    BY DEF SourcesInv, QueuesInv
  <2>2. NamedSources'
    BY <1>3, <1>4, <2>1 DEF NamedSources
  <2>3. SpeakersAreConnected'
    BY <1>1, <1>3, <1>4, <2>1 DEF SpeakersAreConnected
  <2>. QED
    BY <1>1, <2>1, <2>2, <2>3 DEF UpdatesComeFirst
<1>6. \A g \in Handler \ {h}, u \in Universe, c \in Cid : Words(g, u, c)' = Words(g, u, c)
  BY <1>3 DEF Words, About
<1>7. ASSUME NEW u \in Universe, NEW c \in Cid
      PROVE  /\ \A i \in Words(h, u, c)' : i \in Int /\ i + 1 \in Words(h, u, c)
             /\ \A i \in Words(h, u, c) : i \in Int /\ i >= 1 /\
                                          (i > 1 => i - 1 \in Words(h, u, c)')
  <2>1. \A i \in DOMAIN queue[h] :
           i \in Int /\ i >= 1 /\
             (i > 1 => i - 1 \in DOMAIN queue'[h] /\ queue'[h][i - 1] = queue[h][i])
    BY <1>2
  <2>2. \A i \in DOMAIN queue'[h] : i \in Int
    BY <1>2
  <2>. QED
    BY <1>4, <2>1, <2>2 DEF Words, About
<1>8. LastWordIsTrue'
  <2>. SUFFICES ASSUME NEW g \in Handler, NEW u \in Universe, NEW c \in Cid, Listed(u, c)'
                PROVE  LastWord(g, u, c, sources[u][c])'
    BY <1>1 DEF LastWordIsTrue
  <2>1. LastWord(g, u, c, sources[u][c])
    BY <1>1 DEF Listed, Erasing, SourcesInv, QueuesInv, LastWordIsTrue
  <2>2. CASE g # h
    BY <1>1, <1>3, <1>6, <2>1, <2>2 DEF LastWord
  <2>3. CASE g = h
    <3>. SUFFICES ASSUME NEW i \in Words(h, u, c)', \A j \in Words(h, u, c)' : j <= i
                  PROVE  queue'[h][i].info = sources[u][c]
      BY <1>1, <2>3 DEF LastWord
    <3>1. i \in Int /\ i + 1 \in Words(h, u, c) /\ queue'[h][i] = queue[h][i + 1]
      BY <1>4, <1>7 DEF Words, About
    <3>2. ASSUME NEW j \in Words(h, u, c) PROVE j <= i + 1
      <4>1. j \in Int /\ j >= 1 /\ (j > 1 => j - 1 \in Words(h, u, c)')
        BY <1>7
      <4>2. i \in DOMAIN queue'[h]
        BY DEF Words, About
      <4>. QED
        BY <1>2, <3>1, <4>1, <4>2
    <3>. QED
      BY <2>1, <2>3, <3>1, <3>2 DEF LastWord
  <2>. QED
    BY <2>2, <2>3
<1>9. \A u \in Universe, c \in Cid : Words(h, u, c)' = {} => Words(h, u, c) \subseteq {1}
  BY <1>7
<1>. QED
  BY <1>5, <1>6, <1>8, <1>9 DEF QueuesInv

\* Releasing a receiver: its deliveries are orphaned, the others stay as they
\* are, or go with the handler they were for.
LEMMA ReleaseWords ==
    ASSUME SourcesInv, NEW gone \in SUBSET Universe,
           sources' = Without(sources, gone, NoSources), rx' = rx,
           \A g \in Handler :
              \/ /\ queue'[g] = Orphan(queue[g], gone)
                 /\ conn'[g] = Without(conn[g], gone, NotConnected)
              \/ queue'[g] = <<>> /\ conn'[g] = [v \in Universe |-> NotConnected]
    PROVE  /\ QueuesInv'
           /\ \A u \in Universe, c \in Cid :
                 Listed(u, c)' => u \notin gone /\ Listed(u, c) /\ sources'[u][c] = sources[u][c]
           /\ \A g \in Handler, u \in Universe \ gone, c \in Cid :
                 queue'[g] = Orphan(queue[g], gone) => Words(g, u, c)' = Words(g, u, c)
<1>1. QueuesInv /\ None \notin Universe
  BY NoneIsFresh DEF SourcesInv
<1>2. ASSUME NEW u \in Universe, NEW c \in Cid, Listed(u, c)'
      PROVE  u \notin gone /\ Listed(u, c) /\ sources'[u][c] = sources[u][c]
  BY <1>2 DEF Listed, Erasing, Without, NoSources
<1>3. ASSUME NEW g \in Handler, NEW i \in DOMAIN queue'[g]
      PROVE  /\ queue'[g] = Orphan(queue[g], gone)
             /\ conn'[g] = Without(conn[g], gone, NotConnected)
             /\ i \in DOMAIN queue[g]
             /\ queue'[g][i].signal = queue[g][i].signal
             /\ queue'[g][i].cid = queue[g][i].cid
             /\ queue'[g][i].info = queue[g][i].info
             /\ \/ queue'[g][i].from = None
                \/ queue'[g][i].from = queue[g][i].from /\ queue[g][i].from \notin gone
  <2>1. queue'[g] = Orphan(queue[g], gone)
        /\ conn'[g] = Without(conn[g], gone, NotConnected)
    OBVIOUS
  <2>2. /\ i \in DOMAIN queue[g]
        /\ queue'[g][i] = IF queue[g][i].from \in gone
                          THEN [queue[g][i] EXCEPT !.from = None] ELSE queue[g][i]
    BY <2>1 DEF Orphan
  <2>3. queue[g][i] \in Event
    BY <2>2, QueueTypes
  <2>. QED
    BY <2>1, <2>2, <2>3 DEF Event
<1>4. NamedSources'
  BY <1>1, <1>3 DEF QueuesInv, NamedSources
<1>5. SpeakersAreConnected'
  <2>. SUFFICES ASSUME NEW g \in Handler, NEW i \in DOMAIN queue'[g],
                       queue'[g][i].signal # "dataChanged", queue'[g][i].from # None
                PROVE  conn'[g][queue'[g][i].from]["sourceUpdated"] > 0
    BY DEF SpeakersAreConnected
  <2>1. queue'[g][i].from = queue[g][i].from /\ queue[g][i].from \notin gone
    BY <1>3
  <2>2. queue[g][i].from \in Universe
    <3>1. queue[g][i] \in Event
      BY <1>3, QueueTypes
    <3>. QED
      BY <2>1, <3>1 DEF Event
  <2>3. conn[g][queue[g][i].from]["sourceUpdated"] > 0
    BY <1>1, <1>3, <2>1 DEF QueuesInv, SpeakersAreConnected
  <2>4. conn'[g] = Without(conn[g], gone, NotConnected)
    BY <1>3
  <2>5. conn'[g][queue[g][i].from] = conn[g][queue[g][i].from]
    BY <2>1, <2>2, <2>4 DEF Without
  <2>. QED
    BY <2>1, <2>3, <2>5
<1>6. UpdatesComeFirst'
  <2>. SUFFICES ASSUME NEW g \in Handler, NEW u \in Universe, NEW s \in Signal,
                       conn'[g][u][s] > 0
                PROVE  conn'[g][u]["sourceUpdated"] > 0
    BY DEF UpdatesComeFirst
  <2>1. conn'[g][u] # NotConnected
    BY DEF NotConnected
  <2>2. conn'[g][u] = conn[g][u]
    BY <2>1 DEF Without
  <2>. QED
    BY <1>1, <2>2 DEF QueuesInv, UpdatesComeFirst
<1>7. ASSUME NEW g \in Handler, NEW u \in Universe \ gone, NEW c \in Cid,
             queue'[g] = Orphan(queue[g], gone)
      PROVE  /\ Words(g, u, c)' = Words(g, u, c)
             /\ \A i \in Words(g, u, c) : queue'[g][i].info = queue[g][i].info
  <2>1. DOMAIN queue'[g] = DOMAIN queue[g]
    BY <1>7 DEF Orphan
  <2>2. \A i \in DOMAIN queue[g] : queue[g][i].from = u => queue'[g][i] = queue[g][i]
    BY <1>7 DEF Orphan
  <2>3. \A i \in DOMAIN queue[g] : queue'[g][i].from = u => queue[g][i].from = u
    BY <1>1, <1>3, <2>1
  <2>. QED
    BY <2>1, <2>2, <2>3 DEF Words, About
<1>8. LastWordIsTrue'
  <2>. SUFFICES ASSUME NEW g \in Handler, NEW u \in Universe, NEW c \in Cid, Listed(u, c)',
                       NEW i \in Words(g, u, c)', \A j \in Words(g, u, c)' : j <= i
                PROVE  queue'[g][i].info = sources'[u][c]
    BY DEF LastWordIsTrue, LastWord
  <2>1. u \notin gone /\ Listed(u, c) /\ sources'[u][c] = sources[u][c]
    BY <1>2
  <2>2. queue'[g] = Orphan(queue[g], gone)
    BY <1>3 DEF Words, About
  <2>3. LastWord(g, u, c, sources[u][c])
    BY <1>1, <2>1 DEF QueuesInv, LastWordIsTrue
  <2>. QED
    BY <1>7, <2>1, <2>2, <2>3 DEF LastWord
<1>. QED
  BY <1>2, <1>4, <1>5, <1>6, <1>7, <1>8 DEF QueuesInv

-----------------------------------------------------------------------------
(* Each action keeps what is told and queued true.                          *)

LEMMA ConnectSources ==
    ASSUME SourcesInv, NEW h \in Handler, OnConnect(h)
    PROVE  QueuesInv' /\ ToldIsTrue' /\ ClosedHoldsNothing'
<1>. USE DEF OnConnect, vars
<1>1. QueuesInv'
  BY DEF SourcesInv, QueuesInv, NamedSources, SpeakersAreConnected, UpdatesComeFirst,
         LastWordIsTrue, LastWord, Words, About, Listed, Erasing
<1>2. held[h] = None /\ None \notin Universe
  BY NoneIsFresh DEF SourcesInv, ClosedHoldsNothing
<1>3. ToldIsTrue'
  <2>1. \A g \in Handler \ {h} : told'[g] = told[g]
    BY QueueTypes DEF ViewTypeOK
  <2>. QED
    BY <1>2, <2>1 DEF SourcesInv, ToldIsTrue, Words, About, Listed, Erasing, Busy
<1>4. ClosedHoldsNothing'
  BY QueueTypes DEF SourcesInv, ClosedHoldsNothing, ViewTypeOK
<1>. QED
  BY <1>1, <1>3, <1>4

\* ~MergeReceiver, as three requests meet it.
LEMMA ReleaseSources ==
    ASSUME SourcesInv, NEW h \in Handler, NEW u \in Universe \cup {None},
           SetReceiver(h, u), rx' = rx,
           \A g \in Handler :
              \/ /\ queue'[g] = Orphan(queue[g], Dying(h, u))
                 /\ conn'[g] = Without(conn[g], Dying(h, u), NotConnected)
              \/ /\ g = h /\ queue'[g] = <<>>
                 /\ conn'[g] = [v \in Universe |-> NotConnected],
           u = None \/ Busy(h)',
           \A g \in Handler \ {h} : told'[g] = told[g] /\ ~Busy(g)
    PROVE  QueuesInv' /\ ToldIsTrue'
<1>. DEFINE gone == Dying(h, u)
<1>1. gone \in SUBSET Universe /\ sources' = Without(sources, gone, NoSources)
  BY DEF SetReceiver, Dying
<1>2. held'[h] = u /\ \A g \in Handler \ {h} : held'[g] = held[g]
  BY QueueTypes DEF SetReceiver, TypeOK
<1>. HIDE DEF gone
<1>3. /\ QueuesInv'
      /\ \A v \in Universe, c \in Cid :
            Listed(v, c)' => v \notin gone /\ Listed(v, c) /\ sources'[v][c] = sources[v][c]
      /\ \A g \in Handler, v \in Universe \ gone, c \in Cid :
            queue'[g] = Orphan(queue[g], gone) => Words(g, v, c)' = Words(g, v, c)
  BY <1>1, ReleaseWords DEF gone
<1>4. ToldIsTrue'
  <2>. SUFFICES ASSUME NEW g \in Handler, NEW v \in Universe, NEW c \in Cid,
                       held'[g] = v, ~Busy(g)', Listed(v, c)', c \notin told'[g].stray,
                       Words(g, v, c)' = {}
                PROVE  told'[g].src[c] = sources'[v][c]
    BY DEF ToldIsTrue
  <2>1. g # h
    BY <1>2, NoneIsFresh
  <2>2. held[g] = v /\ told'[g] = told[g] /\ ~Busy(g)
    BY <1>2, <2>1
  <2>3. queue'[g] = Orphan(queue[g], gone)
    BY <2>1 DEF gone
  <2>4. Words(g, v, c) = {} /\ Listed(v, c) /\ sources'[v][c] = sources[v][c]
    BY <1>3, <2>3
  <2>. QED
    BY <2>2, <2>4 DEF SourcesInv, ToldIsTrue
<1>. QED
  BY <1>3, <1>4

LEMMA RequestSources ==
    ASSUME SourcesInv, NEW h \in Handler,
           \/ OnDisconnect(h) \/ OnLeaveUniverse(h)
           \/ \E u \in Universe : OnChangeUniverse(h, u)
    PROVE  QueuesInv' /\ ToldIsTrue' /\ ClosedHoldsNothing'
<1>1. CASE OnDisconnect(h)
  <2>1. SetReceiver(h, None) /\ rx' = rx /\ main.pc = "idle"
    BY <1>1 DEF OnDisconnect, Close
  <2>2. \A g \in Handler :
           \/ /\ queue'[g] = Orphan(queue[g], Dying(h, None))
              /\ conn'[g] = Without(conn[g], Dying(h, None), NotConnected)
           \/ g = h /\ queue'[g] = <<>> /\ conn'[g] = [v \in Universe |-> NotConnected]
    BY <1>1 DEF OnDisconnect, Close
  <2>3. \A g \in Handler \ {h} : told'[g] = told[g] /\ ~Busy(g)
    BY <1>1, <2>1 DEF OnDisconnect, Busy
  <2>4. ClosedHoldsNothing'
    BY <1>1, <2>1, QueueTypes
       DEF OnDisconnect, SetReceiver, ClosedHoldsNothing, SourcesInv, ViewTypeOK, TypeOK
  <2>. QED
    BY <2>1, <2>2, <2>3, <2>4, ReleaseSources
<1>2. CASE OnLeaveUniverse(h)
  <2>1. SetReceiver(h, None) /\ rx' = rx /\ main.pc = "idle"
    BY <1>2 DEF OnLeaveUniverse, LeaveUniverse
  <2>2. \A g \in Handler :
           /\ queue'[g] = Orphan(queue[g], Dying(h, None))
           /\ conn'[g] = Without(conn[g], Dying(h, None), NotConnected)
    BY <1>2 DEF OnLeaveUniverse, LeaveUniverse
  <2>3. \A g \in Handler \ {h} : told'[g] = told[g] /\ ~Busy(g)
    BY <1>2, <2>1, QueueTypes DEF OnLeaveUniverse, Busy, ViewTypeOK
  <2>4. ClosedHoldsNothing'
    BY <1>2, <2>1, QueueTypes
       DEF OnLeaveUniverse, SetReceiver, ClosedHoldsNothing, SourcesInv, TypeOK
  <2>. QED
    BY <2>1, <2>2, <2>3, <2>4, ReleaseSources
<1>3. ASSUME NEW u \in Universe, OnChangeUniverse(h, u)
      PROVE  QueuesInv' /\ ToldIsTrue' /\ ClosedHoldsNothing'
  <2>1. SetReceiver(h, u) /\ rx' = rx /\ main.pc = "idle" /\ Busy(h)'
    BY <1>3 DEF OnChangeUniverse, ChangeUniverse, Busy
  <2>2. \A g \in Handler :
           /\ queue'[g] = Orphan(queue[g], Dying(h, u))
           /\ conn'[g] = Without(conn[g], Dying(h, u), NotConnected)
    BY <1>3 DEF OnChangeUniverse, ChangeUniverse
  <2>3. \A g \in Handler \ {h} : told'[g] = told[g] /\ ~Busy(g)
    BY <1>3, <2>1, QueueTypes DEF OnChangeUniverse, Busy, ViewTypeOK
  <2>4. ClosedHoldsNothing'
    BY <1>3, <2>1, QueueTypes
       DEF OnChangeUniverse, SetReceiver, ClosedHoldsNothing, SourcesInv, TypeOK
  <2>. QED
    BY <2>1, <2>2, <2>3, <2>4, ReleaseSources
<1>. QED
  BY <1>1, <1>2, <1>3

LEMMA RequestStepSources ==
    ASSUME SourcesInv, OnChangeUniverseStep
    PROVE  QueuesInv' /\ ToldIsTrue' /\ ClosedHoldsNothing'
<1>1. /\ UNCHANGED rlVars /\ UNCHANGED <<held, sources, queue, rx>>
      /\ main.pc # "idle" /\ main'.pc # "idle" /\ main'.h = main.h
  BY QueueTypes DEF OnChangeUniverseStep, Connect, LockSources, NextStep, Signal,
                    TypeOK, MainState
<1>2. \A h \in Handler, u \in Universe : conn'[h][u]["sourceUpdated"] \in Nat
         /\ conn'[h][u]["sourceUpdated"] >= conn[h][u]["sourceUpdated"]
         /\ conn[h][u]["sourceUpdated"] \in Nat
  <2>. SUFFICES ASSUME NEW h \in Handler, NEW u \in Universe
                PROVE  conn'[h][u]["sourceUpdated"] \in Nat
                       /\ conn'[h][u]["sourceUpdated"] >= conn[h][u]["sourceUpdated"]
                       /\ conn[h][u]["sourceUpdated"] \in Nat
    OBVIOUS
  <2>1. conn[h][u]["sourceUpdated"] \in Nat
    BY QueueTypes DEF TypeOK, Signal
  <2>2. conn' = conn \/ conn' = [conn EXCEPT ![main.h][main.u][main.pc] = @ + 1]
    BY DEF OnChangeUniverseStep, Connect, LockSources
  <2>3. conn \in [Handler -> [Universe -> [Signal -> Nat]]] /\ "sourceUpdated" \in Signal
    BY QueueTypes DEF TypeOK, Signal
  <2>4. \/ conn'[h][u]["sourceUpdated"] = conn[h][u]["sourceUpdated"]
        \/ conn'[h][u]["sourceUpdated"] = conn[h][u]["sourceUpdated"] + 1
    <3>1. CASE conn' = conn
      BY <3>1
    <3>2. CASE conn' = [conn EXCEPT ![main.h][main.u][main.pc] = @ + 1]
      <4>1. CASE main.h = h /\ main.u = u /\ main.pc = "sourceUpdated"
        BY <2>3, <3>2, <4>1
      <4>2. CASE ~(main.h = h /\ main.u = u /\ main.pc = "sourceUpdated")
        BY <2>3, <3>2, <4>2
      <4>. QED
        BY <4>1, <4>2
    <3>. QED
      BY <2>2, <3>1, <3>2
  <2>. QED
    BY <2>1, <2>4
<1>3. UpdatesComeFirst'
  <2>. SUFFICES ASSUME NEW h \in Handler, NEW u \in Universe, NEW s \in Signal,
                       conn'[h][u][s] > 0
                PROVE  conn'[h][u]["sourceUpdated"] > 0
    BY DEF UpdatesComeFirst
  <2>1. CASE conn[h][u][s] > 0
    BY <1>2, <2>1 DEF SourcesInv, QueuesInv, UpdatesComeFirst
  <2>2. CASE ~(conn[h][u][s] > 0)
    <3>1. Connect /\ main.h = h /\ main.u = u /\ main.pc = s
      <4>1. conn'[h][u][s] # conn[h][u][s]
        BY <2>2
      <4>2. Connect
        BY <4>1 DEF OnChangeUniverseStep, LockSources
      <4>3. conn' = [conn EXCEPT ![main.h][main.u][main.pc] = @ + 1]
        BY <4>2 DEF Connect
      <4>. QED
        BY <4>1, <4>2, <4>3, QueueTypes DEF TypeOK
    <3>2. CASE s = "sourceUpdated"
      BY <3>2
    <3>3. CASE s # "sourceUpdated"
      <4>1. held[h] = u /\ HolderIsSubscribed
        BY <1>1, <3>1, ReceiversFacts DEF SourcesInv, LevelsInv, RequestIsHeld
      <4>2. "sourceUpdated" \in Signal \ NotYetConnected(h, u)
        BY <3>1, <3>3 DEF NotYetConnected, ToConnect, Signal
      <4>3. conn[h][u]["sourceUpdated"] > 0
        BY <4>1, <4>2 DEF HolderIsSubscribed
      <4>. QED
        BY <1>2, <4>3
    <3>. QED
      BY <3>2, <3>3
  <2>. QED
    BY <2>1, <2>2
<1>4. SpeakersAreConnected'
  <2>. SUFFICES ASSUME NEW h \in Handler, NEW i \in DOMAIN queue[h],
                       queue[h][i].signal # "dataChanged", queue[h][i].from # None
                PROVE  conn'[h][queue[h][i].from]["sourceUpdated"] > 0
    BY <1>1 DEF SpeakersAreConnected
  <2>1. queue[h][i].from \in Universe
    <3>1. queue[h][i] \in Event
      BY QueueTypes
    <3>. QED
      BY <3>1 DEF Event
  <2>2. conn[h][queue[h][i].from]["sourceUpdated"] > 0
    BY DEF SourcesInv, QueuesInv, SpeakersAreConnected
  <2>. QED
    BY <1>2, <2>1, <2>2
<1>5. NamedSources' /\ LastWordIsTrue'
  BY <1>1 DEF SourcesInv, QueuesInv, NamedSources, LastWordIsTrue, LastWord, Words, About,
              Listed, Erasing
<1>6. ToldIsTrue' /\ ClosedHoldsNothing'
  BY <1>1 DEF SourcesInv, ToldIsTrue, ClosedHoldsNothing, Words, About, Listed, Erasing,
              Busy, rlVars
<1>. QED
  BY <1>3, <1>4, <1>5, <1>6 DEF QueuesInv

\* The copy: what it holds is what the receiver lists, and what the copy lacks
\* is not listed.
LEMMA RequestEndSources ==
    ASSUME SourcesInv, OnChangeUniverseEnd
    PROVE  QueuesInv' /\ ToldIsTrue' /\ ClosedHoldsNothing'
<1>. DEFINE h == main.h
            known == sources[main.u]
            src == [c \in Cid |-> IF known[c] # None THEN known[c] ELSE told[h].src[c]]
<1>1. /\ UNCHANGED <<held, sources, conn, queue, rx, open>>
      /\ h \in Handler /\ held[h] = main.u
      /\ told' = [told EXCEPT ![h].src = src]
  BY ReceiversFacts
     DEF OnChangeUniverseEnd, SendKnownSources, SourcesInv, LevelsInv, RequestIsHeld
<1>2. QueuesInv' /\ ClosedHoldsNothing'
  BY <1>1 DEF SourcesInv, ClosedHoldsNothing, QueuesInv, NamedSources, SpeakersAreConnected,
         UpdatesComeFirst, LastWordIsTrue, LastWord, Words, About, Listed, Erasing
<1>3. ToldIsTrue'
  <2>. SUFFICES ASSUME NEW g \in Handler, NEW u \in Universe, NEW c \in Cid,
                       held[g] = u, Listed(u, c), c \notin told'[g].stray,
                       Words(g, u, c) = {}
                PROVE  told'[g].src[c] = sources[u][c]
    BY <1>1 DEF ToldIsTrue, Listed, Erasing, Words, About
  <2>1. CASE g = h
    <3>1. told'[g].src = src
      BY <1>1, <2>1, QueueTypes DEF ViewTypeOK, ClientState
    <3>. QED
      BY <1>1, <2>1, <3>1 DEF Listed
  <2>2. CASE g # h
    <3>1. told'[g] = told[g] /\ ~Busy(g)
      BY <1>1, <2>2, QueueTypes DEF ViewTypeOK, Busy
    <3>. QED
      BY <3>1 DEF SourcesInv, ToldIsTrue
  <2>. QED
    BY <2>1, <2>2
<1>. QED
  BY <1>2, <1>3

LEMMA FlickerFinderSources ==
    ASSUME SourcesInv, NEW h \in Handler, NEW on \in BOOLEAN, OnChangeFlickerFinder(h, on)
    PROVE  QueuesInv' /\ ToldIsTrue' /\ ClosedHoldsNothing'
<1>1. UNCHANGED <<vars, open>> /\ told' = [told EXCEPT ![h].diff = None]
  BY DEF OnChangeFlickerFinder
<1>2. \A g \in Handler : told'[g].src = told[g].src /\ told'[g].stray = told[g].stray
  BY <1>1, QueueTypes DEF ViewTypeOK, ClientState
<1>. QED
  BY <1>1, <1>2
     DEF vars, SourcesInv, ClosedHoldsNothing, QueuesInv, NamedSources, SpeakersAreConnected,
         UpdatesComeFirst, LastWordIsTrue, LastWord, Words, About, Listed, Erasing, ToldIsTrue,
         Busy

\* A delivery about a source: the client now holds what was the first word
\* queued, and when it was the only one, what is listed.
LEMMA SourceSources ==
    ASSUME SourcesInv, NEW h \in Handler, OnSource(h)
    PROVE  QueuesInv' /\ ToldIsTrue' /\ ClosedHoldsNothing'
<1>. DEFINE e == Head(queue[h])
            t == told'[h]
<1>1. /\ Deliver(h) /\ UNCHANGED <<held, sources, conn, rx, main, open>>
      /\ queue[h] # <<>> /\ e.signal \in {"sourceUpdated", "sourceLost"}
      /\ \A g \in Handler \ {h} : told'[g] = told[g]
  BY QueueTypes DEF OnSource, Deliver, ViewTypeOK
<1>2. e = queue[h][1] /\ 1 \in DOMAIN queue[h]
  BY <1>1, QueueTypes
<1>3. e.cid \in Cid
  BY <1>1, <1>2 DEF SourcesInv, QueuesInv, NamedSources
<1>4. /\ t.src = [told[h].src EXCEPT ![e.cid] = e.info]
      /\ t.stray = IF e.from = held[h] THEN told[h].stray \ {e.cid}
                   ELSE told[h].stray \cup {e.cid}
  <2>1. told[h] \in ClientState
    BY QueueTypes DEF ViewTypeOK
  <2>. QED
    BY <2>1, QueueTypes DEF OnSource, ViewTypeOK, ClientState
<1>. HIDE DEF e, t
<1>5. /\ QueuesInv'
      /\ \A g \in Handler \ {h}, u \in Universe, c \in Cid : Words(g, u, c)' = Words(g, u, c)
      /\ \A u \in Universe, c \in Cid : Words(h, u, c)' = {} => Words(h, u, c) \subseteq {1}
  BY <1>1, DeliverWords
<1>6. ToldIsTrue'
  <2>. SUFFICES ASSUME NEW g \in Handler, NEW u \in Universe, NEW c \in Cid,
                       held[g] = u, ~Busy(g), Listed(u, c), c \notin told'[g].stray,
                       Words(g, u, c)' = {}
                PROVE  told'[g].src[c] = sources[u][c]
    BY <1>1 DEF ToldIsTrue, Listed, Erasing, Busy
  <2>1. CASE g # h
    BY <1>1, <1>5, <2>1 DEF SourcesInv, ToldIsTrue
  <2>2. CASE g = h /\ c = e.cid
    <3>1. e.from = u
      BY <1>4, <2>2 DEF t
    <3>2. 1 \in Words(h, u, c)
      BY <1>1, <1>2, <2>2, <3>1 DEF Words, About
    <3>3. \A j \in Words(h, u, c) : j <= 1
      BY <1>5, <2>2
    <3>4. LastWord(h, u, c, sources[u][c])
      BY DEF SourcesInv, QueuesInv, LastWordIsTrue
    <3>5. e.info = sources[u][c]
      BY <1>2, <3>2, <3>3, <3>4 DEF LastWord
    <3>6. t.src[c] = e.info
      <4>1. told[h].src \in [Cid -> Info \cup {None}]
        BY QueueTypes DEF ViewTypeOK, ClientState
      <4>. QED
        BY <1>4, <2>2, <4>1
    <3>. QED
      BY <2>2, <3>5, <3>6 DEF t
  <2>3. CASE g = h /\ c # e.cid
    <3>1. t.src[c] = told[h].src[c] /\ c \notin told[h].stray
      BY <1>3, <1>4, <2>3 DEF t
    <3>2. 1 \notin Words(h, u, c)
      BY <1>2, <2>3 DEF Words, About
    <3>3. Words(h, u, c) = {}
      BY <1>5, <2>3, <3>2
    <3>. QED
      BY <2>3, <3>1, <3>3 DEF SourcesInv, ToldIsTrue, t
  <2>. QED
    BY <2>1, <2>2, <2>3
<1>7. ClosedHoldsNothing'
  BY <1>1 DEF SourcesInv, ClosedHoldsNothing
<1>. QED
  BY <1>5, <1>6, <1>7

LEMMA FrameSources ==
    ASSUME SourcesInv, NEW h \in Handler, OnMergedData(h)
    PROVE  QueuesInv' /\ ToldIsTrue' /\ ClosedHoldsNothing'
<1>1. /\ Deliver(h) /\ UNCHANGED <<held, sources, conn, rx, main, open>>
      /\ queue[h] # <<>> /\ Head(queue[h]).signal = "dataChanged"
  BY DEF OnMergedData, OnMergedLevels, OnMergedFlicker, Deliver
<1>2. \A g \in Handler : told'[g].src = told[g].src /\ told'[g].stray = told[g].stray
  <2>1. PICK level, diff :
           \/ told' = [told EXCEPT ![h].level = level]
           \/ told' = [told EXCEPT ![h].level = level, ![h].diff = diff]
           \/ told' = told
    BY DEF OnMergedData, OnMergedLevels, OnMergedFlicker, FlickerMessage
  <2>2. told \in [Handler -> ClientState]
    BY QueueTypes DEF ViewTypeOK
  <2>. QED
    BY <2>1, <2>2 DEF ClientState
<1>3. /\ QueuesInv'
      /\ \A g \in Handler \ {h}, u \in Universe, c \in Cid : Words(g, u, c)' = Words(g, u, c)
      /\ \A u \in Universe, c \in Cid : Words(h, u, c)' = {} => Words(h, u, c) \subseteq {1}
  BY <1>1, DeliverWords
<1>4. \A u \in Universe, c \in Cid : 1 \notin Words(h, u, c)
  BY <1>1, QueueTypes DEF Words, About
<1>5. \A g \in Handler, u \in Universe, c \in Cid :
         Words(g, u, c)' = {} => Words(g, u, c) = {}
  BY <1>3, <1>4
<1>6. ToldIsTrue'
  BY <1>1, <1>2, <1>5 DEF SourcesInv, ToldIsTrue, Listed, Erasing, Busy
<1>7. ClosedHoldsNothing'
  BY <1>1 DEF SourcesInv, ClosedHoldsNothing
<1>. QED
  BY <1>3, <1>6, <1>7

\* A callback announces a change to those who are connected before the change
\* is in the list.
LEMMA UpdateSources ==
    ASSUME SourcesInv, NEW c \in Cid, UpdateSource(c), UNCHANGED rlVars
    PROVE  QueuesInv' /\ ToldIsTrue' /\ ClosedHoldsNothing'
<1>. PICK u \in Universe : u = rx.u
  BY ReceiversFacts DEF UpdateSource, SourcesInv, LevelsInv, Callback
<1>. PICK new : new = lib[u][c]
  OBVIOUS
<1>1. UNCHANGED <<held, conn, main>> /\ rx.pc = "updating" /\ rx'.pc = "updating"
  BY QueueTypes DEF UpdateSource, TypeOK, RxState
<1>2. ClosedHoldsNothing'
  BY <1>1 DEF rlVars, SourcesInv, ClosedHoldsNothing
<1>3. CASE UNCHANGED <<queue, sources>>
  BY <1>1, <1>2, <1>3
     DEF rlVars, SourcesInv, QueuesInv, NamedSources, SpeakersAreConnected, UpdatesComeFirst,
         LastWordIsTrue, LastWord, Words, About, Listed, Erasing, ToldIsTrue, Busy
<1>4. CASE Emit("sourceUpdated", u, c, new) /\ sources' = [sources EXCEPT ![u][c] = new]
  <2>1. "sourceUpdated" \in Signal /\ c \in Cid \cup {None}
    BY DEF Signal
  <2>2. /\ NamedSources' /\ SpeakersAreConnected' /\ UpdatesComeFirst'
        /\ \A h \in Handler, v \in Universe, d \in Cid :
              v # u \/ d # c \/ conn[h][u]["sourceUpdated"] = 0
              => /\ Words(h, v, d)' = Words(h, v, d)
                 /\ \A val : LastWord(h, v, d, val) => LastWord(h, v, d, val)'
        /\ \A h \in Handler : conn[h][u]["sourceUpdated"] > 0 =>
              Words(h, u, c)' # {} /\ LastWord(h, u, c, new)'
    BY <1>1, <1>4, <2>1, EmitWords
  <2>3. /\ sources'[u][c] = new
        /\ \A v \in Universe, d \in Cid : v # u \/ d # c => sources'[v][d] = sources[v][d]
    BY <1>1, <1>4, QueueTypes DEF TypeOK
  <2>4. ASSUME NEW h \in Handler, ~(conn[h][u]["sourceUpdated"] > 0)
        PROVE  conn[h][u]["sourceUpdated"] = 0 /\ Words(h, u, c) = {}
    <3>1. conn[h][u]["sourceUpdated"] \in Nat
      BY <1>1, <2>1, QueueTypes DEF TypeOK
    <3>2. u # None
      BY <1>1, NoneIsFresh
    <3>3. SpeakersAreConnected
      BY DEF SourcesInv, QueuesInv
    <3>. QED
      BY <2>4, <3>1, <3>2, <3>3 DEF SpeakersAreConnected, Words, About
  <2>5. LastWordIsTrue'
    <3>. SUFFICES ASSUME NEW h \in Handler, NEW v \in Universe, NEW d \in Cid, Listed(v, d)'
                  PROVE  LastWord(h, v, d, sources[v][d])'
      BY DEF LastWordIsTrue
    <3>1. CASE v # u \/ d # c
      <4>1. sources'[v][d] = sources[v][d] /\ Listed(v, d)
        BY <1>1, <2>3, <3>1 DEF Listed, Erasing
      <4>2. LastWord(h, v, d, sources[v][d])
        BY <4>1 DEF SourcesInv, QueuesInv, LastWordIsTrue
      <4>. QED
        BY <2>2, <3>1, <4>1, <4>2 DEF LastWord
    <3>2. CASE v = u /\ d = c /\ conn[h][u]["sourceUpdated"] > 0
      BY <2>2, <2>3, <3>2 DEF LastWord
    <3>3. CASE v = u /\ d = c /\ ~(conn[h][u]["sourceUpdated"] > 0)
      <4>1. Words(h, u, c)' = {}
        BY <1>1, <2>2, <2>4, <3>3
      <4>. QED
        BY <3>3, <4>1 DEF LastWord
    <3>. QED
      BY <3>1, <3>2, <3>3
  <2>6. ToldIsTrue'
    <3>. SUFFICES ASSUME NEW h \in Handler, NEW v \in Universe, NEW d \in Cid,
                         held[h] = v, ~Busy(h), Listed(v, d)', d \notin told[h].stray,
                         Words(h, v, d)' = {}
                  PROVE  told[h].src[d] = sources'[v][d]
      BY <1>1 DEF ToldIsTrue, Busy, rlVars
    <3>1. conn[h][v]["sourceUpdated"] > 0
      <4>1. HolderIsSubscribed
        BY ReceiversFacts DEF SourcesInv, LevelsInv
      <4>2. NotYetConnected(h, v) = {}
        BY DEF NotYetConnected, ToConnect, Busy
      <4>. QED
        BY <2>1, <4>1, <4>2 DEF HolderIsSubscribed
    <3>2. v # u \/ d # c
      BY <2>2, <3>1
    <3>3. Words(h, v, d) = {} /\ sources'[v][d] = sources[v][d] /\ Listed(v, d)
      BY <1>1, <2>2, <2>3, <3>2 DEF Listed, Erasing
    <3>. QED
      BY <3>3 DEF SourcesInv, ToldIsTrue
  <2>. QED
    BY <1>2, <2>2, <2>5, <2>6 DEF QueuesInv
<1>. QED
  BY <1>3, <1>4 DEF UpdateSource

\* What is told stays true as long as nothing new is listed and no word lost.
LEMMA ToldStaysTrue ==
    ASSUME SourcesInv, UNCHANGED <<held, main, open, told>>,
           \A h \in Handler, v \in Universe, d \in Cid :
              Listed(v, d)' =>
                 /\ Listed(v, d) /\ sources'[v][d] = sources[v][d]
                 /\ Words(h, v, d)' = Words(h, v, d)
                 /\ \A val : LastWord(h, v, d, val) => LastWord(h, v, d, val)'
    PROVE  LastWordIsTrue' /\ ToldIsTrue' /\ ClosedHoldsNothing'
<1>1. LastWordIsTrue'
  <2>. SUFFICES ASSUME NEW h \in Handler, NEW v \in Universe, NEW d \in Cid, Listed(v, d)'
                PROVE  LastWord(h, v, d, sources[v][d])'
    BY DEF LastWordIsTrue
  <2>1. LastWord(h, v, d, sources[v][d])
    BY DEF SourcesInv, QueuesInv, LastWordIsTrue
  <2>2. LastWord(h, v, d, sources[v][d]) => \A i \in Words(h, v, d)' :
           (\A j \in Words(h, v, d)' : j <= i) => queue'[h][i].info = sources[v][d]
    BY DEF LastWord
  <2>3. sources'[v][d] = sources[v][d]
    OBVIOUS
  <2>. QED
    BY <2>1, <2>2, <2>3 DEF LastWord
<1>2. ToldIsTrue'
  BY DEF SourcesInv, ToldIsTrue, Busy
<1>3. ClosedHoldsNothing'
  BY DEF SourcesInv, ClosedHoldsNothing
<1>. QED
  BY <1>1, <1>2, <1>3

\* The loss of a source is announced before it is erased: from then on the
\* receiver counts it as no longer listed.
LEMMA LostSources ==
    ASSUME SourcesInv, NEW c \in Cid, EmitLost(c), UNCHANGED rlVars
    PROVE  QueuesInv' /\ ToldIsTrue' /\ ClosedHoldsNothing'
<1>. PICK u \in Universe : u = rx.u
  BY ReceiversFacts DEF EmitLost, SourcesInv, LevelsInv, Callback
<1>1. /\ UNCHANGED <<held, conn, main, sources, open, told>>
      /\ rx.pc = "losing" /\ rx'.pc = "erasing" /\ rx'.u = u /\ rx'.cid = c
      /\ Emit("sourceLost", u, c, None)
  BY QueueTypes DEF EmitLost, TypeOK, RxState, rlVars
<1>2. "sourceLost" \in Signal /\ c \in Cid \cup {None}
  BY DEF Signal
<1>3. /\ NamedSources' /\ SpeakersAreConnected' /\ UpdatesComeFirst'
      /\ \A h \in Handler, v \in Universe, d \in Cid :
            v # u \/ d # c => /\ Words(h, v, d)' = Words(h, v, d)
                              /\ \A val : LastWord(h, v, d, val) => LastWord(h, v, d, val)'
  BY <1>1, <1>2, EmitWords
<1>4. \A v \in Universe, d \in Cid : Listed(v, d)' => Listed(v, d) /\ (v # u \/ d # c)
  BY <1>1 DEF Listed, Erasing
<1>5. LastWordIsTrue' /\ ToldIsTrue' /\ ClosedHoldsNothing'
  BY <1>1, <1>3, <1>4, ToldStaysTrue
<1>. QED
  BY <1>3, <1>5 DEF QueuesInv

LEMMA EraseSources ==
    ASSUME SourcesInv, EraseSource, UNCHANGED rlVars
    PROVE  QueuesInv' /\ ToldIsTrue' /\ ClosedHoldsNothing'
<1>1. /\ UNCHANGED <<held, conn, main, queue, open, told>>
      /\ rx.pc = "erasing" /\ rx'.pc # "erasing"
      /\ sources' = [sources EXCEPT ![rx.u][rx.cid] = None]
  BY QueueTypes DEF EraseSource, TypeOK, RxState, RxIdle, rlVars
<1>2. \A v \in Universe, d \in Cid :
         Listed(v, d)' => Listed(v, d) /\ sources'[v][d] = sources[v][d]
  BY <1>1, QueueTypes DEF Listed, Erasing, TypeOK
<1>3. \A h \in Handler, v \in Universe, d \in Cid :
         /\ Words(h, v, d)' = Words(h, v, d)
         /\ \A val : LastWord(h, v, d, val) => LastWord(h, v, d, val)'
  BY <1>1 DEF Words, About, LastWord
<1>4. LastWordIsTrue' /\ ToldIsTrue' /\ ClosedHoldsNothing'
  BY <1>1, <1>2, <1>3, ToldStaysTrue
<1>. QED
  BY <1>1, <1>4 DEF SourcesInv, QueuesInv, NamedSources, SpeakersAreConnected, UpdatesComeFirst

LEMMA EmitDataSources ==
    ASSUME SourcesInv, EmitData, UNCHANGED rlVars
    PROVE  QueuesInv' /\ ToldIsTrue' /\ ClosedHoldsNothing'
<1>. PICK u \in Universe : u = rx.u
  BY ReceiversFacts DEF EmitData, SourcesInv, LevelsInv, Callback
<1>. PICK owner \in Cid \cup {None} : owner = OwnerCid(rx.u, rx.cid)
  BY QueueTypes DEF OwnerCid, TypeOK, RxState
<1>1. /\ UNCHANGED <<held, conn, main, sources, open, told>>
      /\ rx.pc = "owners" /\ rx'.pc = "idle"
      /\ Emit("dataChanged", u, owner, None)
  BY DEF EmitData, RxIdle, rlVars
<1>2. /\ NamedSources' /\ SpeakersAreConnected' /\ UpdatesComeFirst'
      /\ \A h \in Handler, v \in Universe, d \in Cid :
            /\ Words(h, v, d)' = Words(h, v, d)
            /\ \A val : LastWord(h, v, d, val) => LastWord(h, v, d, val)'
  BY <1>1, EmitWords DEF Signal
<1>3. \A v \in Universe, d \in Cid : Listed(v, d)' => Listed(v, d)
  BY <1>1 DEF Listed, Erasing
<1>4. LastWordIsTrue' /\ ToldIsTrue' /\ ClosedHoldsNothing'
  BY <1>1, <1>2, <1>3, ToldStaysTrue
<1>. QED
  BY <1>2, <1>4 DEF QueuesInv

LEMMA ReceivingSources ==
    ASSUME SourcesInv, Receiving
    PROVE  QueuesInv' /\ ToldIsTrue' /\ ClosedHoldsNothing'
<1>1. ASSUME \/ TryLockSources \/ UnlockSources
             \/ \E u \in Universe : HandleMergedData(u) \/ HandleSourcesLost(u)
      PROVE  QueuesInv' /\ ToldIsTrue' /\ ClosedHoldsNothing'
  <2>1. /\ UNCHANGED <<held, conn, main, queue, sources, open, told>>
        /\ rx.pc # "erasing" /\ rx'.pc # "erasing"
    BY <1>1, QueueTypes
       DEF Receiving, rlVars, TryLockSources, UnlockSources, HandleMergedData,
           HandleSourcesLost, TypeOK, RxState
  <2>. QED
    BY <2>1
       DEF SourcesInv, QueuesInv, NamedSources, SpeakersAreConnected, UpdatesComeFirst,
           LastWordIsTrue, LastWord, Words, About, Listed, Erasing, ToldIsTrue, Busy,
           ClosedHoldsNothing
<1>. QED
  BY <1>1, UpdateSources, LostSources, EraseSources, EmitDataSources
     DEF Receiving, RxSteps

LEMMA SourcesNext == SourcesInv /\ [ViewNext]_viewVars => SourcesInv'
<1>. SUFFICES ASSUME SourcesInv, [ViewNext]_viewVars PROVE SourcesInv'
  OBVIOUS
<1>1. LevelsInv'
  BY LevelsNext DEF SourcesInv, QueuesInv
<1>2. QueuesInv' /\ ToldIsTrue' /\ ClosedHoldsNothing'
  <2>1. CASE UNCHANGED viewVars
    BY <2>1
       DEF viewVars, vars, rlVars, SourcesInv, QueuesInv, NamedSources, SpeakersAreConnected,
           UpdatesComeFirst, LastWordIsTrue, LastWord, Words, About, Listed, Erasing,
           ToldIsTrue, Busy, ClosedHoldsNothing
  <2>2. CASE ViewNext
    BY <2>2, ConnectSources, RequestSources, RequestStepSources, RequestEndSources,
       FlickerFinderSources, SourceSources, FrameSources, ReceivingSources DEF ViewNext
  <2>. QED
    BY <2>1, <2>2
<1>. QED
  BY <1>1, <1>2 DEF SourcesInv

-----------------------------------------------------------------------------
(* The theorems.                                                            *)

LEMMA SourcesAlways == ViewSpec => []SourcesInv
  BY SourcesInit, SourcesNext, PTL DEF ViewSpec

\* Whatever the requests, the packets and their order, the handler's variables
\* and what its client is told keep their shape (handler/ReceiveLevels).
THEOREM ViewLevelsTypeCorrect == ViewSpec => []ViewTypeOK
<1>1. SourcesInv => ViewTypeOK
  BY DEF SourcesInv, LevelsInv
<1>. QED
  BY <1>1, SourcesAlways, PTL

\* What a client was sent since its last request adds up to what its handler
\* saw last (handler/ReceiveLevels, lastSeen_): in flicker finder mode, where
\* only differences are sent, over switches of mode, which take a reference,
\* and over requests for a universe, which clear lastSeen_.
THEOREM WhatIsSentAddsUp == ViewSpec => []DifferencesAddUp
<1>1. SourcesInv => DifferencesAddUp
  BY DEF SourcesInv, LevelsInv
<1>. QED
  BY <1>1, SourcesAlways, PTL

\* No source slips between the connect() calls of onChangeUniverse and the copy
\* of sources() that follows them, nor between an emission and the change of
\* sources_: what the receiver lists, the client was told or is about to be.
THEOREM SourcesAreNotMissed == ViewSpec => []SourcesReachClient
  BY SourcesInvImplies, SourcesAlways, PTL

-----------------------------------------------------------------------------
(* With a single client there is nobody to keep a receiver that it left.    *)

OneHandler == \A g, h \in Handler : g = h

\* Whatever is queued comes from the receiver that is watched, or from none.
QueuedAreWatched == \A h \in Handler : \A i \in DOMAIN queue[h] :
                       queue[h][i].from \in {held[h], None}

WatchedInv == SourcesInv /\ QueuedAreWatched

LEMMA ReleaseWatched ==
    ASSUME WatchedInv, OneHandler, NEW h \in Handler, NEW u \in Universe \cup {None},
           SetReceiver(h, u),
           queue'[h] = Orphan(queue[h], Dying(h, u)) \/ queue'[h] = <<>>
    PROVE  QueuedAreWatched'
<1>1. held'[h] = u
  BY QueueTypes DEF WatchedInv, SetReceiver, TypeOK
<1>2. ASSUME NEW i \in DOMAIN queue'[h] PROVE queue'[h][i].from \in {u, None}
  <2>1. queue'[h] = Orphan(queue[h], Dying(h, u))
    BY <1>2
  <2>2. /\ i \in DOMAIN queue[h]
        /\ queue'[h][i] = IF queue[h][i].from \in Dying(h, u)
                          THEN [queue[h][i] EXCEPT !.from = None] ELSE queue[h][i]
    BY <2>1 DEF Orphan
  <2>3. queue[h][i] \in Event /\ queue[h][i].from \in {held[h], None}
    BY <2>2, QueueTypes DEF WatchedInv, QueuedAreWatched
  <2>4. queue[h][i].from \in {u, None} \cup Dying(h, u)
    BY <2>3 DEF Dying, OneHandler, Event
  <2>. QED
    BY <2>2, <2>3, <2>4 DEF Event
<1>. QED
  BY <1>1, <1>2 DEF QueuedAreWatched, OneHandler

LEMMA EmitWatched ==
    ASSUME WatchedInv, OneHandler, NEW s \in Signal, NEW c, NEW info,
           rx.u \in Universe, Alive(rx.u), Emit(s, rx.u, c, info), UNCHANGED held
    PROVE  QueuedAreWatched'
<1>. PICK u \in Universe : u = rx.u
  OBVIOUS
<1>. SUFFICES ASSUME NEW h \in Handler, NEW i \in DOMAIN queue'[h]
              PROVE  queue'[h][i].from \in {held[h], None}
  BY DEF QueuedAreWatched
<1>. DEFINE e == [signal |-> s, from |-> u, cid |-> c, info |-> info]
            k == conn[h][u][s]
            n == Len(queue[h])
<1>1. queue'[h] = queue[h] \o [m \in 1..k |-> e]
  BY DEF Emit
<1>2. queue[h] \in Seq(Event) /\ k \in Nat /\ n \in Nat /\ DOMAIN queue[h] = 1..n
  BY QueueTypes DEF WatchedInv, TypeOK
<1>3. held[h] = u /\ e.from = u
  BY DEF OneHandler, Alive
<1>. HIDE DEF e, k
<1>4. /\ DOMAIN queue'[h] = 1..(n + k)
      /\ \A j \in 1..n : queue'[h][j] = queue[h][j]
      /\ \A j \in (n + 1)..(n + k) : queue'[h][j] = e
  BY <1>1, <1>2, AppendCopies
<1>5. i \in 1..n \/ i \in (n + 1)..(n + k)
  BY <1>2, <1>4
<1>. QED
  BY <1>2, <1>3, <1>4, <1>5 DEF WatchedInv, QueuedAreWatched

LEMMA DeliverWatched ==
    ASSUME WatchedInv, OneHandler, NEW h \in Handler, Deliver(h)
    PROVE  QueuedAreWatched'
<1>1. UNCHANGED held /\ queue[h] # <<>> /\ queue'[h] = Tail(queue[h])
  BY QueueTypes DEF WatchedInv, Deliver, TypeOK
<1>2. \A i \in DOMAIN queue'[h] : i + 1 \in DOMAIN queue[h] /\ queue'[h][i] = queue[h][i + 1]
  BY <1>1, QueueTypes DEF WatchedInv
<1>3. \A i \in DOMAIN queue'[h] : queue'[h][i].from \in {held[h], None}
  BY <1>2 DEF WatchedInv, QueuedAreWatched
<1>4. \A g \in Handler : g = h
  BY DEF OneHandler
<1>. QED
  BY <1>1, <1>3, <1>4 DEF QueuedAreWatched

LEMMA WatchedNext == OneHandler /\ WatchedInv /\ [ViewNext]_viewVars => WatchedInv'
<1>. SUFFICES ASSUME OneHandler, WatchedInv, [ViewNext]_viewVars PROVE WatchedInv'
  OBVIOUS
<1>1. SourcesInv'
  BY SourcesNext DEF WatchedInv
<1>2. QueuedAreWatched'
  <2>1. CASE UNCHANGED <<held, queue>>
    BY <2>1 DEF WatchedInv, QueuedAreWatched
  <2>2. ASSUME NEW h \in Handler,
               \/ OnDisconnect(h) \/ OnLeaveUniverse(h)
               \/ \E u \in Universe : OnChangeUniverse(h, u)
        PROVE  QueuedAreWatched'
    <3>1. PICK u \in Universe \cup {None} :
             /\ SetReceiver(h, u)
             /\ queue'[h] = Orphan(queue[h], Dying(h, u)) \/ queue'[h] = <<>>
      BY <2>2 DEF OnDisconnect, Close, OnLeaveUniverse, LeaveUniverse,
                  OnChangeUniverse, ChangeUniverse
    <3>. QED
      BY <3>1, ReleaseWatched
  <2>3. ASSUME NEW h \in Handler, OnSource(h) \/ OnMergedData(h) PROVE QueuedAreWatched'
    BY <2>3, DeliverWatched DEF OnSource, OnMergedData, OnMergedLevels, OnMergedFlicker
  <2>4. ASSUME NEW h \in Handler, OnConnect(h) \/ \E on \in BOOLEAN : OnChangeFlickerFinder(h, on)
        PROVE  QueuedAreWatched'
    BY <2>1, <2>4 DEF OnConnect, OnChangeFlickerFinder, vars
  <2>5. CASE OnChangeUniverseStep \/ OnChangeUniverseEnd
    BY <2>1, <2>5 DEF OnChangeUniverseStep, OnChangeUniverseEnd, Connect, LockSources,
                      SendKnownSources
  <2>6. CASE Receiving
    <3>1. rx.pc # "idle" => rx.u \in Universe /\ Alive(rx.u)
      BY ReceiversFacts DEF WatchedInv, SourcesInv, LevelsInv, Callback
    <3>2. ASSUME NEW s \in Signal, NEW c, NEW info, Emit(s, rx.u, c, info),
                 UNCHANGED held, rx.pc # "idle"
          PROVE  QueuedAreWatched'
      BY <3>1, <3>2, EmitWatched
    <3>3. CASE EmitData
      BY <3>2, <3>3 DEF EmitData, Signal
    <3>4. ASSUME NEW c \in Cid, UpdateSource(c) \/ EmitLost(c) PROVE QueuedAreWatched'
      BY <2>1, <3>2, <3>4 DEF UpdateSource, EmitLost, Signal
    <3>. QED
      BY <2>1, <2>6, <3>3, <3>4
         DEF Receiving, RxSteps, TryLockSources, UnlockSources, EraseSource,
             HandleMergedData, HandleSourcesLost
  <2>. QED
    BY <2>1, <2>2, <2>3, <2>4, <2>5, <2>6 DEF ViewNext, viewVars, vars
<1>. QED
  BY <1>1, <1>2 DEF WatchedInv

\* A single client is never shown the levels of a universe it has left: the
\* receiver of that universe ends with its only holder, and what it had queued
\* points nowhere.  (With a second client that stays it does not end, and the
\* connections that onChangeUniverse leaves behind go on delivering.)
THEOREM OneClientSeesWhatItWatches ==
    ASSUME OneHandler
    PROVE  ViewSpec => OnlyWatchedLevels
<1>1. ViewInit => WatchedInv
  BY SourcesInit DEF WatchedInv, QueuedAreWatched, ViewInit, Init
<1>2. WatchedInv /\ [ViewNext]_viewVars =>
         [\A h \in Handler : held[h] # None /\ OnMergedData(h) =>
             Head(queue[h]).from \in {held[h], None}]_viewVars
  <2>. SUFFICES ASSUME WatchedInv, NEW h \in Handler, OnMergedData(h)
                PROVE  Head(queue[h]).from \in {held[h], None}
    OBVIOUS
  <2>1. queue[h] # <<>>
    BY DEF OnMergedData, OnMergedLevels, OnMergedFlicker, Deliver
  <2>2. Head(queue[h]) = queue[h][1] /\ 1 \in DOMAIN queue[h]
    BY <2>1, QueueTypes DEF WatchedInv
  <2>. QED
    BY <2>2 DEF WatchedInv, QueuedAreWatched
<1>3. WatchedInv /\ [ViewNext]_viewVars => WatchedInv'
  BY WatchedNext
<1>. QED
  BY <1>1, <1>2, <1>3, PTL DEF ViewSpec, OnlyWatchedLevels

-----------------------------------------------------------------------------
(* The pages: every step of a page and its handler is one of the handler.   *)

LEMMA WireFacts ==
    ASSUME PageTypeOK, NEW h \in Handler
    PROVE  /\ wire[h] \in Seq(PageMessage) /\ Len(wire[h]) \in Nat
           /\ DOMAIN wire[h] = 1..Len(wire[h])
           /\ asked[h] \in Seq(Request) /\ Len(asked[h]) \in Nat
           /\ DOMAIN asked[h] = 1..Len(asked[h])
           /\ page[h] \in PageState
  BY DEF PageTypeOK

\* A request taken from the wire is one a page can send.
LEMMA RequestTaken ==
    ASSUME PageTypeOK, NEW h \in Handler, TakeRequest(h)
    PROVE  \/ \E u \in Universe : Head(asked[h]).ask = "universe" /\ OnChangeUniverse(h, u)
           \/ Head(asked[h]).ask = "universe" /\ OnLeaveUniverse(h)
           \/ \E on \in BOOLEAN : /\ Head(asked[h]).ask = "flicker_finder"
                                  /\ OnChangeFlickerFinder(h, on)
<1>1. Head(asked[h]) \in Request
  BY WireFacts DEF TakeRequest
<1>. QED
  BY <1>1 DEF Request, TakeRequest

LEMMA ViewStep == PageTypeOK /\ [PageNext]_pairVars => [ViewNext]_viewVars
<1>. SUFFICES ASSUME PageTypeOK, [PageNext]_pairVars PROVE [ViewNext]_viewVars
  OBVIOUS
<1>1. CASE UNCHANGED pairVars
  BY <1>1 DEF pairVars
<1>2. ASSUME NEW h \in Handler,
             \/ PageConnects(h) \/ PageDisconnects(h) \/ ToggleFinder(h) \/ PageReceives(h)
             \/ SendSource(h) \/ SendLevels(h) \/ \E u \in Universe : ChooseUniverse(h, u)
      PROVE  [ViewNext]_viewVars
  BY <1>2 DEF PageConnects, PageDisconnects, ToggleFinder, PageReceives, SendSource, SendLevels,
              ChooseUniverse, ViewNext
<1>3. ASSUME NEW h \in Handler, TakeRequest(h) PROVE ViewNext
  BY <1>3, RequestTaken DEF ViewNext
<1>4. CASE RequestGoesOn \/ RequestEnds \/ ReceiveThread
  BY <1>4 DEF RequestGoesOn, RequestEnds, ReceiveThread, ViewNext
<1>. QED
  BY <1>1, <1>2, <1>3, <1>4 DEF PageNext

-----------------------------------------------------------------------------
(* What is under way.  Shows(w, p, v): a page that shows level p shows v    *)
(* once it received the messages w.                                         *)

LevelsOf(w) == {i \in DOMAIN w : w[i].kind # "source"}

Shows(w, p, v) ==
    /\ LevelsOf(w) = {} => p = v
    /\ \A i \in LevelsOf(w) : (\A j \in LevelsOf(w) : j <= i) => w[i].level = v

LEMMA ShownIsLast ==
    ASSUME PageTypeOK, NEW h \in Handler, NEW v, Shows(wire[h], page[h].level, v)
    PROVE  WillShow(h) = v
<1>1. Levels(h) = LevelsOf(wire[h])
  BY DEF Levels, LevelsOf
<1>2. CASE Levels(h) = {}
  BY <1>1, <1>2 DEF WillShow, Shows
<1>3. CASE Levels(h) # {}
  <2>1. Levels(h) \in SUBSET (1..Len(wire[h])) /\ Len(wire[h]) \in Nat
    BY WireFacts DEF Levels
  <2>2. \E k \in Levels(h) : \A j \in Levels(h) : j <= k
    BY <1>3, <2>1, Greatest
  <2>3. PICK k \in Levels(h) :
           /\ \A j \in Levels(h) : j <= k
           /\ k = CHOOSE i \in Levels(h) : \A j \in Levels(h) : j <= i
    BY <2>2
  <2>4. wire[h][k].level = v
    BY <1>1, <2>3 DEF Shows
  <2>. QED
    BY <1>3, <2>3, <2>4 DEF WillShow
<1>. QED
  BY <1>2, <1>3

\* A message is received: from now on the page shows what it carries, if it
\* carries a level.
LEMMA ReceiveOne ==
    ASSUME NEW S, NEW w \in Seq(S), w # <<>>, NEW p, NEW q, NEW v, Shows(w, p, v),
           q = IF Head(w).kind = "source" THEN p ELSE Head(w).level
    PROVE  Shows(Tail(w), q, v)
<1>. DEFINE n == Len(w)
            t == Tail(w)
<1>1. /\ n \in Nat /\ n >= 1 /\ DOMAIN w = 1..n /\ Head(w) = w[1]
      /\ DOMAIN t = 1..(n - 1) /\ \A i \in 1..(n - 1) : t[i] = w[i + 1]
  OBVIOUS
<1>. HIDE DEF t
<1>2. \A i \in LevelsOf(t) : i \in 1..(n - 1) /\ i + 1 \in LevelsOf(w)
  BY <1>1 DEF LevelsOf
<1>3. \A k \in LevelsOf(w) : k = 1 \/ (k - 1 \in LevelsOf(t) /\ k \in 1..n)
  BY <1>1 DEF LevelsOf
<1>4. ASSUME LevelsOf(t) = {} PROVE q = v
  <2>1. \A k \in LevelsOf(w) : k = 1
    BY <1>3, <1>4
  <2>2. CASE Head(w).kind = "source"
    <3>1. 1 \notin LevelsOf(w)
      BY <1>1, <2>2 DEF LevelsOf
    <3>. QED
      BY <2>1, <2>2, <3>1 DEF Shows
  <2>3. CASE Head(w).kind # "source"
    <3>1. 1 \in LevelsOf(w)
      BY <1>1, <2>3 DEF LevelsOf
    <3>2. \A j \in LevelsOf(w) : j <= 1
      BY <2>1
    <3>. QED
      BY <1>1, <2>3, <3>1, <3>2 DEF Shows
  <2>. QED
    BY <2>2, <2>3
<1>5. ASSUME NEW i \in LevelsOf(t), \A j \in LevelsOf(t) : j <= i PROVE t[i].level = v
  <2>1. i \in 1..(n - 1) /\ i + 1 \in LevelsOf(w)
    BY <1>2
  <2>2. \A k \in LevelsOf(w) : k <= i + 1
    <3>. SUFFICES ASSUME NEW k \in LevelsOf(w) PROVE k <= i + 1
      OBVIOUS
    <3>1. k = 1 \/ (k - 1 <= i /\ k \in 1..n)
      BY <1>3, <1>5
    <3>. QED
      BY <1>1, <2>1, <3>1
  <2>. QED
    BY <1>1, <2>1, <2>2 DEF Shows
<1>. QED
  BY <1>4, <1>5 DEF Shows, t

\* A message is sent: it is the last one under way.
LEMMA SendOne ==
    ASSUME NEW S, NEW w \in Seq(S), NEW msg \in S, NEW p, NEW v,
           IF msg.kind = "source" THEN Shows(w, p, v) ELSE msg.level = v
    PROVE  Shows(Append(w, msg), p, v)
<1>. DEFINE n == Len(w)
            t == Append(w, msg)
<1>1. /\ n \in Nat /\ DOMAIN w = 1..n /\ DOMAIN t = 1..(n + 1)
      /\ t[n + 1] = msg /\ \A i \in 1..n : t[i] = w[i]
  OBVIOUS
<1>. HIDE DEF t
<1>2. CASE msg.kind = "source"
  <2>1. LevelsOf(t) = LevelsOf(w)
    BY <1>1, <1>2 DEF LevelsOf
  <2>2. \A i \in LevelsOf(w) : t[i] = w[i]
    BY <1>1 DEF LevelsOf
  <2>. QED
    BY <1>2, <2>1, <2>2 DEF Shows, t
<1>3. CASE msg.kind # "source"
  <2>1. n + 1 \in LevelsOf(t) /\ \A i \in LevelsOf(t) : i \in 1..(n + 1)
    BY <1>1, <1>3 DEF LevelsOf
  <2>2. ASSUME NEW i \in LevelsOf(t), \A j \in LevelsOf(t) : j <= i PROVE i = n + 1
    BY <1>1, <2>1, <2>2
  <2>. QED
    BY <1>1, <1>3, <2>1, <2>2 DEF Shows, t
<1>. QED
  BY <1>2, <1>3

\* A request is sent, or taken: which are under way then.
LEMMA AskOne ==
    ASSUME NEW q \in Seq(Request), NEW req \in Request
    PROVE  /\ Append(q, req) \in Seq(Request)
           /\ (\E i \in DOMAIN Append(q, req) : Append(q, req)[i].ask = "universe")
              <=> (req.ask = "universe" \/ \E i \in DOMAIN q : q[i].ask = "universe")
<1>. DEFINE n == Len(q)
            t == Append(q, req)
<1>1. /\ n \in Nat /\ DOMAIN q = 1..n /\ DOMAIN t = 1..(n + 1) /\ t \in Seq(Request)
      /\ t[n + 1] = req /\ \A i \in 1..n : t[i] = q[i]
  OBVIOUS
<1>2. n + 1 \in DOMAIN t /\ \A i \in DOMAIN t : i = n + 1 \/ i \in DOMAIN q
  BY <1>1
<1>3. \A i \in DOMAIN q : i \in DOMAIN t /\ t[i] = q[i]
  BY <1>1
<1>. HIDE DEF t, n
<1>. QED
  BY <1>1, <1>2, <1>3 DEF t

LEMMA TakeOne ==
    ASSUME NEW q \in Seq(Request), q # <<>>
    PROVE  /\ Tail(q) \in Seq(Request)
           /\ (\E i \in DOMAIN q : q[i].ask = "universe")
              => (Head(q).ask = "universe" \/ \E i \in DOMAIN Tail(q) : Tail(q)[i].ask = "universe")
<1>. DEFINE n == Len(q)
            t == Tail(q)
<1>1. /\ n \in Nat /\ n >= 1 /\ DOMAIN q = 1..n /\ DOMAIN t = 1..(n - 1) /\ t \in Seq(Request)
      /\ q[1] = Head(q) /\ \A i \in 1..(n - 1) : t[i] = q[i + 1]
  OBVIOUS
<1>. HIDE DEF t
<1>2. ASSUME NEW i \in DOMAIN q, i # 1 PROVE i - 1 \in DOMAIN t /\ t[i - 1] = q[i]
  BY <1>1, <1>2
<1>. QED
  BY <1>1, <1>2 DEF t

-----------------------------------------------------------------------------
(* A handler that does not exist is connected to nothing and is sent none.  *)

ClosedIsSilent ==
    \A h \in Handler : ~open[h] =>
       queue[h] = <<>> /\ \A u \in Universe, s \in Signal : conn[h][u][s] = 0

LEMMA ReleaseSilent ==
    ASSUME SourcesInv, ClosedIsSilent, NEW g \in Handler, ~open[g], NEW gone,
           queue'[g] = Orphan(queue[g], gone), conn'[g] = Without(conn[g], gone, NotConnected)
    PROVE  queue'[g] = <<>> /\ \A u \in Universe, s \in Signal : conn'[g][u][s] = 0
<1>1. queue[g] = <<>>
  BY DEF ClosedIsSilent
<1>2. queue'[g] = <<>>
  <2>1. DOMAIN queue[g] = {}
    BY <1>1
  <2>. QED
    BY <2>1 DEF Orphan
<1>. QED
  BY <1>2 DEF ClosedIsSilent, Without, NotConnected

LEMMA EmitSilent ==
    ASSUME SourcesInv, ClosedIsSilent, NEW g \in Handler, ~open[g], NEW s \in Signal, NEW c, NEW info,
           rx.u \in Universe, Emit(s, rx.u, c, info)
    PROVE  queue'[g] = <<>>
<1>. PICK u \in Universe : u = rx.u
  OBVIOUS
<1>. DEFINE e == [signal |-> s, from |-> u, cid |-> c, info |-> info]
<1>1. queue[g] = <<>> /\ conn[g][u][s] = 0
  BY DEF ClosedIsSilent
<1>2. queue'[g] = queue[g] \o [n \in 1..0 |-> e]
  BY <1>1 DEF Emit
<1>. HIDE DEF e
<1>3. [n \in 1..0 |-> e] = <<>>
  OBVIOUS
<1>. QED
  BY <1>1, <1>2, <1>3

LEMMA SilentNext ==
    ASSUME SourcesInv, ClosedIsSilent, [ViewNext]_viewVars
    PROVE  ClosedIsSilent'
<1>. SUFFICES ASSUME NEW g \in Handler, ~open'[g]
              PROVE  queue'[g] = <<>> /\ \A u \in Universe, s \in Signal : conn'[g][u][s] = 0
  BY DEF ClosedIsSilent
<1>1. CASE UNCHANGED <<open, queue, conn>>
  BY <1>1 DEF ClosedIsSilent
<1>2. ASSUME NEW h \in Handler,
             OnConnect(h) \/ \E on \in BOOLEAN : OnChangeFlickerFinder(h, on)
      PROVE  queue'[g] = <<>> /\ \A u \in Universe, s \in Signal : conn'[g][u][s] = 0
  <2>1. ~open[g] /\ UNCHANGED <<queue, conn>>
    BY <1>2, QueueTypes DEF OnConnect, OnChangeFlickerFinder, ViewTypeOK, vars
  <2>. QED
    BY <2>1 DEF ClosedIsSilent
<1>3. ASSUME NEW h \in Handler, OnDisconnect(h)
      PROVE  queue'[g] = <<>> /\ \A u \in Universe, s \in Signal : conn'[g][u][s] = 0
  <2>1. CASE g = h
    BY <1>3, <2>1 DEF OnDisconnect, Close, NotConnected
  <2>2. CASE g # h
    <3>1. ~open[g]
      BY <1>3, <2>2, QueueTypes DEF OnDisconnect, ViewTypeOK
    <3>2. queue'[g] = Orphan(queue[g], Dying(h, None))
          /\ conn'[g] = Without(conn[g], Dying(h, None), NotConnected)
      BY <1>3, <2>2 DEF OnDisconnect, Close
    <3>. QED
      BY <3>1, <3>2, ReleaseSilent
  <2>. QED
    BY <2>1, <2>2
<1>4. ASSUME NEW h \in Handler, OnLeaveUniverse(h) \/ \E u \in Universe : OnChangeUniverse(h, u)
      PROVE  queue'[g] = <<>> /\ \A u \in Universe, s \in Signal : conn'[g][u][s] = 0
  <2>1. ~open[g]
    BY <1>4 DEF OnLeaveUniverse, OnChangeUniverse
  <2>2. \E gone : /\ queue'[g] = Orphan(queue[g], gone)
                  /\ conn'[g] = Without(conn[g], gone, NotConnected)
    <3>1. CASE OnLeaveUniverse(h)
      <4>1. /\ queue'[g] = Orphan(queue[g], Dying(h, None))
            /\ conn'[g] = Without(conn[g], Dying(h, None), NotConnected)
        BY <3>1 DEF OnLeaveUniverse, LeaveUniverse
      <4>. QED
        BY <4>1
    <3>2. ASSUME NEW u \in Universe, OnChangeUniverse(h, u)
          PROVE  \E gone : /\ queue'[g] = Orphan(queue[g], gone)
                           /\ conn'[g] = Without(conn[g], gone, NotConnected)
      <4>1. /\ queue'[g] = Orphan(queue[g], Dying(h, u))
            /\ conn'[g] = Without(conn[g], Dying(h, u), NotConnected)
        BY <3>2 DEF OnChangeUniverse, ChangeUniverse
      <4>. QED
        BY <4>1
    <3>. QED
      BY <1>4, <3>1, <3>2
  <2>. QED
    BY <2>1, <2>2, ReleaseSilent
<1>5. CASE OnChangeUniverseStep
  <2>1. ~open[g] /\ queue' = queue
    BY <1>5 DEF OnChangeUniverseStep, Connect, LockSources, rlVars
  <2>2. main.h # g
    BY <1>5, <2>1, ReceiversFacts, NoneIsFresh
       DEF OnChangeUniverseStep, Connect, LockSources, Signal, SourcesInv, LevelsInv,
           RequestIsHeld, ClosedHoldsNothing
  <2>3. conn'[g] = conn[g]
    BY <1>5, <2>2, QueueTypes DEF OnChangeUniverseStep, Connect, LockSources, TypeOK
  <2>. QED
    BY <2>1, <2>3 DEF ClosedIsSilent
<1>6. CASE OnChangeUniverseEnd
  BY <1>1, <1>6 DEF OnChangeUniverseEnd, SendKnownSources
<1>7. ASSUME NEW h \in Handler, OnSource(h) \/ OnMergedData(h)
      PROVE  queue'[g] = <<>> /\ \A u \in Universe, s \in Signal : conn'[g][u][s] = 0
  <2>1. Deliver(h) /\ ~open[g]
    BY <1>7 DEF OnSource, OnMergedData, OnMergedLevels, OnMergedFlicker
  <2>2. queue[g] = <<>> /\ g # h
    BY <2>1 DEF Deliver, ClosedIsSilent
  <2>3. queue'[g] = queue[g] /\ conn' = conn
    BY <2>1, <2>2, QueueTypes DEF Deliver, TypeOK
  <2>. QED
    BY <2>1, <2>3 DEF ClosedIsSilent
<1>8. CASE Receiving
  <2>1. ~open[g] /\ (rx.pc # "idle" => rx.u \in Universe)
    BY <1>8, ReceiversFacts DEF Receiving, rlVars, SourcesInv, LevelsInv, Callback
  <2>2. conn' = conn
    BY <1>8 DEF Receiving, RxSteps, TryLockSources, UnlockSources, EmitData, EraseSource,
                UpdateSource, EmitLost, HandleMergedData, HandleSourcesLost
  <2>3. queue'[g] = <<>>
    <3>1. CASE UNCHANGED queue
      BY <2>1, <3>1 DEF ClosedIsSilent
    <3>2. CASE EmitData
      BY <2>1, <3>2, EmitSilent DEF EmitData, Signal
    <3>3. ASSUME NEW c \in Cid, UpdateSource(c) \/ EmitLost(c) PROVE queue'[g] = <<>>
      BY <2>1, <3>1, <3>3, EmitSilent DEF UpdateSource, EmitLost, Signal
    <3>. QED
      BY <1>8, <3>1, <3>2, <3>3
         DEF Receiving, RxSteps, TryLockSources, UnlockSources, EraseSource,
             HandleMergedData, HandleSourcesLost
  <2>. QED
    BY <2>1, <2>2, <2>3 DEF ClosedIsSilent
<1>. QED
  BY <1>1, <1>2, <1>3, <1>4, <1>5, <1>6, <1>7, <1>8 DEF ViewNext, viewVars, vars, rlVars

-----------------------------------------------------------------------------
(* The inductive invariant of the pages.                                    *)

PagesAddUp ==
    \A h \in Handler : open[h] /\ ~UniverseAsked(h) /\ told[h].level # None
                          => Shows(wire[h], page[h].level, told[h].level)

PageInv == SourcesInv /\ ClosedIsSilent /\ PageTypeOK /\ PagesAddUp

LEMMA PageInitInv == PageInit => PageInv
<1>. SUFFICES ASSUME PageInit PROVE PageInv
  OBVIOUS
<1>. USE DEF PageInit
<1>1. SourcesInv
  BY SourcesInit
<1>2. PageTypeOK
  <2>1. FreshPage \in PageState
    BY LevelHasZero DEF FreshPage, PageState
  <2>. QED
    BY <2>1 DEF PageTypeOK
<1>3. PagesAddUp
  BY DEF PagesAddUp, ViewInit
<1>4. ClosedIsSilent
  BY DEF ClosedIsSilent, ViewInit, Init, NotConnected
<1>. QED
  BY <1>1, <1>2, <1>3, <1>4 DEF PageInv

\* A step of one page: the others, and what they are told, stay.
OtherPagesStay(h) ==
    \A g \in Handler \ {h} :
       /\ wire'[g] = wire[g] /\ asked'[g] = asked[g] /\ page'[g] = page[g]
       /\ told'[g].level = told[g].level /\ open'[g] = open[g]

LEMMA PageStepOfOne ==
    ASSUME PageInv, NEW h \in Handler, OtherPagesStay(h),
           (open'[h] /\ ~UniverseAsked(h)' /\ told'[h].level # None)
              => Shows(wire'[h], page'[h].level, told'[h].level)
    PROVE  PagesAddUp'
<1>. SUFFICES ASSUME NEW g \in Handler, open'[g], ~UniverseAsked(g)', told'[g].level # None
              PROVE  Shows(wire'[g], page'[g].level, told'[g].level)
  BY DEF PagesAddUp, Shows, LevelsOf
<1>1. CASE g = h
  BY <1>1
<1>2. CASE g # h
  <2>1. /\ wire'[g] = wire[g] /\ asked'[g] = asked[g] /\ page'[g] = page[g]
        /\ told'[g].level = told[g].level /\ open'[g] = open[g]
    BY <1>2 DEF OtherPagesStay
  <2>2. UniverseAsked(g)' <=> UniverseAsked(g)
    BY <2>1 DEF UniverseAsked
  <2>3. Shows(wire[g], page[g].level, told[g].level)
    BY <2>1, <2>2 DEF PageInv, PagesAddUp
  <2>. QED
    BY <2>1, <2>3
<1>. QED
  BY <1>1, <1>2

LEMMA ConnectPage ==
    ASSUME PageInv, NEW h \in Handler, PageConnects(h)
    PROVE  PageTypeOK' /\ PagesAddUp'
<1>. USE DEF PageInv, PageConnects, OnConnect
<1>. DEFINE q == <<AskUniverse(page[h].universe), AskFinder(page[h].finder)>>
<1>1. q \in Seq(Request)
  <2>1. page[h] \in PageState
    BY WireFacts
  <2>2. AskUniverse(page[h].universe) \in Request /\ AskFinder(page[h].finder) \in Request
    BY <2>1 DEF AskUniverse, AskFinder, Request, PageState
  <2>. QED
    BY <2>2
<1>. HIDE DEF q
<1>2. asked' = [asked EXCEPT ![h] = q] /\ UNCHANGED <<wire, page>>
  BY DEF q
<1>3. open'[h] /\ \A g \in Handler \ {h} : open'[g] = open[g]
  BY QueueTypes DEF ViewTypeOK
<1>4. PageTypeOK'
  BY <1>1, <1>2, <1>3 DEF PageTypeOK
<1>5. told'[h].level = None /\ \A g \in Handler \ {h} : told'[g] = told[g]
  BY QueueTypes DEF ViewTypeOK, NothingTold
<1>6. OtherPagesStay(h)
  BY <1>2, <1>3, <1>5 DEF OtherPagesStay, PageTypeOK
<1>. QED
  BY <1>4, <1>5, <1>6, PageStepOfOne

LEMMA DisconnectPage ==
    ASSUME PageInv, NEW h \in Handler, PageDisconnects(h)
    PROVE  PageTypeOK' /\ PagesAddUp'
<1>. USE DEF PageInv, PageDisconnects, OnDisconnect
<1>1. ~open'[h] /\ \A g \in Handler \ {h} : open'[g] = open[g]
  BY QueueTypes DEF ViewTypeOK
<1>2. <<>> \in Seq(Request) /\ <<>> \in Seq(PageMessage)
  OBVIOUS
<1>3. PageTypeOK'
  BY <1>1, <1>2 DEF PageTypeOK
<1>4. OtherPagesStay(h)
  BY <1>1 DEF OtherPagesStay, PageTypeOK
<1>. QED
  BY <1>1, <1>3, <1>4, PageStepOfOne

LEMMA UserPage ==
    ASSUME PageInv, NEW h \in Handler,
           ToggleFinder(h) \/ \E u \in Universe : ChooseUniverse(h, u)
    PROVE  PageTypeOK' /\ PagesAddUp'
<1>. USE DEF PageInv
<1>1. page[h] \in PageState /\ asked[h] \in Seq(Request) /\ open[h]
  BY WireFacts DEF ToggleFinder, ChooseUniverse, UserActs
<1>2. UNCHANGED <<viewVars, wire>> /\ UNCHANGED <<open, told>>
  BY DEF ToggleFinder, ChooseUniverse, viewVars, rlVars
<1>3. PICK req \in Request, p \in PageState :
         /\ asked' = [asked EXCEPT ![h] = Append(@, req)]
         /\ page' = [page EXCEPT ![h] = p]
         /\ req.ask = "universe" \/ p.level = page[h].level
  <2>1. CASE ToggleFinder(h)
    <3>. DEFINE req == AskFinder(~page[h].finder)
                p == [page[h] EXCEPT !.finder = ~page[h].finder]
    <3>1. req \in Request /\ p \in PageState /\ p.level = page[h].level
      BY <1>1 DEF AskFinder, Request, PageState
    <3>2. asked' = [asked EXCEPT ![h] = Append(@, req)] /\ page' = [page EXCEPT ![h] = p]
      BY <2>1 DEF ToggleFinder, PageTypeOK
    <3>. QED
      BY <3>1, <3>2
  <2>2. ASSUME NEW u \in Universe, ChooseUniverse(h, u)
        PROVE  \E req \in Request, p \in PageState :
                  /\ asked' = [asked EXCEPT ![h] = Append(@, req)]
                  /\ page' = [page EXCEPT ![h] = p]
                  /\ req.ask = "universe" \/ p.level = page[h].level
    <3>. DEFINE req == AskUniverse(u)
                p == [FreshPage EXCEPT !.universe = u, !.finder = page[h].finder]
    <3>1. req \in Request /\ req.ask = "universe"
      BY DEF AskUniverse, Request
    <3>2. p \in PageState
      BY <1>1, LevelHasZero DEF FreshPage, PageState
    <3>3. asked' = [asked EXCEPT ![h] = Append(@, req)] /\ page' = [page EXCEPT ![h] = p]
      BY <2>2 DEF ChooseUniverse
    <3>. QED
      BY <3>1, <3>2, <3>3
  <2>. QED
    BY <2>1, <2>2
<1>4. Append(asked[h], req) \in Seq(Request)
  BY <1>1, AskOne
<1>5. PageTypeOK'
  BY <1>1, <1>2, <1>3, <1>4 DEF PageTypeOK
<1>6. asked'[h] = Append(asked[h], req) /\ page'[h] = p /\ wire'[h] = wire[h]
  BY <1>2, <1>3 DEF PageTypeOK
<1>7. UniverseAsked(h)' <=> req.ask = "universe" \/ UniverseAsked(h)
  BY <1>1, <1>6, AskOne DEF UniverseAsked
<1>8. OtherPagesStay(h)
  BY <1>2, <1>3 DEF OtherPagesStay, PageTypeOK
<1>9. (open'[h] /\ ~UniverseAsked(h)' /\ told'[h].level # None)
         => Shows(wire'[h], page'[h].level, told'[h].level)
  BY <1>2, <1>3, <1>6, <1>7 DEF PagesAddUp
<1>. QED
  BY <1>5, <1>8, <1>9, PageStepOfOne

LEMMA ReceivePage ==
    ASSUME PageInv, NEW h \in Handler, PageReceives(h)
    PROVE  PageTypeOK' /\ PagesAddUp'
<1>. USE DEF PageInv
<1>. DEFINE msg == Head(wire[h])
            w == Tail(wire[h])
<1>1. /\ wire[h] \in Seq(PageMessage) /\ wire[h] # <<>> /\ page[h] \in PageState
      /\ UNCHANGED <<asked, open, told>> /\ wire' = [wire EXCEPT ![h] = w]
  BY WireFacts DEF PageReceives, viewVars, rlVars
<1>2. msg \in PageMessage /\ w \in Seq(PageMessage)
  BY <1>1
<1>3. open[h]
  BY <1>1 DEF PageTypeOK
<1>4. PICK p \in PageState :
         /\ page' = [page EXCEPT ![h] = p]
         /\ p.level = IF msg.kind = "source" THEN page[h].level ELSE msg.level
  <2>1. CASE msg.kind = "source" /\ ApplySource(h, msg)
    <3>1. msg.cid \in Cid /\ msg.info \in Info \cup {None}
      BY <1>2, <2>1 DEF PageMessage
    <3>. DEFINE p == [page[h] EXCEPT !.src[msg.cid] = msg.info]
    <3>2. p \in PageState /\ p.level = page[h].level
      BY <1>1, <3>1 DEF PageState
    <3>3. page' = [page EXCEPT ![h] = p]
      BY <2>1 DEF ApplySource
    <3>. QED
      BY <2>1, <3>2, <3>3
  <2>2. CASE msg.kind # "source" /\ (ApplyLevels(h, msg) \/ ApplyFlicker(h, msg))
    <3>1. msg.level \in Level
      BY <1>2, <2>2 DEF PageMessage
    <3>. DEFINE p == [page[h] EXCEPT !.level = msg.level]
    <3>2. p \in PageState /\ p.level = msg.level
      BY <1>1, <3>1 DEF PageState
    <3>3. page' = [page EXCEPT ![h] = p]
      BY <2>2 DEF ApplyLevels, ApplyFlicker
    <3>4. p.level = IF msg.kind = "source" THEN page[h].level ELSE msg.level
      BY <2>2, <3>2
    <3>. HIDE DEF p, msg
    <3>. QED
      BY <3>2, <3>3, <3>4
  <2>. QED
    BY <2>1, <2>2 DEF PageReceives
<1>. HIDE DEF w
<1>5. PageTypeOK'
  BY <1>1, <1>2, <1>3, <1>4 DEF PageTypeOK
<1>6. wire'[h] = w /\ page'[h] = p
  BY <1>1, <1>4 DEF PageTypeOK
<1>7. UniverseAsked(h)' <=> UniverseAsked(h)
  BY <1>1 DEF UniverseAsked
<1>8. OtherPagesStay(h)
  BY <1>1, <1>4 DEF OtherPagesStay, PageTypeOK
<1>9. (open'[h] /\ ~UniverseAsked(h)' /\ told'[h].level # None)
         => Shows(wire'[h], page'[h].level, told'[h].level)
  <2>. SUFFICES ASSUME open'[h], ~UniverseAsked(h)', told'[h].level # None
                PROVE  Shows(w, p.level, told[h].level)
    BY <1>1, <1>6
  <2>1. Shows(wire[h], page[h].level, told[h].level)
    BY <1>1, <1>7 DEF PagesAddUp
  <2>. QED
    BY <1>1, <1>4, <2>1, ReceiveOne DEF w
<1>. QED
  BY <1>5, <1>8, <1>9, PageStepOfOne

LEMMA TakePage ==
    ASSUME PageInv, NEW h \in Handler, TakeRequest(h)
    PROVE  PageTypeOK' /\ PagesAddUp'
<1>. USE DEF PageInv
<1>1. /\ asked[h] \in Seq(Request) /\ asked[h] # <<>>
      /\ asked' = [asked EXCEPT ![h] = Tail(asked[h])] /\ UNCHANGED <<wire, page>>
  BY WireFacts DEF TakeRequest, PageTypeOK
<1>2. UNCHANGED open
  BY RequestTaken DEF OnChangeUniverse, OnLeaveUniverse, OnChangeFlickerFinder
<1>3. open[h]
  BY <1>1 DEF PageTypeOK
<1>4. Tail(asked[h]) \in Seq(Request)
  BY <1>1, TakeOne
<1>5. PageTypeOK'
  BY <1>1, <1>2, <1>3, <1>4 DEF PageTypeOK
<1>6. asked'[h] = Tail(asked[h])
  BY <1>1 DEF PageTypeOK
<1>7. Head(asked[h]).ask # "universe" => (UniverseAsked(h) => UniverseAsked(h)')
  BY <1>1, <1>6, TakeOne DEF UniverseAsked
<1>8. /\ \A g \in Handler \ {h} : told'[g].level = told[g].level
      /\ \/ told'[h].level = None
         \/ told'[h].level = told[h].level /\ Head(asked[h]).ask # "universe"
  <2>1. told \in [Handler -> ClientState] /\ NothingTold.level = None
    BY QueueTypes DEF ViewTypeOK, NothingTold
  <2>2. CASE \/ OnLeaveUniverse(h) \/ \E u \in Universe : OnChangeUniverse(h, u)
    <3>1. told' = [told EXCEPT ![h] = NothingTold]
      BY <2>2 DEF OnChangeUniverse, OnLeaveUniverse
    <3>. QED
      BY <2>1, <3>1
  <2>3. CASE \E on \in BOOLEAN : Head(asked[h]).ask = "flicker_finder" /\ OnChangeFlickerFinder(h, on)
    <3>1. told' = [told EXCEPT ![h].diff = None]
      BY <2>3 DEF OnChangeFlickerFinder
    <3>2. \A g \in Handler : told'[g].level = told[g].level
      BY <2>1, <3>1 DEF ClientState
    <3>. QED
      BY <2>3, <3>2
  <2>. QED
    BY <2>2, <2>3, RequestTaken
<1>9. OtherPagesStay(h)
  BY <1>1, <1>2, <1>8 DEF OtherPagesStay, PageTypeOK
<1>10. (open'[h] /\ ~UniverseAsked(h)' /\ told'[h].level # None)
          => Shows(wire'[h], page'[h].level, told'[h].level)
  BY <1>1, <1>2, <1>7, <1>8 DEF PagesAddUp
<1>. QED
  BY <1>5, <1>9, <1>10, PageStepOfOne

\* The handler sends something to one client, or nothing to anyone.
LEMMA SendPage ==
    ASSUME PageInv, NEW h \in Handler, NEW msg \in PageMessage,
           wire' = [wire EXCEPT ![h] = Append(wire[h], msg)],
           UNCHANGED <<asked, page, open>>, open[h],
           \A g \in Handler \ {h} : told'[g].level = told[g].level,
           IF msg.kind = "source" THEN told'[h].level = told[h].level
           ELSE told'[h].level = msg.level
    PROVE  PageTypeOK' /\ PagesAddUp'
<1>. USE DEF PageInv
<1>1. wire[h] \in Seq(PageMessage)
  BY WireFacts
<1>2. Append(wire[h], msg) \in Seq(PageMessage)
  BY <1>1
<1>3. PageTypeOK'
  BY <1>2 DEF PageTypeOK
<1>4. wire'[h] = Append(wire[h], msg)
  BY DEF PageTypeOK
<1>5. UniverseAsked(h)' <=> UniverseAsked(h)
  BY DEF UniverseAsked
<1>6. OtherPagesStay(h)
  BY DEF OtherPagesStay, PageTypeOK
<1>7. (open'[h] /\ ~UniverseAsked(h)' /\ told'[h].level # None)
         => Shows(wire'[h], page'[h].level, told'[h].level)
  <2>. SUFFICES ASSUME ~UniverseAsked(h), told'[h].level # None
                PROVE  Shows(Append(wire[h], msg), page[h].level, told'[h].level)
    BY <1>4, <1>5
  <2>1. msg.kind = "source" => Shows(wire[h], page[h].level, told'[h].level)
    BY DEF PagesAddUp
  <2>. QED
    BY <1>1, <2>1, SendOne
<1>. QED
  BY <1>3, <1>6, <1>7, PageStepOfOne

-----------------------------------------------------------------------------
(* The handler's messages.                                                  *)

LEMMA SourcePage ==
    ASSUME PageInv, NEW h \in Handler, SendSource(h)
    PROVE  PageTypeOK' /\ PagesAddUp'
<1>. USE DEF PageInv
<1>. DEFINE e == Head(queue[h])
            msg == SourceMessage(e.cid, e.info)
<1>1. queue[h] \in Seq(Event) /\ queue[h] # <<>> /\ e.signal # "dataChanged"
  BY QueueTypes DEF SendSource, OnSource, Deliver
<1>2. e = queue[h][1] /\ 1 \in DOMAIN queue[h] /\ e \in Event
  BY <1>1
<1>3. msg \in PageMessage /\ msg.kind = "source"
  BY <1>1, <1>2 DEF SourceMessage, PageMessage, Event, SourcesInv, QueuesInv, NamedSources
<1>4. open[h]
  BY <1>1 DEF ClosedIsSilent
<1>5. \A g \in Handler : told'[g].level = told[g].level
  BY QueueTypes DEF SendSource, OnSource, ViewTypeOK, ClientState
<1>6. wire' = [wire EXCEPT ![h] = Append(wire[h], msg)] /\ UNCHANGED <<asked, page, open>>
  BY DEF SendSource, OnSource, PageTypeOK
<1>. HIDE DEF msg
<1>. QED
  BY <1>3, <1>4, <1>5, <1>6, SendPage

LEMMA FramePage ==
    ASSUME PageInv, NEW h \in Handler, SendLevels(h)
    PROVE  PageTypeOK' /\ PagesAddUp'
<1>. USE DEF PageInv
<1>1. OnMergedData(h) /\ UNCHANGED <<asked, page, open>>
  BY DEF SendLevels, OnMergedData, OnMergedLevels, OnMergedFlicker
<1>2. open[h]
  BY <1>1 DEF ClosedIsSilent, OnMergedData, OnMergedLevels, OnMergedFlicker, Deliver
<1>3. PICK level \in Level :
         /\ lastSeen' = [lastSeen EXCEPT ![h] = level]
         /\ \/ /\ ~flicker[h]
               /\ told' = [told EXCEPT ![h] = [told[h] EXCEPT !.level = level]]
            \/ /\ flicker[h]
               /\ level # lastSeen[h]
               /\ told' = [told EXCEPT ![h] = [told[h] EXCEPT !.level = level,
                                                        !.diff = level - reference[h]]]
            \/ flicker[h] /\ level = lastSeen[h] /\ told' = told
  BY <1>1, FrameIsTold DEF SourcesInv
<1>4. told[h] \in ClientState /\ told \in [Handler -> ClientState]
      /\ lastSeen \in [Handler -> Level]
  BY QueueTypes DEF ViewTypeOK
<1>5. lastSeen'[h] = level
  BY <1>3, <1>4
<1>6. wire[h] \in Seq(PageMessage)
  BY WireFacts
<1>7. CASE flicker[h] /\ level = lastSeen[h] /\ told' = told
  <2>1. ~Differs(h, lastSeen'[h])
    BY <1>5, <1>7 DEF Differs
  <2>2. wire' = [wire EXCEPT ![h] = wire[h] \o <<>>]
    BY <1>7, <2>1 DEF SendLevels, PageTypeOK
  <2>3. wire' = wire
    <3>1. wire[h] \o <<>> = wire[h]
      BY <1>6
    <3>. QED
      BY <2>2, <3>1 DEF PageTypeOK
  <2>. QED
    BY <1>1, <1>7, <2>3 DEF PageTypeOK, PagesAddUp, UniverseAsked, Shows
<1>8. ASSUME NEW kind \in {"levelsChanged", "flicker"},
             wire' = [wire EXCEPT ![h] = wire[h] \o <<[kind |-> kind, level |-> level]>>],
             told'[h].level = level, \A g \in Handler \ {h} : told'[g].level = told[g].level
      PROVE  PageTypeOK' /\ PagesAddUp'
  <2>. DEFINE msg == [kind |-> kind, level |-> level]
  <2>1. msg \in PageMessage /\ msg.kind # "source" /\ msg.level = level
    BY DEF PageMessage
  <2>. HIDE DEF msg
  <2>2. wire[h] \o <<msg>> = Append(wire[h], msg)
    BY <1>6, <2>1
  <2>3. wire' = [wire EXCEPT ![h] = Append(wire[h], msg)]
    BY <1>8, <2>2 DEF msg
  <2>. QED
    BY <1>1, <1>2, <1>8, <2>1, <2>3, SendPage
<1>9. CASE /\ ~flicker[h]
           /\ told' = [told EXCEPT ![h] = [told[h] EXCEPT !.level = level]]
  <2>1. wire' = [wire EXCEPT ![h] = wire[h] \o <<[kind |-> "levelsChanged", level |-> level]>>]
    BY <1>5, <1>9 DEF SendLevels, PageTypeOK
  <2>2. told'[h].level = level /\ \A g \in Handler \ {h} : told'[g].level = told[g].level
    BY <1>4, <1>9 DEF ClientState
  <2>. QED
    BY <1>8, <2>1, <2>2
<1>10. CASE /\ flicker[h] /\ level # lastSeen[h]
            /\ told' = [told EXCEPT ![h] = [told[h] EXCEPT !.level = level,
                                                     !.diff = level - reference[h]]]
  <2>1. Differs(h, lastSeen'[h])
    BY <1>5, <1>10 DEF Differs
  <2>2. wire' = [wire EXCEPT ![h] = wire[h] \o <<[kind |-> "flicker", level |-> level]>>]
    BY <1>5, <1>10, <2>1 DEF SendLevels, PageTypeOK
  <2>3. told'[h].level = level /\ \A g \in Handler \ {h} : told'[g].level = told[g].level
    BY <1>4, <1>10 DEF ClientState
  <2>. QED
    BY <1>8, <2>2, <2>3
<1>. QED
  BY <1>3, <1>7, <1>9, <1>10

\* The copied sources go out while the handler is still carrying the request
\* out, before it has sent any level.
LEMMA EndPage ==
    ASSUME PageInv, RequestEnds
    PROVE  PageTypeOK' /\ PagesAddUp'
<1>. USE DEF PageInv
<1>1. TypeOK /\ main.h \in Handler /\ main.u \in Universe /\ held[main.h] = main.u
      /\ main.pc = "copying"
  BY ReceiversFacts
     DEF RequestEnds, OnChangeUniverseEnd, SendKnownSources, SourcesInv, LevelsInv, RequestIsHeld
<1>2. PICK h \in Handler : h = main.h
  BY <1>1
<1>3. PICK msgs \in Listings(KnownMessages) : wire' = [wire EXCEPT ![h] = wire[h] \o msgs]
  BY <1>2 DEF RequestEnds, PageTypeOK
<1>4. UNCHANGED <<asked, page, open>>
  BY DEF RequestEnds, OnChangeUniverseEnd
<1>5. msgs \in Seq(PageMessage)
  <2>1. sources[main.u] \in [Cid -> Info \cup {None}]
    BY <1>1 DEF TypeOK
  <2>2. KnownMessages \subseteq PageMessage
    BY <2>1 DEF KnownMessages, SourceMessage, PageMessage
  <2>3. Cardinality(KnownMessages) \in Nat
    <3>. DEFINE D == {d \in Cid : sources[main.u][d] # None}
                Msg(c) == SourceMessage(c, sources[main.u][c])
    <3>1. IsFiniteSet(D)
      BY SourcesAreFinite, FS_Subset
    <3>2. KnownMessages = {Msg(c) : c \in D}
      BY DEF KnownMessages
    <3>. DEFINE f == [c \in D |-> Msg(c)]
    <3>3. f \in Surjection(D, KnownMessages)
      BY <3>2 DEF Surjection
    <3>. HIDE DEF D, Msg, f
    <3>4. IsFiniteSet(KnownMessages)
      BY <3>1, <3>3, FS_Surjection
    <3>. QED
      BY <3>4, FS_CardinalityType
  <2>4. msgs \in [1..Cardinality(KnownMessages) -> KnownMessages]
    BY DEF Listings
  <2>. QED
    BY <2>2, <2>3, <2>4
<1>6. open[h]
  BY <1>1, <1>2, NoneIsFresh DEF SourcesInv, ClosedHoldsNothing
<1>7. wire[h] \o msgs \in Seq(PageMessage)
  BY <1>5, WireFacts
<1>8. PageTypeOK'
  BY <1>3, <1>4, <1>6, <1>7 DEF PageTypeOK
<1>9. told'[h].level = None /\ \A g \in Handler \ {h} : told'[g].level = told[g].level
  <2>1. told[h].level = None
    BY <1>1, <1>2 DEF SourcesInv, LevelsInv, BusyIsCleared, NothingSent, Busy
  <2>. QED
    BY <1>2, <2>1, QueueTypes DEF RequestEnds, OnChangeUniverseEnd, ViewTypeOK, ClientState
<1>10. OtherPagesStay(h)
  BY <1>3, <1>4, <1>9 DEF OtherPagesStay, PageTypeOK
<1>. QED
  BY <1>8, <1>9, <1>10, PageStepOfOne

LEMMA PageNextInv == PageInv /\ [PageNext]_pairVars => PageInv'
<1>. SUFFICES ASSUME PageInv, [PageNext]_pairVars PROVE PageInv'
  OBVIOUS
<1>1. [ViewNext]_viewVars
  BY ViewStep DEF PageInv
<1>2. SourcesInv' /\ ClosedIsSilent'
  BY <1>1, SourcesNext, SilentNext DEF PageInv
<1>3. PageTypeOK' /\ PagesAddUp'
  <2>1. CASE UNCHANGED <<pageVars, open, told>>
    BY <2>1 DEF pageVars, PageInv, PageTypeOK, PagesAddUp, UniverseAsked, Shows, LevelsOf
  <2>2. CASE UNCHANGED pairVars \/ RequestGoesOn \/ ReceiveThread
    BY <2>1, <2>2 DEF pairVars, viewVars, rlVars, RequestGoesOn, OnChangeUniverseStep,
                      ReceiveThread, Receiving
  <2>. QED
    BY <2>2, ConnectPage, DisconnectPage, UserPage, ReceivePage, TakePage, SourcePage, FramePage,
       EndPage DEF PageNext
<1>. QED
  BY <1>2, <1>3 DEF PageInv

LEMMA PageAlways == PageSpec => []PageInv
  BY PageInitInv, PageNextInv, PTL DEF PageSpec

-----------------------------------------------------------------------------
(* The theorems about pages.                                                *)

\* Pages drive their handlers as ReceiveLevels lets any client do: what is
\* proved of the handlers above holds beneath the pages.
THEOREM PagesAreClients == PageSpec => ViewSpec
<1>1. PageInit => ViewInit
  BY DEF PageInit
<1>2. PageInv /\ [PageNext]_pairVars => [ViewNext]_viewVars
  BY ViewStep DEF PageInv
<1>. QED
  BY <1>1, <1>2, PageAlways, PTL DEF PageSpec, ViewSpec

\* What a page shows, and what is under way in both directions, keeps its
\* shape, and a closed socket has nothing under way.
THEOREM PagesTypeCorrect == PageSpec => []PageTypeOK
  BY PageAlways, PTL DEF PageInv

\* A page comes to show the level its handler saw last, for every address the
\* handler sent a level of since it took the page's last request: although the
\* page clears when it sends a request and the handler when it takes it, with
\* messages under way in both directions.
THEOREM PagesShowWhatWasSeen == PageSpec => []PageShowsLastSeen
<1>1. PageInv => PageShowsLastSeen
  <2>. SUFFICES ASSUME PageInv, NEW h \in Handler, open[h], ~UniverseAsked(h), ~Busy(h),
                       told[h].level # None
                PROVE  WillShow(h) = lastSeen[h]
    BY DEF PageShowsLastSeen
  <2>1. WillShow(h) = told[h].level
    BY ShownIsLast DEF PageInv, PagesAddUp
  <2>2. lastSeen[h] = told[h].level
    BY DEF PageInv, SourcesInv, LevelsInv, DifferencesAddUp
  <2>. QED
    BY <2>1, <2>2
<1>. QED
  BY <1>1, PageAlways, PTL
=============================================================================
