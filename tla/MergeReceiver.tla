---------------------------- MODULE MergeReceiver ----------------------------
(****************************************************************************)
(* The shared sACN receivers of libmobilesacn (handler/MergeReceiver) and   *)
(* the way a subscriber attaches to them (ReceiveLevels::onChangeUniverse). *)
(*                                                                          *)
(* Two threads meet here.  The MAIN thread (Qt's event loop) runs every     *)
(* handler: it looks a receiver up in the weak_ptr registry, connects to    *)
(* its three signals and copies its sources.  The RECEIVE thread of the     *)
(* sACN library runs the callbacks HandleMergedData and HandleSourcesLost.  *)
(* A signal emitted on the receive thread is queued for every connection    *)
(* and delivered later, in order, on the main thread.                       *)
(*                                                                          *)
(* Abstractions.  One DMX address stands for the 512.  A source's name,     *)
(* address and priority are one member of Info.  The object for universe u  *)
(* exists exactly while some handler holds it, so it is named by u; events  *)
(* it queued outlive it, and then point at storage that is gone.            *)
(****************************************************************************)
EXTENDS Naturals, Sequences, FiniteSets

CONSTANTS
    Handler,     \* the ReceiveLevels handlers that may be connected
    Universe,    \* universe numbers, 0 excluded
    Cid,         \* sACN sources on the network
    Info,        \* what a source says of itself (name, address, priority)
    Level,       \* levels of the one address
    None,        \* absent: universe 0, an expired weak_ptr, the empty CID
    MaxConn,     \* bound: connections of one handler to one signal
    MaxPending   \* bound: events pending anywhere when a callback starts

ASSUME NoneIsFresh == None \notin Handler \cup Universe \cup Cid \cup Info \cup Level
ASSUME LevelHasZero == 0 \in Level
ASSUME BoundsAreNat == MaxConn \in Nat /\ MaxPending \in Nat

Signal == {"sourceUpdated", "dataChanged", "sourceLost"}

VARIABLES
    held,     \* held[h]: the receiver that h's receiver_ pointer owns, or None
    started,  \* started[u]: Startup of the current object for u succeeded
    lib,      \* lib[u]: the library's own sources for u, as GetSource reports
    buf,      \* buf[u]: the storage that merged_data.levels points at
    sources,  \* sources[u]: the member sources_ of the object for u
    conn,     \* conn[h][u][s]: connections of h to signal s of object u
    queue,    \* queue[h]: queued signal deliveries to h
    main,     \* main thread: the step of onChangeUniverse it is about to take
    rx        \* receive thread: the step of a callback it is about to take

vars == <<held, started, lib, buf, sources, conn, queue, main, rx>>

NoSources == [c \in Cid |-> None]
NotConnected == [s \in Signal |-> 0]
MainIdle == [pc |-> "idle", h |-> None, u |-> None]
RxIdle == [pc |-> "idle", u |-> None, todo |-> {}, cid |-> None]

Init ==
    /\ held = [h \in Handler |-> None]
    /\ started = [u \in Universe |-> FALSE]
    /\ lib = [u \in Universe |-> NoSources]
    /\ buf = [u \in Universe |-> 0]
    /\ sources = [u \in Universe |-> NoSources]
    /\ conn = [h \in Handler |-> [u \in Universe |-> NotConnected]]
    /\ queue = [h \in Handler |-> <<>>]
    /\ main = MainIdle
    /\ rx = RxIdle

-----------------------------------------------------------------------------
(* Ownership.  receivers_ holds weak pointers: an object lives as long as   *)
(* the receiver_ of some handler owns it.                                   *)

Alive(u) == \E h \in Handler : held[h] = u

\* Mutant: receivers_ keeps shared pointers, so no object ever dies.
DyingNever(h, u) == {v \in Universe : FALSE}

\* The objects that die when h's receiver_ becomes u: at most the old one.
Dying(h, u) == {v \in Universe : /\ held[h] = v
                                 /\ v # u
                                 /\ \A g \in Handler \ {h} : held[g] # v}

\* f after the objects in `gone` died: each is empty again.
Without(f, gone, empty) == [v \in Universe |-> IF v \in gone THEN empty ELSE f[v]]

\* Deliveries queued by a dead object stay, pointing at storage now freed.
Orphan(q, gone) == [i \in DOMAIN q |-> IF q[i].from \in gone
                                       THEN [q[i] EXCEPT !.from = None] ELSE q[i]]

\* Mutant: Shutdown does not wait for the callback in progress.
SetReceiverNoWait(h, u) ==
    LET gone == Dying(h, u) IN
    /\ held' = [held EXCEPT ![h] = u]
    /\ lib' = Without(lib, gone, NoSources)
    /\ sources' = Without(sources, gone, NoSources)
    /\ buf' = Without(buf, gone, 0)

\* receiver_ = u.  ~MergeReceiver shuts the library's receiver down, which
\* waits for a callback in progress (external), and drops every connection.
\* (Storage that is free, or not written to yet, is zero here: no frame that
\* is still to be handled says it belongs to it.)
SetReceiver(h, u) ==
    LET gone == Dying(h, u) IN
    /\ rx.u \notin gone
    /\ held' = [held EXCEPT ![h] = u]
    /\ lib' = Without(lib, gone, NoSources)
    /\ sources' = Without(sources, gone, NoSources)
    /\ buf' = Without(buf, gone, 0)

-----------------------------------------------------------------------------
(* Main thread: onChangeUniverse and the destruction of a handler.          *)

\* Mutant: signals are connected only when the receiver is a new one.
ChangeUniverseConnectIfNew(h, u) ==
    LET gone == Dying(h, u) IN
    /\ main.pc = "idle"
    /\ \A s \in Signal : conn[h][u][s] < MaxConn
    /\ SetReceiver(h, u)
    /\ \E ok \in BOOLEAN :
          started' = [Without(started, gone, FALSE) EXCEPT ![u] = IF Alive(u) THEN @ ELSE ok]
    /\ conn' = [g \in Handler |-> Without(conn[g], gone, NotConnected)]
    /\ queue' = [g \in Handler |-> Orphan(queue[g], gone)]
    /\ main' = [pc |-> IF Alive(u) THEN "lock" ELSE "sourceUpdated", h |-> h, u |-> u]
    /\ UNCHANGED rx

\* getForUniverse(u): the live object, or a new one whose Startup may fail.
ChangeUniverse(h, u) ==
    LET gone == Dying(h, u) IN
    /\ main.pc = "idle"
    /\ \A s \in Signal : conn[h][u][s] < MaxConn
    /\ SetReceiver(h, u)
    /\ \E ok \in BOOLEAN :
          started' = [Without(started, gone, FALSE) EXCEPT ![u] = IF Alive(u) THEN @ ELSE ok]
    /\ conn' = [g \in Handler |-> Without(conn[g], gone, NotConnected)]
    /\ queue' = [g \in Handler |-> Orphan(queue[g], gone)]
    /\ main' = [pc |-> "sourceUpdated", h |-> h, u |-> u]
    /\ UNCHANGED rx

\* onChangeUniverse(0): receiver_.reset()
LeaveUniverse(h) ==
    LET gone == Dying(h, None) IN
    /\ main.pc = "idle"
    /\ SetReceiver(h, None)
    /\ started' = Without(started, gone, FALSE)
    /\ conn' = [g \in Handler |-> Without(conn[g], gone, NotConnected)]
    /\ queue' = [g \in Handler |-> Orphan(queue[g], gone)]
    /\ UNCHANGED <<main, rx>>

NextStep == [sourceUpdated |-> "dataChanged", dataChanged |-> "sourceLost",
             sourceLost |-> "lock"]

\* One of the three connect() calls; an earlier connection is not replaced.
Connect ==
    /\ main.pc \in Signal
    /\ conn' = [conn EXCEPT ![main.h][main.u][main.pc] = @ + 1]
    /\ main' = [main EXCEPT !.pc = NextStep[main.pc]]
    /\ UNCHANGED <<held, started, lib, buf, sources, queue, rx>>

\* updateSources holds sourcesMutex_ while it walks the active sources.
RxHoldsSources(u) == rx.pc = "updating" /\ rx.u = u
\* sources() holds sourcesMutex_ while it copies.
MainHoldsSources(u) == main.pc = "copying" /\ main.u = u

\* Mutant: sources() does not take the mutex.
LockSourcesNever ==
    /\ main.pc = "lock"
    /\ main' = [main EXCEPT !.pc = "copying"]
    /\ UNCHANGED <<held, started, lib, buf, sources, conn, queue, rx>>

\* sources(): lock sourcesMutex_, waiting for updateSources to release it.
LockSources ==
    /\ main.pc = "lock"
    /\ ~RxHoldsSources(main.u)
    /\ main' = [main EXCEPT !.pc = "copying"]
    /\ UNCHANGED <<held, started, lib, buf, sources, conn, queue, rx>>

\* sources() returns its copy; the handler sends each source to its client.
SendKnownSources ==
    /\ main.pc = "copying"
    /\ main' = MainIdle
    /\ UNCHANGED <<held, started, lib, buf, sources, conn, queue, rx>>

\* The event loop delivers the oldest queued signal of h.
Deliver(h) ==
    /\ main.pc = "idle"
    /\ queue[h] # <<>>
    /\ queue' = [queue EXCEPT ![h] = Tail(@)]
    /\ UNCHANGED <<held, started, lib, buf, sources, conn, main, rx>>

\* ~QObject of the handler: its connections and pending deliveries go with it,
\* and its receiver_ is released.
Close(h) ==
    LET gone == Dying(h, None) IN
    /\ main.pc = "idle"
    /\ SetReceiver(h, None)
    /\ started' = Without(started, gone, FALSE)
    /\ conn' = [g \in Handler |-> IF g = h THEN [v \in Universe |-> NotConnected]
                                  ELSE Without(conn[g], gone, NotConnected)]
    /\ queue' = [g \in Handler |-> IF g = h THEN <<>> ELSE Orphan(queue[g], gone)]
    /\ UNCHANGED <<main, rx>>

-----------------------------------------------------------------------------
(* Receive thread: the callbacks, one after the other.                      *)

\* Q_EMIT: one queued delivery for every connection there is now.
Emit(signal, u, c, i) ==
    queue' = [h \in Handler |-> queue[h] \o [n \in 1..conn[h][u][signal] |->
                 [signal |-> signal, from |-> u, cid |-> c, info |-> i]]]

RoomForCallback == \A h \in Handler : Len(queue[h]) <= MaxPending

\* The library merged a packet for u: new or changed sources, and new levels
\* in the storage it hands out; `cid` is the source that owns the address.
HandleMergedData(u) ==
    /\ rx.pc = "idle"
    /\ started[u]
    /\ RoomForCallback
    /\ \E now \in [Cid -> Info \cup {None}] :
          /\ \A c \in Cid : lib[u][c] # None => now[c] # None
          /\ lib' = [lib EXCEPT ![u] = now]
          /\ \E owner \in {c \in Cid : now[c] # None} \cup {None} :
                rx' = [pc |-> "tryLock", u |-> u, cid |-> owner,
                       todo |-> {c \in Cid : now[c] # None}]
    /\ \E level \in Level : buf' = [buf EXCEPT ![u] = level]
    /\ UNCHANGED <<held, started, sources, conn, queue, main>>

\* Mutant: the receive thread waits for the mutex.
TryLockSourcesWaits ==
    /\ rx.pc = "tryLock"
    /\ ~MainHoldsSources(rx.u)
    /\ rx' = [rx EXCEPT !.pc = "updating"]
    /\ UNCHANGED <<held, started, lib, buf, sources, conn, queue, main>>

\* updateSources: try_lock, and skip the update when main is copying.
TryLockSources ==
    /\ rx.pc = "tryLock"
    /\ rx' = [rx EXCEPT !.pc = IF MainHoldsSources(rx.u) THEN "owners" ELSE "updating"]
    /\ UNCHANGED <<held, started, lib, buf, sources, conn, queue, main>>

\* Mutant: a blocking queued connection, which waits for the main thread.
UpdateSourceBlocking(c) ==
    /\ rx.pc = "updating"
    /\ c \in rx.todo
    /\ main.pc # "lock"
    /\ Emit("sourceUpdated", rx.u, c, lib[rx.u][c])
    /\ sources' = [sources EXCEPT ![rx.u][c] = lib[rx.u][c]]
    /\ rx' = [rx EXCEPT !.todo = @ \ {c}]
    /\ UNCHANGED <<held, started, lib, buf, conn, main>>

\* updateSources, one active source: announce it when it changed, then store.
UpdateSource(c) ==
    /\ rx.pc = "updating"
    /\ c \in rx.todo
    /\ LET new == lib[rx.u][c] IN
          IF sources[rx.u][c] # new
          THEN /\ Emit("sourceUpdated", rx.u, c, new)
               /\ sources' = [sources EXCEPT ![rx.u][c] = new]
          ELSE UNCHANGED <<queue, sources>>
    /\ rx' = [rx EXCEPT !.todo = @ \ {c}]
    /\ UNCHANGED <<held, started, lib, buf, conn, main>>

UnlockSources ==
    /\ rx.pc = "updating"
    /\ rx.todo = {}
    /\ rx' = [rx EXCEPT !.pc = "owners"]
    /\ UNCHANGED <<held, started, lib, buf, sources, conn, queue, main>>

\* Mutant: what is stored of the source instead of its CID.
OwnerCidIsInfo(u, c) == IF c # None THEN sources[u][c] ELSE None

\* getOwnerCids: a winner that sources_ does not know has the empty CID.
OwnerCid(u, c) == IF c # None /\ sources[u][c] # None THEN c ELSE None

EmitData ==
    /\ rx.pc = "owners"
    /\ Emit("dataChanged", rx.u, OwnerCid(rx.u, rx.cid), None)
    /\ rx' = RxIdle
    /\ UNCHANGED <<held, started, lib, buf, sources, conn, main>>

\* HandleSourcesLost: the library has forgotten some of u's sources.
HandleSourcesLost(u) ==
    /\ rx.pc = "idle"
    /\ started[u]
    /\ RoomForCallback
    /\ \E lost \in SUBSET {c \in Cid : lib[u][c] # None} :
          /\ lost # {}
          /\ lib' = [lib EXCEPT ![u] = [c \in Cid |-> IF c \in lost THEN None ELSE @[c]]]
          /\ rx' = [pc |-> "losing", u |-> u, todo |-> lost, cid |-> None]
    /\ UNCHANGED <<held, started, buf, sources, conn, queue, main>>

EmitLost(c) ==
    /\ rx.pc = "losing"
    /\ c \in rx.todo
    /\ Emit("sourceLost", rx.u, c, None)
    /\ rx' = [rx EXCEPT !.pc = "erasing", !.todo = @ \ {c}, !.cid = c]
    /\ UNCHANGED <<held, started, lib, buf, sources, conn, main>>

\* sources_.erase(cid), after the emission and without sourcesMutex_.
EraseSource ==
    /\ rx.pc = "erasing"
    /\ sources' = [sources EXCEPT ![rx.u][rx.cid] = None]
    /\ rx' = IF rx.todo = {} THEN RxIdle
             ELSE [rx EXCEPT !.pc = "losing", !.cid = None]
    /\ UNCHANGED <<held, started, lib, buf, conn, queue, main>>

-----------------------------------------------------------------------------
MainSteps == Connect \/ LockSources \/ SendKnownSources
RxSteps == \/ TryLockSources \/ UnlockSources \/ EmitData \/ EraseSource
           \/ \E c \in Cid : UpdateSource(c) \/ EmitLost(c)

Next ==
    \/ \E h \in Handler : \/ \E u \in Universe : ChangeUniverse(h, u)
                          \/ LeaveUniverse(h)
                          \/ Deliver(h)
                          \/ Close(h)
    \/ MainSteps
    \/ RxSteps
    \/ \E u \in Universe : HandleMergedData(u) \/ HandleSourcesLost(u)

Spec == Init /\ [][Next]_vars

\* The event loop finishes the request it is in, and a callback that began
\* goes on.  Packets, losses and requests are the environment's: no fairness.
Fairness == WF_vars(MainSteps) /\ WF_vars(RxSteps)

FairSpec == Spec /\ Fairness

-----------------------------------------------------------------------------
Event == [signal : Signal, from : Universe \cup {None},
          cid : Cid \cup {None}, info : Info \cup {None}]

MainState == [pc : {"idle", "lock", "copying"} \cup Signal,
              h : Handler \cup {None}, u : Universe \cup {None}]

RxState == [pc : {"idle", "tryLock", "updating", "owners", "losing", "erasing"},
            u : Universe \cup {None}, todo : SUBSET Cid, cid : Cid \cup {None}]

\* The shape of every variable of the receivers and of both threads.
TypeOK ==
    /\ held \in [Handler -> Universe \cup {None}]
    /\ started \in [Universe -> BOOLEAN]
    /\ lib \in [Universe -> [Cid -> Info \cup {None}]]
    /\ buf \in [Universe -> Level]
    /\ sources \in [Universe -> [Cid -> Info \cup {None}]]
    /\ conn \in [Handler -> [Universe -> [Signal -> Nat]]]
    /\ queue \in [Handler -> Seq(Event)]
    /\ main \in MainState
    /\ rx \in RxState

\* No callback runs on an object that has been destroyed, and no connection
\* leads out of one: releasing a receiver_ never pulls an object away under
\* the receive thread, and weak_ptr::lock never revives one.
NoDeadReceiver ==
    /\ rx.pc # "idle" => started[rx.u] /\ Alive(rx.u)
    /\ \A u \in Universe : started[u] => Alive(u)
    /\ \A h \in Handler, u \in Universe, s \in Signal :
          conn[h][u][s] > 0 => Alive(u)

\* The signals that remain to be connected at each step of a request.
ToConnect == [idle |-> {}, sourceUpdated |-> Signal,
              dataChanged |-> {"dataChanged", "sourceLost"},
              sourceLost |-> {"sourceLost"}, lock |-> {}, copying |-> {}]

NotYetConnected(h, u) == IF main.h = h /\ main.u = u THEN ToConnect[main.pc] ELSE {}

\* A handler is subscribed to everything the receiver it holds can say, also
\* when the receiver was already there for another handler.
HolderIsSubscribed ==
    \A h \in Handler, u \in Universe :
       held[h] = u => \A s \in Signal \ NotYetConnected(h, u) : conn[h][u][s] > 0

\* What the comment on the copy in sources() asks of it: nobody changes
\* sources_ while the main thread copies it.  (HandleSourcesLost erases
\* without the mutex.)
CopyIsExclusive ==
    main.pc = "copying" =>
       ~(rx.u = main.u /\ rx.pc \in {"updating", "erasing"})

\* updateSources and the copy never overlap: the part of the promise that
\* the mutex does keep.
UpdateExcludesCopy == \A u \in Universe : ~(RxHoldsSources(u) /\ MainHoldsSources(u))

\* A request to change universe is answered: the main thread, which waits for
\* sourcesMutex_, is never left waiting by the receive thread.
RequestCompletes == main.pc # "idle" ~> main.pc = "idle"

\* A callback always returns: try_lock keeps the receive thread from waiting
\* for the main thread.
CallbackReturns == rx.pc # "idle" ~> rx.pc = "idle"
=============================================================================
