---------------------------- MODULE SourceDetector ----------------------------
(****************************************************************************)
(* Universe discovery (handler/SourceDetector): one detector, and the View  *)
(* Levels handlers that subscribe to it.                                    *)
(*                                                                          *)
(* The library's callbacks take sourcesMutex_, change sources_ and emit     *)
(* while they hold it; a new handler connects to both signals and then      *)
(* sends what sources() copies under the same mutex.  The two connect()     *)
(* calls are one step: a source cannot be found and expire between them     *)
(* (expiry takes the library many seconds).                                 *)
(****************************************************************************)
EXTENDS Naturals, Sequences

CONSTANTS
    Handler, Universe, Cid,
    None,           \* no source, no callback, no handler
    ShutdownWaits,  \* does the library's Shutdown wait for a callback?
    MaxPending      \* bound: deliveries pending when a callback starts

ASSUME DetectorConstants ==
    /\ None \notin Handler \cup Cid
    /\ \A us \in SUBSET Universe : us # None
    /\ ShutdownWaits \in BOOLEAN /\ MaxPending \in Nat

VARIABLES
    running,     \* the library's detector is started
    tracked,     \* what the library last reported of each source
    rx,          \* the callback that is about to take the mutex, or None
    found,       \* sources_
    main,        \* main thread: idle, in a constructor, or stopping
    subscribed,  \* the handlers connected to the detector's signals
    queue,       \* queue[h]: queued signal deliveries to h
    told         \* told[h]: what the messages to h's client amount to

detectorVars == <<running, tracked, rx, found, main, subscribed, queue, told>>

Offer == {None} \cup SUBSET Universe
NoOffers == [c \in Cid |-> None]
Idle == [pc |-> "idle", h |-> None]

Init ==
    /\ running = FALSE
    /\ tracked = NoOffers
    /\ rx = None
    /\ found = NoOffers
    /\ main = Idle
    /\ subscribed = {}
    /\ queue = [h \in Handler |-> <<>>]
    /\ told = [h \in Handler |-> NoOffers]

-----------------------------------------------------------------------------
(* Start and stop (Application::start, Application::stop).                   *)

Startup ==
    /\ main = Idle
    /\ ~running
    /\ running' = TRUE
    /\ UNCHANGED <<tracked, rx, found, main, subscribed, queue, told>>

\* shutdown() takes the mutex and calls the library with the mutex held.
Shutdown ==
    /\ main = Idle
    /\ running
    /\ main' = [pc |-> "shutdown", h |-> None]
    /\ UNCHANGED <<running, tracked, rx, found, subscribed, queue, told>>

\* The library's Shutdown returns; sources_ is cleared, the mutex released.
ShutdownReturns ==
    /\ main.pc = "shutdown"
    /\ ShutdownWaits => rx = None
    /\ running' = FALSE
    /\ tracked' = NoOffers
    /\ found' = NoOffers
    /\ main' = [pc |-> "closing", h |-> None]
    /\ UNCHANGED <<rx, subscribed, queue, told>>

\* The server and its handlers are deleted when control is back in the event
\* loop; deliveries queued before that may still be made.
CloseAll ==
    /\ main.pc = "closing"
    /\ main' = Idle
    /\ subscribed' = {}
    /\ queue' = [h \in Handler |-> <<>>]
    /\ UNCHANGED <<running, tracked, rx, found, told>>

-----------------------------------------------------------------------------
(* The library's callbacks.                                                 *)

\* The library (external) has news: a source, new or with other universes, or
\* the end of one; it calls back.
Notice(c, offer) ==
    /\ running
    /\ rx = None
    /\ \A h \in Handler : Len(queue[h]) <= MaxPending
    /\ tracked[c] # offer
    /\ tracked' = [tracked EXCEPT ![c] = offer]
    /\ rx' = [cid |-> c, offer |-> offer]
    /\ UNCHANGED <<running, found, main, subscribed, queue, told>>

MutexIsFree == main.pc # "shutdown"

\* Mutant: only a new source and the end of one are announced.
HandleSourceOnlyNew ==
    /\ rx # None
    /\ MutexIsFree
    /\ found' = [found EXCEPT ![rx.cid] = rx.offer]
    /\ queue' = [h \in Handler |-> IF /\ h \in subscribed
                                     /\ None \in {found[rx.cid], rx.offer}
                                  THEN Append(queue[h], rx) ELSE queue[h]]
    /\ rx' = None
    /\ UNCHANGED <<running, tracked, main, subscribed, told>>

\* HandleSourceUpdated (an offer) or HandleSourceExpired (None), under the mutex.
HandleSource ==
    /\ rx # None
    /\ MutexIsFree
    /\ found' = [found EXCEPT ![rx.cid] = rx.offer]
    /\ queue' = [h \in Handler |-> IF h \in subscribed THEN Append(queue[h], rx) ELSE queue[h]]
    /\ rx' = None
    /\ UNCHANGED <<running, tracked, main, subscribed, told>>

-----------------------------------------------------------------------------
(* Handlers (the detector's part of ReceiveLevels).                         *)

\* Mutant: it connects whoever was being constructed before.
ConstructOther(h) ==
    /\ main = Idle
    /\ h \notin subscribed
    /\ subscribed' = subscribed \cup {main.h}
    /\ told' = [told EXCEPT ![h] = NoOffers]
    /\ main' = [pc |-> "known", h |-> h]
    /\ UNCHANGED <<running, tracked, rx, found, queue>>

\* The constructor connects to both signals ...
Construct(h) ==
    /\ main = Idle
    /\ h \notin subscribed
    /\ subscribed' = subscribed \cup {h}
    /\ told' = [told EXCEPT ![h] = NoOffers]
    /\ main' = [pc |-> "known", h |-> h]
    /\ UNCHANGED <<running, tracked, rx, found, queue>>

\* ... and then sends the sources there are.
SendKnownSources ==
    /\ main.pc = "known"
    /\ told' = [told EXCEPT ![main.h] = found]
    /\ main' = Idle
    /\ UNCHANGED <<running, tracked, rx, found, subscribed, queue>>

\* A queued signal is delivered and sent on: onSourceUpdated, onSourceExpired.
Deliver(h) ==
    /\ main.pc \in {"idle", "closing"}
    /\ queue[h] # <<>>
    /\ told' = [told EXCEPT ![h][Head(queue[h]).cid] = Head(queue[h]).offer]
    /\ queue' = [queue EXCEPT ![h] = Tail(@)]
    /\ UNCHANGED <<running, tracked, rx, found, main, subscribed>>

\* The connection closed: the handler is deleted, with what is queued for it.
Destroy(h) ==
    /\ main = Idle
    /\ h \in subscribed
    /\ subscribed' = subscribed \ {h}
    /\ queue' = [queue EXCEPT ![h] = <<>>]
    /\ UNCHANGED <<running, tracked, rx, found, main, told>>

-----------------------------------------------------------------------------
Next ==
    \/ Startup \/ Shutdown \/ ShutdownReturns \/ CloseAll
    \/ \E c \in Cid, offer \in Offer : Notice(c, offer)
    \/ HandleSource
    \/ SendKnownSources
    \/ \E h \in Handler : Construct(h) \/ Deliver(h) \/ Destroy(h)

Spec == Init /\ [][Next]_detectorVars

-----------------------------------------------------------------------------
Event == [cid : Cid, offer : Offer]

\* The shape of every variable of the detector.
TypeOK ==
    /\ running \in BOOLEAN
    /\ tracked \in [Cid -> Offer]
    /\ rx \in Event \cup {None}
    /\ found \in [Cid -> Offer]
    /\ main \in [pc : {"idle", "known", "shutdown", "closing"}, h : Handler \cup {None}]
    /\ subscribed \subseteq Handler
    /\ queue \in [Handler -> Seq(Event)]
    /\ told \in [Handler -> [Cid -> Offer]]

\* The constructor of h still has to send the known sources.
Constructing(h) == main = [pc |-> "known", h |-> h]

\* queue[h][i] is the last that h will hear of its source.
IsLast(h, i) == \A j \in DOMAIN queue[h] : j > i => queue[h][j].cid # queue[h][i].cid

\* The last news queued for h of each source is what was found of it, and of
\* the other sources it has been told already.
LastIsFound(h) ==
    \A i \in DOMAIN queue[h] : IsLast(h, i) => queue[h][i].offer = found[queue[h][i].cid]
RestIsTold(h) ==
    \A c \in Cid : (\A i \in DOMAIN queue[h] : queue[h][i].cid # c) => told[h][c] = found[c]

\* No discovery slips between the connect() calls and the copy, and none is
\* overtaken by an older one: what a client has of a source, or will have when
\* all that is queued is delivered, is what the detector has found.
OffersReachClient ==
    main.pc # "closing" =>
       \A h \in subscribed : LastIsFound(h) /\ (~Constructing(h) => RestIsTold(h))
=============================================================================
