------------------------------ MODULE SourceMap ------------------------------
(****************************************************************************)
(* The sources a View Levels page shows, and the universes it offers as     *)
(* buttons (ReceiveLevelsPage), fed by two streams that know nothing of     *)
(* each other: what the detector has discovered (SourceDetector) and what   *)
(* the receiver of the watched universe hears.                              *)
(*                                                                          *)
(* The receiver is cut down to its list of sources (its threads are in      *)
(* MergeReceiver).  Signals of the two streams are queued apart and may be  *)
(* delivered in any order of the two, which is more than the code allows.   *)
(****************************************************************************)
EXTENDS SourceDetector, FiniteSets

CONSTANTS
    MaxWire,     \* bound: messages under way when a library has news
    MaxVisits,   \* bound: connections a page makes
    MaxChoices   \* bound: universes the user chooses

ASSUME MapBounds == MaxWire \in Nat /\ MaxVisits \in Nat /\ MaxChoices \in Nat
ASSUME FewSources == IsFiniteSet(Cid)

VARIABLES
    watched,   \* watched[h]: the universe of the handler's receiver_, or None
    heard,     \* heard[h]: the sources of that receiver
    signals,   \* signals[h]: queued deliveries of receivers to h
    wire,      \* wire[h]: messages on their way to the page
    request,   \* request[h]: universe requests on their way to the handler
    page       \* page[h]: its universe (or None) and its sourceMap

mapVars == <<watched, heard, signals, wire, request, page>>
vars == <<detectorVars, mapVars>>

NewPage == [universe |-> None, map |-> NoOffers, visits |-> 0, choices |-> 0]

MapInit ==
    /\ Init
    /\ watched = [h \in Handler |-> None]
    /\ heard = [h \in Handler |-> {}]
    /\ signals = [h \in Handler |-> <<>>]
    /\ wire = [h \in Handler |-> <<>>]
    /\ request = [h \in Handler |-> <<>>]
    /\ page = [h \in Handler |-> NewPage]

\* Messages to the page: an offer of the detector, a source that the receiver
\* heard (without universes), and a source that is gone.
Offered(c, offer) == [type |-> "offered", cid |-> c, offer |-> offer]
Heard(c) == [type |-> "heard", cid |-> c, offer |-> {}]
Gone(c) == [type |-> "gone", cid |-> c, offer |-> None]

Send(h, messages) == wire' = [wire EXCEPT ![h] = @ \o messages]

\* The orders in which a map with these keys can be walked.
Walks(keys) == {w \in [1..Cardinality(keys) -> keys] :
                   \A i, j \in DOMAIN w : w[i] = w[j] => i = j}

-----------------------------------------------------------------------------
(* The detector and its handlers.                                           *)

RoomOnTheWire == \A h \in Handler : Len(wire[h]) <= MaxWire

MapDetector ==
    /\ \/ Startup \/ Shutdown \/ ShutdownReturns
       \/ RoomOnTheWire /\ \E c \in Cid, offer \in Offer : Notice(c, offer)
       \/ HandleSource
    /\ UNCHANGED mapVars

\* A page connects (again): it sends its universe, and keeps what it shows.
MapConstruct(h) ==
    /\ page[h].visits < MaxVisits
    /\ Construct(h)
    /\ page' = [page EXCEPT ![h].visits = @ + 1]
    /\ request' = [request EXCEPT ![h] = <<page[h].universe>>]
    /\ UNCHANGED <<watched, heard, signals, wire>>

MapSendKnownSources ==
    /\ SendKnownSources
    /\ \E order \in Walks({c \in Cid : found[c] # None}) :
          Send(main.h, [i \in DOMAIN order |-> Offered(order[i], found[order[i]])])
    /\ UNCHANGED <<watched, heard, signals, request, page>>

MapDeliver(h) ==
    /\ Deliver(h)
    /\ LET e == Head(queue[h]) IN
          Send(h, <<IF e.offer = None THEN Gone(e.cid) ELSE Offered(e.cid, e.offer)>>)
    /\ UNCHANGED <<watched, heard, signals, request, page>>

\* What is under way when the connection ends is lost.
Forget(hs) ==
    /\ watched' = [h \in Handler |-> IF h \in hs THEN None ELSE watched[h]]
    /\ heard' = [h \in Handler |-> IF h \in hs THEN {} ELSE heard[h]]
    /\ signals' = [h \in Handler |-> IF h \in hs THEN <<>> ELSE signals[h]]
    /\ wire' = [h \in Handler |-> IF h \in hs THEN <<>> ELSE wire[h]]
    /\ request' = [h \in Handler |-> IF h \in hs THEN <<>> ELSE request[h]]
    /\ UNCHANGED page

MapDestroy(h) == Destroy(h) /\ Forget({h})
MapCloseAll == CloseAll /\ Forget(Handler)

-----------------------------------------------------------------------------
(* The handler and its receiver.                                            *)

\* onChangeUniverse.  A receiver that other clients keep alive may know
\* sources; they are sent on at once.
OnChangeUniverse(h) ==
    /\ main = Idle
    /\ request[h] # <<>>
    /\ h \in subscribed
    /\ request' = [request EXCEPT ![h] = Tail(@)]
    /\ watched' = [watched EXCEPT ![h] = Head(request[h])]
    /\ \E known \in SUBSET Cid :
          /\ Head(request[h]) = None => known = {}
          /\ heard' = [heard EXCEPT ![h] = known]
          /\ \E order \in Walks(known) : Send(h, [i \in DOMAIN order |-> Heard(order[i])])
    /\ UNCHANGED <<detectorVars, signals, page>>

\* The receiver hears a new source, or a known one changes.
ReceiverHears(h, c) ==
    /\ watched[h] # None
    /\ RoomOnTheWire /\ Len(signals[h]) <= MaxWire
    /\ heard' = [heard EXCEPT ![h] = @ \cup {c}]
    /\ signals' = [signals EXCEPT ![h] = Append(@, Heard(c))]
    /\ UNCHANGED <<detectorVars, watched, wire, request, page>>

ReceiverLoses(h, c) ==
    /\ c \in heard[h]
    /\ RoomOnTheWire /\ Len(signals[h]) <= MaxWire
    /\ heard' = [heard EXCEPT ![h] = @ \ {c}]
    /\ signals' = [signals EXCEPT ![h] = Append(@, Gone(c))]
    /\ UNCHANGED <<detectorVars, watched, wire, request, page>>

DeliverSignal(h) ==
    /\ main.pc \in {"idle", "closing"}
    /\ signals[h] # <<>>
    /\ signals' = [signals EXCEPT ![h] = Tail(@)]
    /\ Send(h, <<Head(signals[h])>>)
    /\ UNCHANGED <<detectorVars, watched, heard, request, page>>

-----------------------------------------------------------------------------
(* The page.                                                                *)

\* Mutant: a source that is known keeps its universes.
UniversesAfterOld(h, m) ==
    LET old == page[h].map[m.cid] IN
    IF old # None THEN old
    ELSE IF m.type = "heard" THEN {page[h].universe} ELSE m.offer

\* The universes of a source after a message that names none, or some.  A
\* source only heard belongs to the universe the page is on now.
UniversesAfter(h, m) ==
    LET old == page[h].map[m.cid] IN
    IF m.offer = {} /\ old # None THEN old
    ELSE IF m.type = "heard" THEN {page[h].universe} ELSE m.offer

\* onSourceUpdated and onSourceExpired.
PageReceives(h) ==
    /\ wire[h] # <<>>
    /\ wire' = [wire EXCEPT ![h] = Tail(@)]
    /\ LET m == Head(wire[h]) IN
          page' = [page EXCEPT ![h].map[m.cid] =
                      IF m.type = "gone" THEN None ELSE UniversesAfter(h, m)]
    /\ UNCHANGED <<detectorVars, watched, heard, signals, request>>

\* Mutant: the map is not cleared.
ChooseUniverseKeeps(h, u) ==
    /\ h \in subscribed
    /\ page[h].choices < MaxChoices
    /\ page[h].universe # u
    /\ page' = [page EXCEPT ![h].universe = u, ![h].choices = @ + 1]
    /\ request' = [request EXCEPT ![h] = Append(@, u)]
    /\ UNCHANGED <<detectorVars, watched, heard, signals, wire>>

\* A universe button, or the dialog: the page asks for the universe and
\* clears its map.
ChooseUniverse(h, u) ==
    /\ h \in subscribed
    /\ page[h].choices < MaxChoices
    /\ page[h].universe # u
    /\ page' = [page EXCEPT ![h].universe = u, ![h].map = NoOffers, ![h].choices = @ + 1]
    /\ request' = [request EXCEPT ![h] = Append(@, u)]
    /\ UNCHANGED <<detectorVars, watched, heard, signals, wire>>

-----------------------------------------------------------------------------
MapNext ==
    \/ MapDetector \/ MapCloseAll \/ MapSendKnownSources
    \/ \E h \in Handler :
          \/ MapConstruct(h) \/ MapDeliver(h) \/ MapDestroy(h)
          \/ OnChangeUniverse(h) \/ DeliverSignal(h) \/ PageReceives(h)
          \/ \E c \in Cid : ReceiverHears(h, c) \/ ReceiverLoses(h, c)
          \/ \E u \in Universe : ChooseUniverse(h, u)

MapSpec == MapInit /\ [][MapNext]_vars

-----------------------------------------------------------------------------
\* Nothing is under way between the detector, the handler and the page.
Quiet(h) ==
    /\ h \in subscribed /\ main = Idle
    /\ queue[h] = <<>> /\ signals[h] = <<>> /\ wire[h] = <<>> /\ request[h] = <<>>

Universes(offer) == IF offer = None THEN {} ELSE offer
Buttons(h) == UNION {Universes(page[h].map[c]) : c \in Cid}
Discovered == UNION {Universes(found[c]) : c \in Cid}

\* A page that never lost its connection shows a source with the universes it
\* was found to send, or the one the page is on, and with no other: late
\* messages of another universe or of the other stream leave nothing behind.
\* (A source found without universes is told apart from one that is only heard
\* by neither the message nor the page, and keeps those it had.)
NoPhantomUniverses ==
    \A h \in Handler, c \in Cid :
       Quiet(h) /\ page[h].visits = 1 /\ found[c] # {} =>
          Universes(page[h].map[c]) \subseteq Universes(found[c]) \cup {page[h].universe}

\* Until the user chooses, all universes discovered are shown as buttons.
OfferedUntilChoice ==
    \A h \in Handler : Quiet(h) /\ page[h].choices = 0 => Discovered \subseteq Buttons(h)
=============================================================================
