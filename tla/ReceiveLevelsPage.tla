-------------------------- MODULE ReceiveLevelsPage --------------------------
(****************************************************************************)
(* The View Levels page (pages/ReceiveLevelsPage) with its handler, and the *)
(* WebSocket between them: a queue in each direction, lost when it breaks.  *)
(*                                                                          *)
(* The page clears what it shows at the moment it SENDS a request for a     *)
(* universe, and keeps it over a reconnection; the handler clears what it   *)
(* last saw when it takes the request.  Levels on their way in between land *)
(* on the cleared page.  One address stands for the 512, as below, and its  *)
(* flicker mark is left to DifferencesAddUp.  Clocks are not modelled: that *)
(* a page drops a frame it finds more than 500 ms old is left out.          *)
(****************************************************************************)
EXTENDS ReceiveLevels

CONSTANTS
    MaxAsked,    \* bound: requests under way when the user acts
    MaxWire      \* bound: messages under way when a callback starts

ASSUME PageBoundsAreNat == MaxAsked \in Nat /\ MaxWire \in Nat
ASSUME SourcesAreFinite == IsFiniteSet(Cid)

VARIABLES
    asked,   \* asked[h]: requests on their way to the handler
    wire,    \* wire[h]: messages on their way to the page
    page     \* page[h]: what the page is set to and shows

pageVars == <<asked, wire, page>>
pairVars == <<viewVars, pageVars>>

FreshPage == [universe |-> None, finder |-> FALSE, level |-> 0,
              src |-> [c \in Cid |-> None]]

PageInit ==
    /\ ViewInit
    /\ asked = [h \in Handler |-> <<>>]
    /\ wire = [h \in Handler |-> <<>>]
    /\ page = [h \in Handler |-> FreshPage]

-----------------------------------------------------------------------------
(* The page.                                                                *)

AskUniverse(u) == [ask |-> "universe", val |-> u]
AskFinder(on) == [ask |-> "flicker_finder", val |-> on]

\* "open": the settings are sent again; what the page shows stays.
PageConnects(h) ==
    /\ OnConnect(h)
    /\ asked' = [asked EXCEPT ![h] = <<AskUniverse(page[h].universe), AskFinder(page[h].finder)>>]
    /\ UNCHANGED <<wire, page>>

\* Mutant: what was under way when the connection broke comes by the next one.
PageDisconnectsKeeps(h) ==
    /\ OnDisconnect(h)
    /\ asked' = [asked EXCEPT ![h] = <<>>]
    /\ UNCHANGED <<wire, page>>

\* The connection breaks, with all that was under way.
PageDisconnects(h) ==
    /\ OnDisconnect(h)
    /\ asked' = [asked EXCEPT ![h] = <<>>]
    /\ wire' = [wire EXCEPT ![h] = <<>>]
    /\ UNCHANGED page

\* The controls are only there while the socket is open.
UserActs(h) == open[h] /\ Len(asked[h]) < MaxAsked

\* The effect of setUniverse: send, then clear levels and sources.
ChooseUniverse(h, u) ==
    /\ UserActs(h)
    /\ page[h].universe # u
    /\ asked' = [asked EXCEPT ![h] = Append(@, AskUniverse(u))]
    /\ page' = [page EXCEPT ![h] = [FreshPage EXCEPT !.universe = u, !.finder = page[h].finder]]
    /\ UNCHANGED <<viewVars, wire>>

\* The effect of setFlickerFinder: send; levels and sources stay.
ToggleFinder(h) ==
    /\ UserActs(h)
    /\ asked' = [asked EXCEPT ![h] = Append(@, AskFinder(~page[h].finder))]
    /\ page' = [page EXCEPT ![h].finder = ~@]
    /\ UNCHANGED <<viewVars, wire>>

\* onSourceUpdated, onSourceExpired
ApplySource(h, msg) == page' = [page EXCEPT ![h].src[msg.cid] = msg.info]

\* Mutant: a flicker message sets the mark and not the level.
ApplyFlickerMarks(h, msg) == UNCHANGED page

\* onLevelsChanged, onFlicker
ApplyLevels(h, msg) == page' = [page EXCEPT ![h].level = msg.level]
ApplyFlicker(h, msg) == page' = [page EXCEPT ![h].level = msg.level]

PageReceives(h) ==
    /\ wire[h] # <<>>
    /\ LET msg == Head(wire[h]) IN
          \/ msg.kind = "source" /\ ApplySource(h, msg)
          \/ msg.kind = "levelsChanged" /\ ApplyLevels(h, msg)
          \/ msg.kind = "flicker" /\ ApplyFlicker(h, msg)
    /\ wire' = [wire EXCEPT ![h] = Tail(@)]
    /\ UNCHANGED <<viewVars, asked>>

-----------------------------------------------------------------------------
(* The handler: it takes the requests in order, and its messages queue up.  *)

SourceMessage(c, i) == [kind |-> "source", cid |-> c, info |-> i]

TakeRequest(h) ==
    /\ asked[h] # <<>>
    /\ LET req == Head(asked[h]) IN
          \/ req.ask = "universe" /\ req.val = None /\ OnLeaveUniverse(h)
          \/ req.ask = "universe" /\ req.val # None /\ OnChangeUniverse(h, req.val)
          \/ req.ask = "flicker_finder" /\ OnChangeFlickerFinder(h, req.val)
    /\ asked' = [asked EXCEPT ![h] = Tail(@)]
    /\ UNCHANGED <<wire, page>>

RequestGoesOn == OnChangeUniverseStep /\ UNCHANGED pageVars

\* Mutant: known sources are not sent.
RequestEndsSilent == OnChangeUniverseEnd /\ UNCHANGED pageVars

\* The known sources go out one by one (in the order of the map, by CID).
Listings(S) == {f \in [1..Cardinality(S) -> S] : \A i, j \in DOMAIN f : f[i] = f[j] => i = j}

KnownMessages == {SourceMessage(c, sources[main.u][c]) : c \in {d \in Cid : sources[main.u][d] # None}}

RequestEnds ==
    /\ OnChangeUniverseEnd
    /\ \E msgs \in Listings(KnownMessages) :
          wire' = [wire EXCEPT ![main.h] = @ \o msgs]
    /\ UNCHANGED <<asked, page>>

SendSource(h) ==
    /\ OnSource(h)
    /\ LET e == Head(queue[h]) IN
          wire' = [wire EXCEPT ![h] = Append(@, SourceMessage(e.cid, e.info))]
    /\ UNCHANGED <<asked, page>>

\* levelsChanged carries all levels, flicker those that differ, if any do.
SendLevels(h) ==
    /\ OnMergedData(h)
    /\ LET level == lastSeen'[h] IN
          wire' = [wire EXCEPT ![h] = @ \o
                      IF ~flicker[h]
                      THEN <<[kind |-> "levelsChanged", level |-> level]>>
                      ELSE IF Differs(h, level)
                      THEN <<[kind |-> "flicker", level |-> level]>>
                      ELSE <<>>]
    /\ UNCHANGED <<asked, page>>

WiresHaveRoom == \A h \in Handler : Len(wire[h]) <= MaxWire

\* Callbacks go on; one only starts when the wires have room (bound).
ReceiveThread ==
    /\ Receiving
    /\ rx.pc = "idle" => WiresHaveRoom
    /\ UNCHANGED pageVars

-----------------------------------------------------------------------------
PageNext ==
    \/ \E h \in Handler :
          \/ PageConnects(h) \/ PageDisconnects(h)
          \/ \E u \in Universe : ChooseUniverse(h, u)
          \/ ToggleFinder(h) \/ PageReceives(h)
          \/ TakeRequest(h) \/ SendSource(h) \/ SendLevels(h)
    \/ RequestGoesOn \/ RequestEnds
    \/ ReceiveThread

PageSpec == PageInit /\ [][PageNext]_pairVars

\* As in ReceiveLevels; and a request or a message that waits is received.
PageFairness ==
    /\ ViewFairness
    /\ \A h \in Handler : SF_pairVars(TakeRequest(h)) /\ WF_pairVars(PageReceives(h))

PageFairSpec == PageSpec /\ PageFairness

-----------------------------------------------------------------------------
Request == [ask : {"universe"}, val : Universe \cup {None}]
           \cup [ask : {"flicker_finder"}, val : BOOLEAN]

PageMessage == [kind : {"source"}, cid : Cid, info : Info \cup {None}]
               \cup [kind : {"levelsChanged"}, level : Level]
               \cup [kind : {"flicker"}, level : Level]

PageState == [universe : Universe \cup {None}, finder : BOOLEAN, level : Level,
              src : [Cid -> Info \cup {None}]]

\* The shape of the page and of what is under way; a closed socket is empty.
PageTypeOK ==
    /\ asked \in [Handler -> Seq(Request)]
    /\ wire \in [Handler -> Seq(PageMessage)]
    /\ page \in [Handler -> PageState]
    /\ \A h \in Handler : ~open[h] => asked[h] = <<>> /\ wire[h] = <<>>

\* The messages under way that carry a level, and the level a page shows once
\* they were received.
Levels(h) == {i \in DOMAIN wire[h] : wire[h][i].kind # "source"}

WillShow(h) ==
    IF Levels(h) = {} THEN page[h].level
    ELSE wire[h][CHOOSE i \in Levels(h) : \A j \in Levels(h) : j <= i].level

\* The page asked for a universe that the handler does not know of yet.
UniverseAsked(h) == \E i \in DOMAIN asked[h] : asked[h][i].ask = "universe"

\* An address of which the handler sent a level since it took the page's last
\* request for a universe comes to show the level the handler saw last:
\* whatever was under way when the page cleared, in whatever order universes
\* and modes were asked for, after any number of reconnections.  Claimed
\* while no such request is under way.  (Of an address not sent since, which
\* in flicker finder mode is one at zero, the page may go on showing a level
\* that was under way when it cleared, or that it kept over a reconnection.)
PageShowsLastSeen ==
    \A h \in Handler :
       /\ open[h] /\ ~UniverseAsked(h) /\ ~Busy(h)
       /\ told[h].level # None
       => WillShow(h) = lastSeen[h]

\* A source that stays on the universe a client stays on is shown on its page
\* as it is, unless a receiver that it left speaks of that source too.
SourcesAreShown ==
    \A h \in Handler, u \in Universe, c \in Cid, i \in Info :
       (held[h] = u /\ sources[u][c] = i)
          ~> (page[h].src[c] = i \/ held[h] # u \/ sources[u][c] # i \/ Stray(h, c))
=============================================================================
