------------------------- MODULE SourceDetectorProofs -------------------------
(* Proofs about SourceDetector, for any handlers, universes and sources, and *)
(* about the pages of SourceMap: their steps are steps of the detector, and   *)
(* what they show follows from what it told them.                            *)
EXTENDS SourceMap, FiniteSetTheorems, TLAPS

-----------------------------------------------------------------------------
(* The inductive invariant.                                                 *)

\* A handler whose constructor is running is subscribed, and no delivery
\* waits for a handler that is not.
SubscribedFirst ==
    /\ main.pc = "known" => main.h \in subscribed
    /\ \A h \in Handler \ subscribed : queue[h] = <<>>

IInv == TypeOK /\ SubscribedFirst /\ OffersReachClient

LEMMA InitIInv == Init => IInv
<1>. SUFFICES ASSUME Init PROVE IInv
  OBVIOUS
<1>1. TypeOK
  <2>1. NoOffers \in [Cid -> Offer]
    BY DEF NoOffers, Offer
  <2>2. [h \in Handler |-> <<>>] \in [Handler -> Seq(Event)]
    OBVIOUS
  <2>. QED
    BY <2>1, <2>2 DEF Init, TypeOK, Idle
<1>2. SubscribedFirst /\ OffersReachClient
  BY DEF Init, SubscribedFirst, OffersReachClient, Idle
<1>. QED
  BY <1>1, <1>2 DEF IInv

-----------------------------------------------------------------------------
(* Queues: what Append and Tail leave where.                                *)

LEMMA AppendIndices ==
    ASSUME NEW q \in Seq(Event), NEW e \in Event
    PROVE  /\ Append(q, e) \in Seq(Event)
           /\ DOMAIN q = 1..Len(q) /\ Len(q) \in Nat
           /\ DOMAIN Append(q, e) = 1..(Len(q) + 1)
           /\ \A i \in 1..Len(q) : Append(q, e)[i] = q[i]
           /\ Append(q, e)[Len(q) + 1] = e
  OBVIOUS

LEMMA TailIndices ==
    ASSUME NEW q \in Seq(Event), q # <<>>
    PROVE  /\ Head(q) = q[1] /\ Head(q) \in Event
           /\ Tail(q) \in Seq(Event)
           /\ Len(q) \in Nat \ {0} /\ DOMAIN q = 1..Len(q)
           /\ DOMAIN Tail(q) = 1..(Len(q) - 1)
           /\ \A i \in 1..(Len(q) - 1) : Tail(q)[i] = q[i + 1]
  OBVIOUS

-----------------------------------------------------------------------------
(* One lemma for each kind of step.                                         *)

\* A handler is as well informed as it was when its part of the state stays.
LEMMA SameHandler ==
    ASSUME NEW h, queue'[h] = queue[h], told'[h] = told[h], found' = found
    PROVE  /\ LastIsFound(h)' <=> LastIsFound(h)
           /\ RestIsTold(h)' <=> RestIsTold(h)
  BY DEF LastIsFound, RestIsTold, IsLast

\* Steps that leave sources, subscribers, queues and clients as they are.
LEMMA QuietIInv ==
    ASSUME IInv, TypeOK', UNCHANGED <<found, subscribed, queue, told>>,
           main' = main \/ (main = Idle /\ main'.pc = "shutdown")
    PROVE  IInv'
<1>1. SubscribedFirst'
  BY DEF IInv, SubscribedFirst
<1>2. main'.pc # "closing" => main.pc # "closing"
  BY DEF Idle
<1>3. \A h : Constructing(h) => Constructing(h)'
  BY DEF Constructing, Idle
<1>4. OffersReachClient'
  BY <1>2, <1>3, SameHandler DEF IInv, OffersReachClient
<1>. QED
  BY <1>1, <1>4 DEF IInv

LEMMA NoticeIInv ==
    ASSUME IInv, NEW c \in Cid, NEW offer \in Offer, Notice(c, offer)
    PROVE  IInv'
<1>1. TypeOK'
  BY DEF IInv, TypeOK, Notice, Event
<1>. QED
  BY <1>1, QuietIInv DEF Notice

LEMMA StartStopIInv ==
    ASSUME IInv, Startup \/ Shutdown
    PROVE  IInv'
<1>1. CASE Startup
  <2>1. TypeOK'
    BY <1>1 DEF IInv, TypeOK, Startup
  <2>. QED
    BY <1>1, <2>1, QuietIInv DEF Startup
<1>2. CASE Shutdown
  <2>1. TypeOK'
    BY <1>2 DEF IInv, TypeOK, Shutdown
  <2>. QED
    BY <1>2, <2>1, QuietIInv DEF Shutdown
<1>. QED
  BY <1>1, <1>2

LEMMA ShutdownReturnsIInv ==
    ASSUME IInv, ShutdownReturns
    PROVE  IInv'
<1>1. NoOffers \in [Cid -> Offer]
  BY DEF NoOffers, Offer
<1>2. TypeOK'
  BY <1>1 DEF IInv, TypeOK, ShutdownReturns
<1>. QED
  BY <1>2 DEF IInv, SubscribedFirst, OffersReachClient, ShutdownReturns

LEMMA CloseAllIInv ==
    ASSUME IInv, CloseAll
    PROVE  IInv'
<1>1. [h \in Handler |-> <<>>] \in [Handler -> Seq(Event)]
  OBVIOUS
<1>2. TypeOK'
  BY <1>1 DEF IInv, TypeOK, CloseAll, Idle
<1>. QED
  BY <1>2 DEF IInv, SubscribedFirst, OffersReachClient, CloseAll, Idle

\* The callback changes sources_ and appends the same news to every queue.
LEMMA HandleSourceIInv ==
    ASSUME IInv, HandleSource
    PROVE  IInv'
<1>1. /\ rx \in Event /\ rx.cid \in Cid /\ rx.offer \in Offer
      /\ \A h \in Handler : queue[h] \in Seq(Event)
      /\ subscribed \subseteq Handler /\ found \in [Cid -> Offer]
  BY DEF IInv, TypeOK, HandleSource, Event
<1>2. \A h \in Handler :
         queue'[h] = IF h \in subscribed THEN Append(queue[h], rx) ELSE queue[h]
  BY DEF HandleSource
<1>3. TypeOK'
  <2>1. queue' \in [Handler -> Seq(Event)]
    BY <1>1, AppendIndices DEF HandleSource
  <2>. QED
    BY <1>1, <2>1 DEF IInv, TypeOK, HandleSource
<1>4. SubscribedFirst'
  BY <1>2 DEF IInv, SubscribedFirst, HandleSource
<1>5. /\ found'[rx.cid] = rx.offer
      /\ \A c \in Cid \ {rx.cid} : found'[c] = found[c]
      /\ told' = told /\ main' = main /\ subscribed' = subscribed
  BY <1>1 DEF HandleSource
<1>6. ASSUME NEW h \in subscribed, LastIsFound(h)
      PROVE  LastIsFound(h)' /\ (RestIsTold(h) => RestIsTold(h)')
  <2>. DEFINE q == queue[h]
  <2>1. h \in Handler /\ q \in Seq(Event) /\ rx \in Event /\ queue'[h] = Append(q, rx)
    BY <1>1, <1>2, <1>6
  <2>2. /\ DOMAIN q = 1..Len(q) /\ Len(q) \in Nat
        /\ DOMAIN queue'[h] = 1..(Len(q) + 1)
        /\ \A i \in 1..Len(q) : queue'[h][i] = q[i]
        /\ queue'[h][Len(q) + 1] = rx
    BY <2>1, AppendIndices
  <2>3. \A i \in 1..Len(q) : q[i].cid \in Cid
    <3>1. \A i \in 1..Len(q) : q[i] \in Event
      BY <2>1
    <3>. QED
      BY <3>1 DEF Event
  <2>4. ASSUME NEW i \in DOMAIN queue'[h], IsLast(h, i)'
        PROVE  queue'[h][i].offer = found'[queue'[h][i].cid]
    <3>1. CASE i = Len(q) + 1
      BY <1>5, <2>2, <3>1
    <3>2. CASE i \in 1..Len(q)
      <4>1. q[i].cid # rx.cid
        <5>1. Len(q) + 1 \in DOMAIN queue'[h] /\ Len(q) + 1 > i
          BY <2>2, <3>2
        <5>2. queue'[h][Len(q) + 1].cid # queue'[h][i].cid
          BY <2>4, <5>1 DEF IsLast
        <5>. QED
          BY <2>2, <3>2, <5>2
      <4>2. IsLast(h, i)
        BY <2>2, <2>4, <3>2 DEF IsLast
      <4>3. q[i].offer = found[q[i].cid]
        BY <1>6, <2>2, <3>2, <4>2 DEF LastIsFound
      <4>. QED
        BY <1>5, <2>2, <2>3, <3>2, <4>1, <4>3
    <3>. QED
      BY <2>2, <3>1, <3>2
  <2>5. ASSUME RestIsTold(h), NEW c \in Cid, \A i \in DOMAIN queue'[h] : queue'[h][i].cid # c
        PROVE  told'[h][c] = found'[c]
    <3>1. c # rx.cid
      BY <2>2, <2>5
    <3>2. \A i \in DOMAIN q : q[i].cid # c
      BY <2>2, <2>5
    <3>. QED
      BY <1>5, <2>5, <3>1, <3>2 DEF RestIsTold
  <2>. QED
    BY <2>4, <2>5 DEF LastIsFound, RestIsTold
<1>7. OffersReachClient'
  BY <1>5, <1>6 DEF IInv, OffersReachClient, Constructing
<1>. QED
  BY <1>3, <1>4, <1>7 DEF IInv

LEMMA ConstructIInv ==
    ASSUME IInv, NEW h \in Handler, Construct(h)
    PROVE  IInv'
<1>1. NoOffers \in [Cid -> Offer]
  BY DEF NoOffers, Offer
<1>2. TypeOK'
  BY <1>1 DEF IInv, TypeOK, Construct
<1>3. SubscribedFirst'
  BY DEF IInv, SubscribedFirst, Construct
<1>4. /\ queue[h] = <<>> /\ queue' = queue /\ found' = found
      /\ main.pc # "closing" /\ subscribed' = subscribed \cup {h}
      /\ Constructing(h)' /\ \A g : ~Constructing(g)
  BY DEF IInv, TypeOK, SubscribedFirst, Construct, Constructing, Idle
<1>5. \A g \in subscribed : g # h /\ told'[g] = told[g]
  BY DEF IInv, TypeOK, Construct
<1>6. LastIsFound(h)'
  BY <1>4 DEF LastIsFound
<1>7. \A g \in subscribed : LastIsFound(g)' /\ RestIsTold(g)'
  BY <1>4, <1>5, SameHandler DEF IInv, OffersReachClient
<1>8. OffersReachClient'
  BY <1>4, <1>6, <1>7 DEF OffersReachClient
<1>. QED
  BY <1>2, <1>3, <1>8 DEF IInv

\* The copy brings the client level with sources_, whatever is queued besides.
LEMMA SendKnownSourcesIInv ==
    ASSUME IInv, SendKnownSources
    PROVE  IInv'
<1>1. PICK h \in subscribed : main.h = h
  BY DEF IInv, SubscribedFirst, SendKnownSources
<1>2. /\ subscribed \subseteq Handler /\ main.pc # "closing"
      /\ told \in [Handler -> [Cid -> Offer]] /\ found \in [Cid -> Offer]
  BY DEF IInv, TypeOK, SendKnownSources
<1>3. TypeOK'
  BY <1>2 DEF IInv, TypeOK, SendKnownSources, Idle
<1>4. SubscribedFirst'
  BY DEF IInv, SubscribedFirst, SendKnownSources, Idle
<1>5. queue' = queue /\ found' = found /\ subscribed' = subscribed
  BY DEF SendKnownSources
<1>6. /\ told'[h] = found
      /\ \A g \in subscribed \ {h} : told'[g] = told[g] /\ ~Constructing(g)
  BY <1>1, <1>2 DEF SendKnownSources, Constructing
<1>7. RestIsTold(h)'
  BY <1>5, <1>6 DEF RestIsTold
<1>8. \A g \in subscribed : LastIsFound(g)'
  BY <1>2, <1>5 DEF IInv, OffersReachClient, LastIsFound, IsLast
<1>9. \A g \in subscribed \ {h} : RestIsTold(g)'
  BY <1>2, <1>5, <1>6, SameHandler DEF IInv, OffersReachClient
<1>10. OffersReachClient'
  BY <1>5, <1>7, <1>8, <1>9 DEF OffersReachClient
<1>. QED
  BY <1>3, <1>4, <1>10 DEF IInv

\* The oldest news is told; what was the last about its source still is.
LEMMA DeliverIInv ==
    ASSUME IInv, NEW h \in Handler, Deliver(h)
    PROVE  IInv'
<1>. DEFINE q == queue[h]
<1>1. /\ queue \in [Handler -> Seq(Event)] /\ told \in [Handler -> [Cid -> Offer]]
      /\ q \in Seq(Event) /\ q # <<>> /\ subscribed \subseteq Handler
  BY DEF IInv, TypeOK, Deliver
<1>2. /\ Head(q) = q[1] /\ Head(q) \in Event
      /\ Tail(q) \in Seq(Event)
      /\ Len(q) \in Nat \ {0} /\ DOMAIN q = 1..Len(q)
      /\ DOMAIN Tail(q) = 1..(Len(q) - 1)
      /\ \A i \in 1..(Len(q) - 1) : Tail(q)[i] = q[i + 1]
  BY <1>1, TailIndices
<1>3. q[1].cid \in Cid /\ q[1].offer \in Offer
  BY <1>2 DEF Event
<1>4. /\ queue' = [queue EXCEPT ![h] = Tail(q)]
      /\ told' = [told EXCEPT ![h] = [told[h] EXCEPT ![q[1].cid] = q[1].offer]]
      /\ found' = found /\ subscribed' = subscribed /\ main' = main
      /\ running' = running /\ tracked' = tracked /\ rx' = rx
  BY <1>1, <1>2 DEF Deliver
<1>5. /\ queue'[h] = Tail(q)
      /\ told'[h][q[1].cid] = q[1].offer
      /\ \A c \in Cid \ {q[1].cid} : told'[h][c] = told[h][c]
      /\ \A g \in Handler \ {h} : queue'[g] = queue[g] /\ told'[g] = told[g]
  BY <1>1, <1>3, <1>4
<1>6. TypeOK'
  <2>1. queue' \in [Handler -> Seq(Event)]
    BY <1>1, <1>2, <1>4
  <2>2. told' \in [Handler -> [Cid -> Offer]]
    BY <1>1, <1>3, <1>4
  <2>. QED
    BY <1>4, <2>1, <2>2 DEF IInv, TypeOK
<1>7. SubscribedFirst'
  <2>1. h \notin subscribed => FALSE
    BY <1>1 DEF IInv, SubscribedFirst
  <2>. QED
    BY <1>4, <1>5, <2>1 DEF IInv, SubscribedFirst
<1>8. ASSUME LastIsFound(h)
      PROVE  LastIsFound(h)' /\ (RestIsTold(h) => RestIsTold(h)')
  <2>1. ASSUME NEW i \in DOMAIN queue'[h], IsLast(h, i)'
        PROVE  queue'[h][i].offer = found[queue'[h][i].cid]
    <3>1. i \in 1..(Len(q) - 1) /\ i + 1 \in DOMAIN q /\ queue'[h][i] = q[i + 1]
      BY <1>2, <1>5, <2>1
    <3>2. ASSUME NEW j \in DOMAIN q, j > i + 1 PROVE q[j].cid # q[i + 1].cid
      <4>1. j - 1 \in DOMAIN queue'[h] /\ j - 1 > i /\ queue'[h][j - 1] = q[j]
        BY <1>2, <1>5, <3>1, <3>2
      <4>. QED
        BY <2>1, <3>1, <4>1 DEF IsLast
    <3>3. IsLast(h, i + 1)
      BY <3>2 DEF IsLast
    <3>. QED
      BY <1>8, <3>1, <3>3 DEF LastIsFound
  <2>2. ASSUME RestIsTold(h), NEW c \in Cid, \A i \in DOMAIN queue'[h] : queue'[h][i].cid # c
        PROVE  told'[h][c] = found[c]
    <3>1. ASSUME NEW j \in DOMAIN q, j # 1 PROVE q[j].cid # c
      <4>1. j - 1 \in DOMAIN queue'[h] /\ queue'[h][j - 1] = q[j]
        BY <1>2, <1>5, <3>1
      <4>. QED
        BY <2>2, <4>1
    <3>2. CASE q[1].cid = c
      <4>1. IsLast(h, 1) /\ 1 \in DOMAIN q
        BY <1>2, <3>1, <3>2 DEF IsLast
      <4>. QED
        BY <1>5, <1>8, <3>2, <4>1 DEF LastIsFound
    <3>3. CASE q[1].cid # c
      <4>1. \A j \in DOMAIN q : q[j].cid # c
        BY <3>1, <3>3
      <4>. QED
        BY <1>5, <2>2, <3>3, <4>1 DEF RestIsTold
    <3>. QED
      BY <3>2, <3>3
  <2>. QED
    BY <1>4, <2>1, <2>2 DEF LastIsFound, RestIsTold
<1>9. \A g \in subscribed \ {h} : /\ LastIsFound(g) => LastIsFound(g)'
                                  /\ RestIsTold(g) => RestIsTold(g)'
  BY <1>1, <1>4, <1>5, SameHandler
<1>10. OffersReachClient'
  BY <1>4, <1>8, <1>9 DEF IInv, OffersReachClient, Constructing
<1>. QED
  BY <1>6, <1>7, <1>10 DEF IInv

LEMMA DestroyIInv ==
    ASSUME IInv, NEW h \in Handler, Destroy(h)
    PROVE  IInv'
<1>1. queue \in [Handler -> Seq(Event)] /\ subscribed \subseteq Handler
  BY DEF IInv, TypeOK
<1>2. <<>> \in Seq(Event)
  OBVIOUS
<1>3. TypeOK'
  BY <1>1, <1>2 DEF IInv, TypeOK, Destroy
<1>4. /\ \A g \in Handler \ {h} : queue'[g] = queue[g]
      /\ queue'[h] = <<>> /\ subscribed' = subscribed \ {h}
      /\ found' = found /\ told' = told /\ main' = main /\ main = Idle
  BY <1>1 DEF Destroy
<1>5. SubscribedFirst'
  BY <1>4 DEF IInv, SubscribedFirst, Idle
<1>6. \A g \in subscribed' : /\ LastIsFound(g) => LastIsFound(g)'
                             /\ RestIsTold(g) => RestIsTold(g)'
  BY <1>1, <1>4, SameHandler
<1>7. OffersReachClient'
  BY <1>4, <1>6 DEF IInv, OffersReachClient, Constructing
<1>. QED
  BY <1>3, <1>5, <1>7 DEF IInv

-----------------------------------------------------------------------------
LEMMA NextIInv == IInv /\ [Next]_detectorVars => IInv'
<1>. SUFFICES ASSUME IInv, [Next]_detectorVars PROVE IInv'
  OBVIOUS
<1>1. CASE UNCHANGED detectorVars
  <2>1. TypeOK'
    BY <1>1 DEF detectorVars, IInv, TypeOK
  <2>. QED
    BY <1>1, <2>1, QuietIInv DEF detectorVars
<1>2. CASE Next
  <2>1. CASE \E c \in Cid, offer \in Offer : Notice(c, offer)
    BY <2>1, NoticeIInv
  <2>2. CASE \E h \in Handler : Construct(h) \/ Deliver(h) \/ Destroy(h)
    BY <2>2, ConstructIInv, DeliverIInv, DestroyIInv
  <2>3. CASE Startup \/ Shutdown \/ ShutdownReturns \/ CloseAll \/ HandleSource \/ SendKnownSources
    BY <2>3, StartStopIInv, ShutdownReturnsIInv, CloseAllIInv, HandleSourceIInv,
       SendKnownSourcesIInv
  <2>. QED
    BY <1>2, <2>1, <2>2, <2>3 DEF Next
<1>. QED
  BY <1>1, <1>2

LEMMA InductiveInvariant == Spec => []IInv
  BY InitIInv, NextIInv, PTL DEF Spec

\* Every variable of the detector keeps its type.
THEOREM DetectorTypeCorrect == Spec => []TypeOK
  BY InductiveInvariant, PTL DEF IInv

\* What a client has been told, or is about to be told, is what the detector
\* has found, whenever the handler was made and however often it is remade.
THEOREM OffersAlwaysReach == Spec => []OffersReachClient
  BY InductiveInvariant, PTL DEF IInv

\* A step of the pages is a step of the detector, or none of its business.
LEMMA MapStepIsDetectorStep == [MapNext]_vars => [Next]_detectorVars
<1>1. UNCHANGED vars => UNCHANGED detectorVars
  BY DEF vars
<1>2. MapDetector \/ MapCloseAll \/ MapSendKnownSources => Next
  BY DEF MapDetector, MapCloseAll, MapSendKnownSources, Next
<1>3. ASSUME NEW h \in Handler, MapConstruct(h) \/ MapDeliver(h) \/ MapDestroy(h)
      PROVE  Next
  BY <1>3 DEF MapConstruct, MapDeliver, MapDestroy, Next
<1>4. ASSUME NEW h \in Handler,
             \/ OnChangeUniverse(h) \/ DeliverSignal(h) \/ PageReceives(h)
             \/ \E c \in Cid : ReceiverHears(h, c) \/ ReceiverLoses(h, c)
             \/ \E u \in Universe : ChooseUniverse(h, u)
      PROVE  UNCHANGED detectorVars
  BY <1>4 DEF OnChangeUniverse, DeliverSignal, PageReceives, ReceiverHears, ReceiverLoses,
              ChooseUniverse
<1>5. MapNext => Next \/ UNCHANGED detectorVars
  BY <1>2, <1>3, <1>4 DEF MapNext
<1>. QED
  BY <1>1, <1>5

\* The pages of SourceMap only add to the detector: their specification
\* implements the detector's.
THEOREM MapImplementsDetector == MapSpec => Spec
<1>1. MapInit => Init
  BY DEF MapInit
<1>. QED
  BY <1>1, MapStepIsDetectorStep, PTL DEF MapSpec, Spec

\* So the same holds of the handlers behind the pages.
THEOREM PagesAreTold == MapSpec => []OffersReachClient
  BY MapImplementsDetector, OffersAlwaysReach, PTL

-----------------------------------------------------------------------------
(* The pages: what is under way and what is shown add up to what was told.  *)

Message == [type : {"offered", "heard", "gone"}, cid : Cid, offer : Offer]
Signal == {m \in Message : m.type # "offered"}

PageState == [universe : Universe \cup {None}, visits : Nat, choices : Nat,
              map : [Cid -> {None} \cup SUBSET (Universe \cup {None})]]

MapTypeOK ==
    /\ watched \in [Handler -> Universe \cup {None}]
    /\ heard \in [Handler -> SUBSET Cid]
    /\ signals \in [Handler -> Seq(Signal)]
    /\ wire \in [Handler -> Seq(Message)]
    /\ request \in [Handler -> Seq(Universe \cup {None})]
    /\ page \in [Handler -> PageState]

\* The receiver of h has nothing to say.
Silent(h) == watched[h] = None /\ heard[h] = {} /\ signals[h] = <<>>

\* Nothing is under way to or from a page without a connection, and one that
\* never had a connection is new.
Parked(h) ==
    /\ h \notin subscribed => Silent(h) /\ wire[h] = <<>> /\ request[h] = <<>>
    /\ page[h].visits = 0 => h \notin subscribed /\ page[h] = NewPage

\* While the handler is constructed, nothing has been sent or told.
FirstOfAll(h) == Constructing(h) => wire[h] = <<>> /\ told[h] = NoOffers

\* A page on which no universe was chosen has none and asked for none.
Unchosen(h) ==
    page[h].choices = 0 =>
       /\ Silent(h) /\ page[h].universe = None
       /\ \A i \in DOMAIN request[h] : request[h][i] = None

\* The messages under way to h about source c, and those of the detector.
Mentions(h, c) == {i \in DOMAIN wire[h] : wire[h][i].cid = c}
Offers(h, c) == {i \in Mentions(h, c) : wire[h][i].type = "offered"}
IsLastOf(i, some) == i \in some /\ \A j \in some : j <= i

\* A source that was told with universes: the last offer under way says so, or
\* the page has no others.
FoundFits(h, c) ==
    told[h][c] \notin {None, {}} =>
       /\ \A i \in Offers(h, c) : IsLastOf(i, Offers(h, c)) => wire[h][i].offer = told[h][c]
       /\ Offers(h, c) = {} =>
             Universes(page[h].map[c]) \subseteq told[h][c] \cup {page[h].universe}

\* A source that was told to be gone: that is under way, or the page has it.
LostFits(h, c) ==
    told[h][c] = None =>
       \/ \E k \in Mentions(h, c) : /\ wire[h][k].type = "gone"
                                    /\ \A i \in Offers(h, c) : i < k
       \/ /\ Offers(h, c) = {}
          /\ Universes(page[h].map[c]) \subseteq {page[h].universe}

\* As long as the detector alone speaks to it, the page shows what was told.
ShownFits(h, c) ==
    told[h][c] \notin {None, {}} =>
       /\ \A i \in Mentions(h, c) : IsLastOf(i, Mentions(h, c)) =>
             wire[h][i].type = "offered" /\ wire[h][i].offer = told[h][c]
       /\ Mentions(h, c) = {} => page[h].map[c] = told[h][c]

Fits(h, c) ==
    /\ page[h].visits = 1 => FoundFits(h, c) /\ LostFits(h, c)
    /\ page[h].choices = 0 /\ ~Constructing(h) => ShownFits(h, c)

PageFits(h) ==
    Parked(h) /\ FirstOfAll(h) /\ Unchosen(h) /\ (h \in subscribed => \A c \in Cid : Fits(h, c))

MapIInv == IInv /\ MapTypeOK /\ \A h \in Handler : PageFits(h)

-----------------------------------------------------------------------------
(* A walk meets every key, and only keys.                                   *)

LEMMA WalkFacts ==
    ASSUME NEW keys \in SUBSET Cid, NEW w \in Walks(keys)
    PROVE  /\ Cardinality(keys) \in Nat /\ DOMAIN w = 1..Cardinality(keys)
           /\ \A i \in DOMAIN w : w[i] \in keys
           /\ \A c \in keys : \E i \in DOMAIN w : w[i] = c
<1>. DEFINE n == Cardinality(keys)
<1>1. IsFiniteSet(keys) /\ n \in Nat
  BY FewSources, FS_Subset, FS_CardinalityType
<1>2. w \in [1..n -> keys] /\ \A i, j \in 1..n : w[i] = w[j] => i = j
  BY DEF Walks
<1>3. IsFiniteSet(1..n) /\ Cardinality(1..n) = n
  <2>1. 1 \in Int /\ n \in Int
    BY <1>1
  <2>2. IsFiniteSet(1..n) /\ Cardinality(1..n) = IF 1 > n THEN 0 ELSE n - 1 + 1
    BY <2>1, FS_Interval
  <2>. QED
    BY <1>1, <2>2
<1>. HIDE DEF n
<1>4. w \in Injection(1..n, keys)
  BY <1>2 DEF Injection, IsInjective
<1>5. w \in Surjection(1..n, keys)
  BY <1>1, <1>3, <1>4, FS_Injection DEF n
<1>. QED
  BY <1>1, <1>2, <1>5 DEF Surjection, n

\* The keys of an empty map are walked in no steps.
LEMMA EmptyWalk == ASSUME NEW w \in Walks({}) PROVE DOMAIN w = {}
  BY FS_EmptySet DEF Walks

-----------------------------------------------------------------------------
(* Sequences of messages: what is appended, and what is taken off.          *)

LEMMA ConcatIndices ==
    ASSUME NEW S, NEW q \in Seq(S), NEW s \in Seq(S)
    PROVE  /\ q \o s \in Seq(S)
           /\ Len(q) \in Nat /\ DOMAIN q = 1..Len(q)
           /\ Len(s) \in Nat /\ DOMAIN s = 1..Len(s)
           /\ DOMAIN (q \o s) = 1..(Len(q) + Len(s))
           /\ \A i \in DOMAIN q : (q \o s)[i] = q[i]
           /\ \A i \in DOMAIN s : (q \o s)[Len(q) + i] = s[i]
           /\ \A i \in DOMAIN (q \o s) :
                 i \in DOMAIN q \/ (i > Len(q) /\ i - Len(q) \in DOMAIN s)
<1>1. /\ q \o s \in Seq(S)
      /\ Len(q) \in Nat /\ DOMAIN q = 1..Len(q)
      /\ Len(s) \in Nat /\ DOMAIN s = 1..Len(s)
      /\ DOMAIN (q \o s) = 1..(Len(q) + Len(s))
  OBVIOUS
<1>2. \A i \in DOMAIN q : (q \o s)[i] = q[i]
  BY <1>1
<1>3. ASSUME NEW i \in DOMAIN s PROVE (q \o s)[Len(q) + i] = s[i]
  <2>1. i \in 1..Len(s) /\ Len(q) + i \in 1..(Len(q) + Len(s)) /\ ~(Len(q) + i <= Len(q))
    BY <1>1
  <2>2. (q \o s)[Len(q) + i] = s[Len(q) + i - Len(q)]
    BY <1>1, <2>1
  <2>3. Len(q) + i - Len(q) = i
    BY <1>1, <2>1
  <2>. QED
    BY <2>2, <2>3
<1>4. \A i \in DOMAIN (q \o s) : i \in DOMAIN q \/ (i > Len(q) /\ i - Len(q) \in DOMAIN s)
  BY <1>1
<1>. QED
  BY <1>1, <1>2, <1>3, <1>4

LEMMA RestIndices ==
    ASSUME NEW S, NEW q \in Seq(S), q # <<>>
    PROVE  /\ Head(q) = q[1] /\ Head(q) \in S /\ Tail(q) \in Seq(S)
           /\ 1 \in DOMAIN q
           /\ \A i \in DOMAIN Tail(q) :
                 i \in Nat \ {0} /\ i + 1 \in DOMAIN q /\ Tail(q)[i] = q[i + 1]
           /\ \A i \in DOMAIN q : i \in Nat \ {0} /\ (i > 1 => i - 1 \in DOMAIN Tail(q))
<1>1. /\ Head(q) = q[1] /\ Head(q) \in S /\ Tail(q) \in Seq(S)
      /\ Len(q) \in Nat \ {0} /\ DOMAIN q = 1..Len(q)
      /\ DOMAIN Tail(q) = 1..(Len(q) - 1)
      /\ \A i \in 1..(Len(q) - 1) : Tail(q)[i] = q[i + 1]
  OBVIOUS
<1>. QED
  BY <1>1

-----------------------------------------------------------------------------
(* What each kind of step leaves true of a page.                            *)

LEMMA SamePage ==
    ASSUME NEW h, NEW c, wire'[h] = wire[h], told'[h] = told[h], page'[h] = page[h],
           Constructing(h) => Constructing(h)', Fits(h, c)
    PROVE  Fits(h, c)'
  BY DEF Fits, FoundFits, LostFits, ShownFits, Mentions, Offers, IsLastOf

\* Messages that are sent come after those under way.
LEMMA SentComesLast ==
    ASSUME NEW h, NEW s \in Seq(Message), wire[h] \in Seq(Message),
           wire'[h] = wire[h] \o s
    PROVE  /\ Len(wire[h]) \in Nat
           /\ \A i \in DOMAIN wire[h] :
                 /\ i \in Nat /\ i <= Len(wire[h])
                 /\ i \in DOMAIN wire'[h] /\ wire'[h][i] = wire[h][i]
           /\ \A i \in DOMAIN wire'[h] :
                 \/ i \in DOMAIN wire[h]
                 \/ /\ i \in Nat /\ i > Len(wire[h])
                    /\ i - Len(wire[h]) \in DOMAIN s
                    /\ wire'[h][i] = s[i - Len(wire[h])]
           /\ \A i \in DOMAIN s :
                 /\ i \in Nat \ {0} /\ Len(wire[h]) + i \in DOMAIN wire'[h]
                 /\ wire'[h][Len(wire[h]) + i] = s[i]
<1>. DEFINE q == wire[h]
<1>1. /\ Len(q) \in Nat /\ DOMAIN q = 1..Len(q)
      /\ Len(s) \in Nat /\ DOMAIN s = 1..Len(s)
      /\ DOMAIN (q \o s) = 1..(Len(q) + Len(s))
      /\ \A i \in DOMAIN q : (q \o s)[i] = q[i]
      /\ \A i \in DOMAIN s : (q \o s)[Len(q) + i] = s[i]
      /\ \A i \in DOMAIN (q \o s) :
            i \in DOMAIN q \/ (i > Len(q) /\ i - Len(q) \in DOMAIN s)
  BY ConcatIndices
<1>2. ASSUME NEW i \in DOMAIN (q \o s), i \notin DOMAIN q
      PROVE  i \in Nat /\ i > Len(q) /\ i - Len(q) \in DOMAIN s
             /\ (q \o s)[i] = s[i - Len(q)]
  <2>1. i \in Nat /\ i > Len(q) /\ i - Len(q) \in DOMAIN s
    BY <1>1, <1>2
  <2>2. Len(q) + (i - Len(q)) = i
    BY <1>1, <2>1
  <2>. QED
    BY <1>1, <2>1, <2>2
<1>. QED
  BY <1>1, <1>2

\* The receiver's messages offer nothing, and none come before a choice.
LEMMA SignalsFit ==
    ASSUME MapIInv, NEW h \in Handler, NEW c \in Cid, Fits(h, c),
           NEW s \in Seq(Signal), wire'[h] = wire[h] \o s,
           page[h].choices = 0 => s = <<>>,
           told'[h] = told[h], page'[h] = page[h], main' = main
    PROVE  Fits(h, c)'
<1>1. wire[h] \in Seq(Message) /\ s \in Seq(Message)
  BY DEF MapIInv, MapTypeOK, Signal
<1>2. \A i \in DOMAIN s : s[i].type # "offered"
  BY DEF Signal
<1>3. Offers(h, c)' = Offers(h, c)
  BY <1>1, <1>2, SentComesLast DEF Offers, Mentions
<1>4. \A i \in Mentions(h, c) : i \in Mentions(h, c)' /\ wire'[h][i] = wire[h][i]
  BY <1>1, SentComesLast DEF Mentions
<1>5. FoundFits(h, c) => FoundFits(h, c)'
  BY <1>3, <1>4 DEF FoundFits, Offers, IsLastOf
<1>6. LostFits(h, c) => LostFits(h, c)'
  BY <1>3, <1>4 DEF LostFits
<1>7. page[h].choices = 0 /\ ShownFits(h, c) => ShownFits(h, c)'
  <2>1. page[h].choices = 0 => wire'[h] = wire[h]
    BY <1>1
  <2>. QED
    BY <2>1 DEF ShownFits, Mentions, IsLastOf
<1>. QED
  BY <1>5, <1>6, <1>7 DEF Fits, Constructing

\* News of the detector, sent as it is delivered.
LEMMA NewsFits ==
    ASSUME MapIInv, NEW h \in Handler, NEW c \in Cid, Fits(h, c),
           NEW d \in Cid, NEW offer \in Offer, NEW m,
           m = IF offer = None THEN Gone(d) ELSE Offered(d, offer),
           wire'[h] = wire[h] \o <<m>>,
           told'[h][d] = offer, c # d => told'[h][c] = told[h][c],
           page'[h] = page[h], ~Constructing(h)
    PROVE  Fits(h, c)'
<1>. DEFINE n == Len(wire[h])
<1>1. /\ m \in Message /\ m.cid = d /\ m.offer = offer
      /\ m.type = IF offer = None THEN "gone" ELSE "offered"
  BY DEF Message, Gone, Offered, Offer
<1>2. wire[h] \in Seq(Message) /\ <<m>> \in Seq(Message)
  BY <1>1 DEF MapIInv, MapTypeOK
<1>3. /\ n \in Nat
      /\ \A i \in DOMAIN wire[h] : i \in Nat /\ i <= n
                                   /\ i \in DOMAIN wire'[h] /\ wire'[h][i] = wire[h][i]
      /\ \A i \in DOMAIN wire'[h] : i \in DOMAIN wire[h] \/ i = n + 1
      /\ n + 1 \in DOMAIN wire'[h] /\ wire'[h][n + 1] = m
  <2>1. DOMAIN <<m>> = {1} /\ <<m>>[1] = m
    OBVIOUS
  <2>2. /\ n \in Nat
        /\ \A i \in DOMAIN wire[h] : i \in Nat /\ i <= n
                                     /\ i \in DOMAIN wire'[h] /\ wire'[h][i] = wire[h][i]
        /\ n + 1 \in DOMAIN wire'[h] /\ wire'[h][n + 1] = m
    BY <1>2, <2>1, SentComesLast
  <2>3. ASSUME NEW i \in DOMAIN wire'[h], i \notin DOMAIN wire[h] PROVE i = n + 1
    <3>1. i \in Nat /\ i - n \in {1}
      BY <1>2, <2>1, <2>3, SentComesLast
    <3>. QED
      BY <2>2, <3>1
  <2>. QED
    BY <2>2, <2>3
<1>. HIDE DEF n
<1>4. CASE c # d
  <2>1. Mentions(h, c)' = Mentions(h, c)
    BY <1>1, <1>3, <1>4 DEF Mentions
  <2>2. \A i \in Mentions(h, c) : wire'[h][i] = wire[h][i]
    BY <1>3 DEF Mentions
  <2>3. Offers(h, c)' = Offers(h, c)
    BY <2>1, <2>2 DEF Offers
  <2>4. told'[h][c] = told[h][c]
    BY <1>4
  <2>. QED
    BY <2>1, <2>2, <2>3, <2>4 DEF Fits, FoundFits, LostFits, ShownFits, Offers, IsLastOf
<1>5. CASE c = d
  <2>1. n + 1 \in Mentions(h, c)'
    BY <1>1, <1>3, <1>5 DEF Mentions
  <2>2. \A i \in Mentions(h, c)' : i \in Nat /\ (i = n + 1 \/ i <= n)
    BY <1>3 DEF Mentions
  <2>3. \A i \in Mentions(h, c)' :
           (\A j \in Mentions(h, c)' : j <= i) => i = n + 1
    BY <1>3, <2>1, <2>2
  <2>4. offer # None => n + 1 \in Offers(h, c)'
    BY <1>1, <1>3, <2>1 DEF Offers
  <2>5. offer # None => \A i \in Offers(h, c)' :
           (\A j \in Offers(h, c)' : j <= i) => i = n + 1
    BY <1>3, <2>2, <2>4 DEF Offers
  <2>6. offer = None => \A i \in Offers(h, c)' : i < n + 1
    BY <1>1, <1>3, <2>2 DEF Offers
  <2>7. FoundFits(h, c)'
    BY <1>1, <1>3, <1>5, <2>4, <2>5 DEF FoundFits, IsLastOf
  <2>8. LostFits(h, c)'
    BY <1>1, <1>3, <1>5, <2>1, <2>6 DEF LostFits
  <2>9. ShownFits(h, c)'
    BY <1>1, <1>3, <1>5, <2>1, <2>3 DEF ShownFits, IsLastOf
  <2>. QED
    BY <2>7, <2>8, <2>9 DEF Fits
<1>. QED
  BY <1>4, <1>5

\* The messages of a walk: one for each key, in that order.
LEMMA WalkIsSequence ==
    ASSUME NEW keys \in SUBSET Cid, NEW w \in Walks(keys), NEW S,
           NEW s, DOMAIN s = DOMAIN w, s = [i \in DOMAIN w |-> s[i]],
           \A i \in DOMAIN w : s[i] \in S
    PROVE  s \in Seq(S)
<1>. PICK n \in Nat : DOMAIN w = 1..n
  BY WalkFacts
<1>1. s \in [1..n -> S]
  OBVIOUS
<1>. QED
  BY <1>1

\* The copy: an offer for each source found, and nothing else.
LEMMA SnapshotFits ==
    ASSUME MapIInv, NEW h \in Handler, NEW c \in Cid, Fits(h, c), Constructing(h),
           NEW keys \in SUBSET Cid, \A d \in Cid : d \in keys <=> found[d] # None,
           NEW order \in Walks(keys), NEW s \in Seq(Message), DOMAIN s = DOMAIN order,
           \A i \in DOMAIN order : s[i] = Offered(order[i], found[order[i]]),
           wire'[h] = wire[h] \o s, told'[h] = found, page'[h] = page[h]
    PROVE  Fits(h, c)'
<1>1. /\ \A i \in DOMAIN order : order[i] \in Cid /\ found[order[i]] # None
      /\ \A d \in Cid : found[d] # None => \E i \in DOMAIN order : order[i] = d
  BY WalkFacts
<1>2. wire[h] = <<>> /\ told[h][c] = None
  BY DEF MapIInv, PageFits, FirstOfAll, NoOffers
<1>3. wire'[h] = s
  <2>1. <<>> \o s = s
    OBVIOUS
  <2>. QED
    BY <1>2, <2>1
<1>4. DOMAIN wire'[h] = DOMAIN order
      /\ \A i \in DOMAIN order : /\ wire'[h][i].type = "offered" /\ wire'[h][i].cid = order[i]
                                 /\ wire'[h][i].offer = found[order[i]]
  BY <1>3 DEF Offered
<1>5. /\ Mentions(h, c)' = Offers(h, c)'
      /\ \A i \in Mentions(h, c)' : wire'[h][i].offer = found[c]
      /\ found[c] # None <=> Mentions(h, c)' # {}
  <2>1. \A i : i \in Mentions(h, c)' <=> i \in DOMAIN order /\ order[i] = c
    BY <1>4 DEF Mentions
  <2>2. Mentions(h, c)' = Offers(h, c)'
    BY <1>4, <2>1 DEF Offers
  <2>3. ASSUME NEW i \in Mentions(h, c)' PROVE wire'[h][i].offer = found[c] /\ found[c] # None
    <3>1. i \in DOMAIN order /\ order[i] = c
      BY <2>1
    <3>2. wire'[h][i].offer = found[order[i]] /\ found[order[i]] # None
      BY <1>1, <1>4, <3>1
    <3>. QED
      BY <3>1, <3>2
  <2>4. found[c] # None => Mentions(h, c)' # {}
    BY <1>1, <2>1
  <2>. QED
    BY <2>2, <2>3, <2>4
<1>6. Mentions(h, c) = {} /\ Offers(h, c) = {}
  BY <1>2 DEF Mentions, Offers
<1>7. FoundFits(h, c)' /\ ShownFits(h, c)'
  BY <1>5 DEF FoundFits, ShownFits, IsLastOf, Offers
<1>8. page[h].visits = 1 => LostFits(h, c)'
  BY <1>2, <1>5, <1>6 DEF Fits, LostFits
<1>. QED
  BY <1>7, <1>8 DEF Fits

\* The page takes the oldest message.
LEMMA ReceivedFits ==
    ASSUME MapIInv, NEW h \in Handler, NEW c \in Cid, Fits(h, c), PageReceives(h)
    PROVE  Fits(h, c)'
<1>. DEFINE m == Head(wire[h])
            after == IF m.type = "gone" THEN None ELSE UniversesAfter(h, m)
<1>1. wire[h] \in Seq(Message) /\ wire[h] # <<>> /\ wire'[h] = Tail(wire[h])
  BY DEF MapIInv, MapTypeOK, PageReceives
<1>2. /\ m = wire[h][1] /\ m \in Message /\ 1 \in DOMAIN wire[h]
      /\ \A i \in DOMAIN wire'[h] :
            i \in Nat \ {0} /\ i + 1 \in DOMAIN wire[h] /\ wire'[h][i] = wire[h][i + 1]
      /\ \A i \in DOMAIN wire[h] : i \in Nat \ {0} /\ (i > 1 => i - 1 \in DOMAIN wire'[h])
  BY <1>1, RestIndices
<1>3. m.cid \in Cid /\ m.type \in {"offered", "heard", "gone"}
  BY <1>2 DEF Message
<1>4. /\ told' = told /\ main' = main
      /\ page'[h].map = [page[h].map EXCEPT ![m.cid] = after]
      /\ page'[h].universe = page[h].universe
      /\ page'[h].visits = page[h].visits /\ page'[h].choices = page[h].choices
      /\ page[h].map \in [Cid -> {None} \cup SUBSET (Universe \cup {None})]
  BY DEF PageReceives, detectorVars, MapIInv, MapTypeOK, PageState
<1>5. /\ c # m.cid => page'[h].map[c] = page[h].map[c]
      /\ c = m.cid => page'[h].map[c] = after
  BY <1>4
<1>. HIDE DEF m, after
\* The positions that remain are those from 2 on, moved by one.
<1>6. ASSUME NEW i \in DOMAIN wire[h], i # 1
      PROVE  i - 1 \in DOMAIN wire'[h] /\ wire'[h][i - 1] = wire[h][i]
  BY <1>2, <1>6
<1>7. /\ \A i \in Mentions(h, c)' : i \in Nat \ {0} /\ i + 1 \in Mentions(h, c)
      /\ \A i \in Offers(h, c)' : i \in Nat \ {0} /\ i + 1 \in Offers(h, c)
      /\ \A i \in Mentions(h, c) : i \in Nat \ {0} /\ (i # 1 => i - 1 \in Mentions(h, c)')
      /\ \A i \in Offers(h, c) : i \in Nat \ {0} /\ (i # 1 => i - 1 \in Offers(h, c)')
      /\ \A i \in Mentions(h, c)' : wire'[h][i] = wire[h][i + 1]
  BY <1>2, <1>6 DEF Mentions, Offers
<1>8. /\ 1 \in Mentions(h, c) <=> c = m.cid
      /\ 1 \in Offers(h, c) <=> c = m.cid /\ m.type = "offered"
  BY <1>2 DEF Mentions, Offers
<1>9. /\ \A i \in Mentions(h, c)' : IsLastOf(i, Mentions(h, c)')
                                       => IsLastOf(i + 1, Mentions(h, c))
      /\ \A i \in Offers(h, c)' : IsLastOf(i, Offers(h, c)') => IsLastOf(i + 1, Offers(h, c))
  <2>1. ASSUME NEW T, NEW R, \A i \in R : i \in Nat \ {0} /\ i + 1 \in T,
               \A i \in T : i \in Nat \ {0} /\ (i # 1 => i - 1 \in R)
        PROVE  \A i \in R : IsLastOf(i, R) => IsLastOf(i + 1, T)
    BY <2>1 DEF IsLastOf
  <2>. QED
    BY <1>7, <2>1
<1>10. /\ Mentions(h, c)' = {} => \A i \in Mentions(h, c) : i = 1
       /\ Offers(h, c)' = {} => \A i \in Offers(h, c) : i = 1
  BY <1>7
<1>11. FoundFits(h, c) => FoundFits(h, c)'
  <2>. SUFFICES ASSUME FoundFits(h, c), told[h][c] \notin {None, {}} PROVE FoundFits(h, c)'
    BY <1>4 DEF FoundFits
  <2>1. \A i \in Offers(h, c)' : IsLastOf(i, Offers(h, c)') => wire'[h][i].offer = told[h][c]
    BY <1>7, <1>9 DEF FoundFits, Offers
  <2>2. ASSUME Offers(h, c)' = {}
        PROVE  Universes(page'[h].map[c]) \subseteq told[h][c] \cup {page[h].universe}
    <3>1. CASE c # m.cid
      BY <1>5, <1>8, <1>10, <2>2, <3>1 DEF FoundFits
    <3>2. CASE c = m.cid /\ m.type = "offered"
      <4>1. m.offer = told[h][c]
        BY <1>2, <1>8, <1>10, <2>2, <3>2 DEF FoundFits, IsLastOf
      <4>2. after = told[h][c]
        BY <3>2, <4>1 DEF after, UniversesAfter
      <4>. QED
        BY <1>5, <3>2, <4>2 DEF Universes
    <3>3. CASE c = m.cid /\ m.type # "offered"
      <4>1. Offers(h, c) = {}
        BY <1>8, <1>10, <2>2, <3>3
      <4>2. after \in {None, page[h].map[c], {page[h].universe}}
        BY <1>3, <3>3 DEF after, UniversesAfter
      <4>. QED
        BY <1>5, <3>3, <4>1, <4>2 DEF FoundFits, Universes
    <3>. QED
      BY <3>1, <3>2, <3>3
  <2>. QED
    BY <1>4, <2>1, <2>2 DEF FoundFits
<1>12. LostFits(h, c) => LostFits(h, c)'
  <2>. SUFFICES ASSUME LostFits(h, c), told[h][c] = None
                PROVE  \/ \E k \in Mentions(h, c)' : /\ wire'[h][k].type = "gone"
                                                     /\ \A i \in Offers(h, c)' : i < k
                       \/ /\ Offers(h, c)' = {}
                          /\ Universes(page'[h].map[c]) \subseteq {page[h].universe}
    BY <1>4 DEF LostFits
  <2>1. ASSUME NEW k \in Mentions(h, c), wire[h][k].type = "gone", k # 1,
               \A i \in Offers(h, c) : i < k
        PROVE  \E j \in Mentions(h, c)' : /\ wire'[h][j].type = "gone"
                                          /\ \A i \in Offers(h, c)' : i < j
    <3>1. k - 1 \in Mentions(h, c)' /\ k \in Nat /\ wire'[h][k - 1].type = "gone"
      BY <1>6, <1>7, <2>1 DEF Mentions
    <3>2. \A i \in Offers(h, c)' : i < k - 1
      BY <1>7, <2>1, <3>1
    <3>. QED
      BY <3>1, <3>2
  <2>2. ASSUME 1 \in Mentions(h, c), wire[h][1].type = "gone", \A i \in Offers(h, c) : i < 1
        PROVE  Offers(h, c)' = {} /\ page'[h].map[c] = None
    <3>1. Offers(h, c) = {}
      BY <1>7, <2>2
    <3>. QED
      BY <1>2, <1>5, <1>7, <1>8, <2>2, <3>1 DEF after
  <2>3. ASSUME Offers(h, c) = {}, Universes(page[h].map[c]) \subseteq {page[h].universe}
        PROVE  /\ Offers(h, c)' = {}
               /\ Universes(page'[h].map[c]) \subseteq {page[h].universe}
    <3>1. Offers(h, c)' = {}
      BY <1>7, <2>3
    <3>2. CASE c # m.cid
      BY <1>5, <2>3, <3>1, <3>2
    <3>3. CASE c = m.cid
      <4>1. after \in {None, page[h].map[c], {page[h].universe}}
        BY <1>3, <1>8, <2>3, <3>3 DEF after, UniversesAfter
      <4>. QED
        BY <1>5, <2>3, <3>1, <3>3, <4>1 DEF Universes
    <3>. QED
      BY <3>2, <3>3
  <2>. QED
    BY <2>1, <2>2, <2>3 DEF LostFits, Universes
<1>13. ShownFits(h, c) => ShownFits(h, c)'
  <2>. SUFFICES ASSUME ShownFits(h, c), told[h][c] \notin {None, {}} PROVE ShownFits(h, c)'
    BY <1>4 DEF ShownFits
  <2>1. \A i \in Mentions(h, c)' : IsLastOf(i, Mentions(h, c)') =>
           wire'[h][i].type = "offered" /\ wire'[h][i].offer = told[h][c]
    BY <1>7, <1>9 DEF ShownFits
  <2>2. ASSUME Mentions(h, c)' = {} PROVE page'[h].map[c] = told[h][c]
    <3>1. CASE c # m.cid
      BY <1>5, <1>8, <1>10, <2>2, <3>1 DEF ShownFits
    <3>2. CASE c = m.cid
      <4>1. m.type = "offered" /\ m.offer = told[h][c]
        BY <1>2, <1>8, <1>10, <2>2, <3>2 DEF ShownFits, IsLastOf
      <4>. QED
        BY <1>5, <3>2, <4>1 DEF after, UniversesAfter
    <3>. QED
      BY <3>1, <3>2
  <2>. QED
    BY <1>4, <2>1, <2>2 DEF ShownFits
<1>. QED
  BY <1>4, <1>11, <1>12, <1>13 DEF Fits, Constructing

-----------------------------------------------------------------------------
(* One lemma for each action.                                               *)

\* A page whose part of the state stays fits as it did.
LEMMA OtherPages ==
    ASSUME NEW g, PageFits(g),
           watched'[g] = watched[g], heard'[g] = heard[g], signals'[g] = signals[g],
           wire'[g] = wire[g], request'[g] = request[g], page'[g] = page[g],
           told'[g] = told[g], g \in subscribed' <=> g \in subscribed,
           Constructing(g)' <=> Constructing(g)
    PROVE  PageFits(g)'
<1>1. \A c : Fits(g, c) => Fits(g, c)'
  BY SamePage
<1>2. Parked(g)' /\ FirstOfAll(g)' /\ Unchosen(g)'
  BY DEF PageFits, Parked, FirstOfAll, Unchosen, Silent
<1>. QED
  BY <1>1, <1>2 DEF PageFits

LEMMA MapTypes ==
    ASSUME MapIInv
    PROVE  /\ TypeOK /\ SubscribedFirst /\ MapTypeOK
           /\ \A h \in Handler : /\ PageFits(h) /\ page[h] \in PageState
                                 /\ wire[h] \in Seq(Message) /\ signals[h] \in Seq(Signal)
                                 /\ request[h] \in Seq(Universe \cup {None})
  BY DEF MapIInv, IInv, MapTypeOK

LEMMA DetectorPages ==
    ASSUME MapIInv, MapDetector
    PROVE  MapTypeOK' /\ \A h \in Handler : PageFits(h)'
<1>1. UNCHANGED mapVars /\ told' = told /\ subscribed' = subscribed
  BY DEF MapDetector, Startup, Shutdown, ShutdownReturns, Notice, HandleSource
<1>2. \A h : Constructing(h)' <=> Constructing(h)
  BY MapTypes DEF MapDetector, Startup, Shutdown, ShutdownReturns, Notice, HandleSource,
                  Constructing, Idle
<1>3. MapTypeOK'
  BY <1>1, MapTypes DEF mapVars, MapTypeOK
<1>. QED
  BY <1>1, <1>2, <1>3, MapTypes, OtherPages DEF mapVars

LEMMA ConstructPages ==
    ASSUME MapIInv, NEW h \in Handler, MapConstruct(h)
    PROVE  MapTypeOK' /\ \A g \in Handler : PageFits(g)'
<1>1. /\ page' = [page EXCEPT ![h] = [page[h] EXCEPT !.visits = page[h].visits + 1]]
      /\ request' = [request EXCEPT ![h] = <<page[h].universe>>]
      /\ UNCHANGED <<watched, heard, signals, wire>>
      /\ main = Idle /\ main' = [pc |-> "known", h |-> h]
      /\ h \notin subscribed /\ subscribed' = subscribed \cup {h}
      /\ told' = [told EXCEPT ![h] = NoOffers]
  BY DEF MapConstruct, Construct, MapIInv, MapTypeOK, PageState
<1>2. MapTypeOK'
  <2>1. [page[h] EXCEPT !.visits = page[h].visits + 1] \in PageState
    <3>1. page[h] \in PageState
      BY MapTypes
    <3>2. page[h].visits \in Nat
      BY <3>1 DEF PageState
    <3>3. page[h].visits + 1 \in Nat
      BY <3>2
    <3>. QED
      BY <3>1, <3>3 DEF PageState
  <2>2. <<page[h].universe>> \in Seq(Universe \cup {None})
    BY MapTypes DEF PageState
  <2>3. request' \in [Handler -> Seq(Universe \cup {None})] /\ page' \in [Handler -> PageState]
    BY <1>1, <2>1, <2>2, MapTypes DEF MapTypeOK
  <2>. QED
    BY <1>1, <2>3, MapTypes DEF MapTypeOK
<1>3. /\ page'[h].visits = page[h].visits + 1 /\ page'[h].map = page[h].map
      /\ page'[h].universe = page[h].universe /\ page'[h].choices = page[h].choices
      /\ page[h].visits \in Nat
      /\ request'[h] = <<page[h].universe>> /\ told'[h] = NoOffers
  BY <1>1, MapTypes DEF MapTypeOK, PageState, TypeOK
<1>4. Silent(h) /\ Silent(h)' /\ wire'[h] = <<>>
  BY <1>1, MapTypes DEF PageFits, Parked, Silent
<1>5. Parked(h)' /\ FirstOfAll(h)' /\ Unchosen(h)'
  <2>1. Parked(h)'
    BY <1>1, <1>3 DEF Parked
  <2>2. FirstOfAll(h)'
    BY <1>3, <1>4 DEF FirstOfAll
  <2>3. Unchosen(h)'
    <3>1. page[h].choices = 0 => page[h].universe = None
      BY MapTypes DEF PageFits, Unchosen
    <3>2. \A i \in DOMAIN request'[h] : request'[h][i] = page[h].universe
      BY <1>3
    <3>. QED
      BY <1>3, <1>4, <3>1, <3>2 DEF Unchosen
  <2>. QED
    BY <2>1, <2>2, <2>3
<1>6. ASSUME NEW c \in Cid PROVE Fits(h, c)'
  <2>1. Constructing(h)' /\ told'[h][c] = None
    BY <1>1, <1>3 DEF Constructing, NoOffers
  <2>2. Offers(h, c)' = {}
    BY <1>4 DEF Offers, Mentions
  <2>3. page'[h].visits = 1 => page'[h].map[c] = None
    BY <1>3, MapTypes DEF PageFits, Parked, NewPage, NoOffers
  <2>. QED
    BY <2>1, <2>2, <2>3 DEF Fits, FoundFits, LostFits, Universes
<1>7. ASSUME NEW g \in Handler \ {h} PROVE PageFits(g)'
  <2>1. ~Constructing(g) /\ ~Constructing(g)'
    BY <1>1, <1>7 DEF Constructing, Idle
  <2>2. request'[g] = request[g] /\ page'[g] = page[g] /\ told'[g] = told[g]
    BY <1>1, MapTypes DEF MapTypeOK, TypeOK
  <2>. QED
    BY <1>1, <2>1, <2>2, MapTypes, OtherPages
<1>. QED
  BY <1>2, <1>5, <1>6, <1>7 DEF PageFits

\* What a step sends to one page changes nothing else.
LEMMA SendPages ==
    ASSUME MapIInv, NEW h \in Handler, h \in subscribed, NEW s \in Seq(Message), Send(h, s),
           UNCHANGED <<page, subscribed>>,
           \A g \in Handler \ {h} :
              /\ watched'[g] = watched[g] /\ heard'[g] = heard[g]
              /\ signals'[g] = signals[g] /\ request'[g] = request[g]
              /\ told'[g] = told[g] /\ (Constructing(g)' <=> Constructing(g)),
           ~Constructing(h)', Unchosen(h)',
           wire'[h] = wire[h] \o s => \A c \in Cid : Fits(h, c)'
    PROVE  /\ wire' \in [Handler -> Seq(Message)]
           /\ \A g \in Handler : PageFits(g)'
<1>1. wire' = [wire EXCEPT ![h] = wire[h] \o s]
  BY DEF Send
<1>2. wire[h] \o s \in Seq(Message)
  BY MapTypes
<1>3. wire' \in [Handler -> Seq(Message)] /\ wire'[h] = wire[h] \o s
      /\ \A g \in Handler \ {h} : wire'[g] = wire[g]
  BY <1>1, <1>2, MapTypes DEF MapTypeOK
<1>4. PageFits(h)'
  BY <1>3, MapTypes DEF PageFits, Parked, FirstOfAll
<1>5. \A g \in Handler \ {h} : PageFits(g)'
  BY <1>3, MapTypes, OtherPages
<1>. QED
  BY <1>3, <1>4, <1>5

LEMMA SnapshotPages ==
    ASSUME MapIInv, MapSendKnownSources
    PROVE  MapTypeOK' /\ \A h \in Handler : PageFits(h)'
<1>1. PICK h \in subscribed : main.h = h
  BY MapTypes DEF MapSendKnownSources, SendKnownSources, SubscribedFirst
<1>2. h \in Handler /\ Constructing(h) /\ \A g : g # h => ~Constructing(g)
  BY <1>1, MapTypes DEF MapSendKnownSources, SendKnownSources, TypeOK, Constructing
<1>. PICK keys \in SUBSET Cid : keys = {c \in Cid : found[c] # None}
  OBVIOUS
<1>3. PICK order \in Walks(keys) :
         Send(h, [i \in DOMAIN order |-> Offered(order[i], found[order[i]])])
  BY <1>1 DEF MapSendKnownSources
<1>. PICK s : s = [i \in DOMAIN order |-> Offered(order[i], found[order[i]])]
  OBVIOUS
<1>4. \A i \in DOMAIN order : s[i] = Offered(order[i], found[order[i]]) /\ s[i] \in Message
  <2>1. \A i \in DOMAIN order : order[i] \in Cid
    BY WalkFacts
  <2>2. found \in [Cid -> Offer]
    BY MapTypes DEF TypeOK
  <2>. QED
    BY <2>1, <2>2 DEF Offered, Message
<1>5. DOMAIN s = DOMAIN order /\ s \in Seq(Message)
  BY <1>4, WalkIsSequence
<1>6. /\ UNCHANGED <<watched, heard, signals, request, page, subscribed, found>>
      /\ told' = [told EXCEPT ![h] = found] /\ main' = Idle
  BY <1>1 DEF MapSendKnownSources, SendKnownSources
<1>7. /\ \A g : ~Constructing(g)'
      /\ told'[h] = found /\ \A g \in Handler \ {h} : told'[g] = told[g]
  BY <1>2, <1>6, MapTypes DEF Constructing, Idle, TypeOK
<1>8. Unchosen(h)'
  BY <1>2, <1>6, MapTypes DEF PageFits, Unchosen, Silent
<1>9. wire'[h] = wire[h] \o s => \A c \in Cid : Fits(h, c)'
  <2>1. \A c \in Cid : Fits(h, c)
    BY <1>1, <1>2, MapTypes DEF PageFits
  <2>2. \A d \in Cid : d \in keys <=> found[d] # None
    OBVIOUS
  <2>. QED
    BY <1>2, <1>4, <1>5, <1>6, <1>7, <2>1, <2>2, SnapshotFits
<1>10. wire' \in [Handler -> Seq(Message)] /\ \A g \in Handler : PageFits(g)'
  BY <1>1, <1>2, <1>3, <1>5, <1>6, <1>7, <1>8, <1>9, SendPages
<1>. QED
  BY <1>6, <1>10, MapTypes DEF MapTypeOK

LEMMA DeliverPages ==
    ASSUME MapIInv, NEW h \in Handler, MapDeliver(h)
    PROVE  MapTypeOK' /\ \A g \in Handler : PageFits(g)'
<1>1. /\ main.pc \in {"idle", "closing"} /\ queue[h] # <<>> /\ queue[h] \in Seq(Event)
      /\ UNCHANGED <<watched, heard, signals, request, page, subscribed, found, main>>
  BY MapTypes DEF MapDeliver, Deliver, TypeOK
<1>2. h \in subscribed
  BY <1>1, MapTypes DEF SubscribedFirst
<1>3. PICK d \in Cid, offer \in Offer : d = Head(queue[h]).cid /\ offer = Head(queue[h]).offer
  <2>1. Head(queue[h]) \in Event
    BY <1>1, TailIndices
  <2>. QED
    BY <2>1 DEF Event
<1>. PICK m : m = IF offer = None THEN Gone(d) ELSE Offered(d, offer)
  OBVIOUS
<1>4. Send(h, <<m>>) /\ m \in Message
  BY <1>3 DEF MapDeliver, Message, Gone, Offered, Offer
<1>5. /\ told'[h][d] = offer /\ \A c \in Cid : c # d => told'[h][c] = told[h][c]
      /\ \A g \in Handler \ {h} : told'[g] = told[g]
  BY <1>3, MapTypes DEF MapDeliver, Deliver, TypeOK
<1>6. \A g : ~Constructing(g) /\ ~Constructing(g)'
  BY <1>1 DEF Constructing
<1>7. Unchosen(h)'
  BY <1>1, MapTypes DEF PageFits, Unchosen, Silent
<1>8. wire'[h] = wire[h] \o <<m>> => \A c \in Cid : Fits(h, c)'
  <2>1. \A c \in Cid : Fits(h, c)
    BY <1>2, MapTypes DEF PageFits
  <2>. QED
    BY <1>1, <1>5, <1>6, <2>1, NewsFits
<1>9. wire' \in [Handler -> Seq(Message)] /\ \A g \in Handler : PageFits(g)'
  <2>1. <<m>> \in Seq(Message)
    BY <1>4
  <2>. QED
    BY <1>1, <1>2, <1>4, <1>5, <1>6, <1>7, <1>8, <2>1, SendPages
<1>. QED
  BY <1>1, <1>9, MapTypes DEF MapTypeOK

\* A connection that ends takes with it what was under way.
LEMMA ForgetPages ==
    ASSUME MapIInv, NEW hs \in SUBSET Handler, Forget(hs), subscribed' = subscribed \ hs,
           told' = told, \A g \in Handler \ hs : Constructing(g)' <=> Constructing(g),
           \A h \in hs : ~Constructing(h)',
           \A h \in hs : page[h].visits = 0 => page[h] = NewPage
    PROVE  MapTypeOK' /\ \A g \in Handler : PageFits(g)'
<1>1. \A h \in hs : /\ watched'[h] = None /\ heard'[h] = {} /\ signals'[h] = <<>>
                    /\ wire'[h] = <<>> /\ request'[h] = <<>> /\ page'[h] = page[h]
  BY DEF Forget
<1>2. \A g \in Handler \ hs :
         /\ watched'[g] = watched[g] /\ heard'[g] = heard[g] /\ signals'[g] = signals[g]
         /\ wire'[g] = wire[g] /\ request'[g] = request[g] /\ page'[g] = page[g]
  BY DEF Forget
<1>3. MapTypeOK'
  <2>1. <<>> \in Seq(Signal) /\ <<>> \in Seq(Message) /\ <<>> \in Seq(Universe \cup {None})
    OBVIOUS
  <2>2. /\ watched' \in [Handler -> Universe \cup {None}]
        /\ heard' \in [Handler -> SUBSET Cid]
    BY MapTypes DEF MapTypeOK, Forget
  <2>3. /\ signals' \in [Handler -> Seq(Signal)]
        /\ wire' \in [Handler -> Seq(Message)]
        /\ request' \in [Handler -> Seq(Universe \cup {None})]
    BY <2>1, MapTypes DEF MapTypeOK, Forget
  <2>. QED
    BY <2>2, <2>3, MapTypes DEF MapTypeOK, Forget
<1>4. ASSUME NEW h \in hs PROVE PageFits(h)'
  <2>1. h \notin subscribed' /\ page[h].choices = 0 => page[h].universe = None
    BY MapTypes DEF PageFits, Unchosen
  <2>2. Unchosen(h)'
    BY <1>1, <2>1, MapTypes DEF Unchosen, Silent, PageFits
  <2>3. Parked(h)'
    BY <1>1 DEF Parked, Silent
  <2>. QED
    BY <2>2, <2>3 DEF PageFits, FirstOfAll
<1>5. \A g \in Handler \ hs : PageFits(g)'
  BY <1>2, MapTypes, OtherPages
<1>. QED
  BY <1>3, <1>4, <1>5

LEMMA EndPages ==
    ASSUME MapIInv, MapCloseAll \/ \E h \in Handler : MapDestroy(h)
    PROVE  MapTypeOK' /\ \A g \in Handler : PageFits(g)'
<1>1. \A h \in Handler : page[h].visits = 0 => page[h] = NewPage
  BY MapTypes DEF PageFits, Parked
<1>2. CASE MapCloseAll
  <2>1. Forget(Handler) /\ subscribed' = subscribed \ Handler /\ told' = told
        /\ \A g : ~Constructing(g)'
    BY <1>2, MapTypes DEF MapCloseAll, CloseAll, TypeOK, Constructing, Idle
  <2>. QED
    BY <1>1, <2>1, ForgetPages
<1>3. ASSUME NEW h \in Handler, MapDestroy(h)
      PROVE  MapTypeOK' /\ \A g \in Handler : PageFits(g)'
  <2>1. Forget({h}) /\ subscribed' = subscribed \ {h} /\ told' = told
        /\ \A g : ~Constructing(g)' /\ ~Constructing(g)
    BY <1>3 DEF MapDestroy, Destroy, Constructing, Idle
  <2>. QED
    BY <1>1, <2>1, ForgetPages
<1>. QED
  BY <1>2, <1>3

LEMMA ChangeUniversePages ==
    ASSUME MapIInv, NEW h \in Handler, OnChangeUniverse(h)
    PROVE  MapTypeOK' /\ \A g \in Handler : PageFits(g)'
<1>1. /\ main = Idle /\ request[h] # <<>> /\ h \in subscribed
      /\ request[h] \in Seq(Universe \cup {None})
      /\ UNCHANGED <<detectorVars, signals, page>>
  BY MapTypes DEF OnChangeUniverse
<1>2. PICK u \in Universe \cup {None} : u = Head(request[h])
  BY <1>1, RestIndices
<1>. PICK known \in SUBSET Cid :
        /\ u = None => known = {}
        /\ heard' = [heard EXCEPT ![h] = known]
        /\ \E order \in Walks(known) : Send(h, [i \in DOMAIN order |-> Heard(order[i])])
  BY <1>2 DEF OnChangeUniverse
<1>3. PICK order \in Walks(known) : Send(h, [i \in DOMAIN order |-> Heard(order[i])])
  OBVIOUS
<1>4. /\ watched' = [watched EXCEPT ![h] = u]
      /\ request' = [request EXCEPT ![h] = Tail(request[h])]
  BY <1>2 DEF OnChangeUniverse
<1>. PICK s : s = [i \in DOMAIN order |-> Heard(order[i])]
  OBVIOUS
<1>5. \A i \in DOMAIN order : s[i] \in Signal
  <2>1. \A i \in DOMAIN order : order[i] \in Cid
    BY WalkFacts
  <2>2. {} \in Offer
    BY DEF Offer
  <2>. QED
    BY <2>1, <2>2 DEF Heard, Signal, Message
<1>6. s \in Seq(Signal) /\ s \in Seq(Message)
  <2>1. s \in Seq(Signal)
    BY <1>5, WalkIsSequence
  <2>. QED
    BY <2>1 DEF Signal
<1>7. known = {} => s = <<>>
  <2>1. known = {} => DOMAIN s = {}
    BY EmptyWalk
  <2>. QED
    BY <1>6, <2>1
<1>8. /\ Tail(request[h]) \in Seq(Universe \cup {None})
      /\ \A i \in DOMAIN Tail(request[h]) :
            \E j \in DOMAIN request[h] : Tail(request[h])[i] = request[h][j]
      /\ 1 \in DOMAIN request[h] /\ u = request[h][1]
  BY <1>1, <1>2, RestIndices
<1>9. /\ watched'[h] = u /\ heard'[h] = known /\ request'[h] = Tail(request[h])
      /\ \A g \in Handler \ {h} : /\ watched'[g] = watched[g] /\ heard'[g] = heard[g]
                                  /\ request'[g] = request[g]
  BY <1>3, <1>4, MapTypes DEF MapTypeOK
<1>10. page[h].choices = 0 => u = None /\ known = {} /\ s = <<>>
  BY <1>3, <1>7, <1>8, MapTypes DEF PageFits, Unchosen
<1>11. Unchosen(h)'
  BY <1>1, <1>8, <1>9, <1>10, MapTypes DEF PageFits, Unchosen, Silent
<1>12. /\ told' = told /\ main' = main /\ subscribed' = subscribed
       /\ \A g : ~Constructing(g) /\ ~Constructing(g)'
  BY <1>1 DEF detectorVars, Constructing, Idle
<1>13. wire'[h] = wire[h] \o s => \A c \in Cid : Fits(h, c)'
  <2>1. \A c \in Cid : Fits(h, c)
    BY <1>1, MapTypes DEF PageFits
  <2>2. page'[h] = page[h] /\ told'[h] = told[h]
    BY <1>1, <1>12
  <2>. QED
    BY <1>6, <1>10, <1>12, <2>1, <2>2, SignalsFit
<1>14. wire' \in [Handler -> Seq(Message)] /\ \A g \in Handler : PageFits(g)'
  BY <1>1, <1>3, <1>6, <1>9, <1>11, <1>12, <1>13, SendPages
<1>15. MapTypeOK'
  <2>1. request' \in [Handler -> Seq(Universe \cup {None})]
    BY <1>4, <1>8, MapTypes DEF MapTypeOK
  <2>. QED
    BY <1>1, <1>3, <1>4, <1>14, <2>1, MapTypes DEF MapTypeOK
<1>. QED
  BY <1>14, <1>15

LEMMA ReceiverPages ==
    ASSUME MapIInv, NEW h \in Handler, NEW c \in Cid, ReceiverHears(h, c) \/ ReceiverLoses(h, c)
    PROVE  MapTypeOK' /\ \A g \in Handler : PageFits(g)'
<1>1. PICK m : /\ m \in {Heard(c), Gone(c)}
               /\ signals' = [signals EXCEPT ![h] = Append(signals[h], m)]
  BY DEF ReceiverHears, ReceiverLoses
<1>2. m \in Signal
  <2>1. {} \in Offer /\ None \in Offer
    BY DEF Offer
  <2>2. Heard(c) \in Signal
    BY <2>1 DEF Heard, Signal, Message
  <2>3. Gone(c) \in Signal
    BY <2>1 DEF Gone, Signal, Message
  <2>. QED
    BY <1>1, <2>2, <2>3
<1>3. /\ UNCHANGED <<detectorVars, watched, wire, request, page>>
      /\ ~Silent(h)
  BY DEF ReceiverHears, ReceiverLoses, Silent
<1>4. /\ heard' \in [Handler -> SUBSET Cid]
      /\ \A g \in Handler \ {h} : heard'[g] = heard[g]
  <2>1. heard \in [Handler -> SUBSET Cid]
    BY MapTypes DEF MapTypeOK
  <2>2. PICK now \in SUBSET Cid : heard' = [heard EXCEPT ![h] = now]
    BY <2>1 DEF ReceiverHears, ReceiverLoses
  <2>. QED
    BY <2>1, <2>2
<1>5. h \in subscribed /\ page[h].choices # 0
  BY <1>3, MapTypes DEF PageFits, Parked, Unchosen
<1>6. signals' \in [Handler -> Seq(Signal)] /\ \A g \in Handler \ {h} : signals'[g] = signals[g]
  <2>1. Append(signals[h], m) \in Seq(Signal)
    BY <1>2, MapTypes
  <2>. QED
    BY <1>1, <2>1, MapTypes DEF MapTypeOK
<1>7. MapTypeOK'
  BY <1>3, <1>4, <1>6, MapTypes DEF MapTypeOK
<1>8. told' = told /\ subscribed' = subscribed /\ \A g : Constructing(g)' <=> Constructing(g)
  BY <1>3 DEF detectorVars, Constructing
<1>9. PageFits(h)'
  <2>1. \A d \in Cid : Fits(h, d)'
    BY <1>3, <1>5, <1>8, MapTypes, SamePage DEF PageFits
  <2>. QED
    BY <1>3, <1>5, <1>8, <2>1, MapTypes DEF PageFits, Parked, FirstOfAll, Unchosen
<1>10. \A g \in Handler \ {h} : PageFits(g)'
  BY <1>3, <1>4, <1>6, <1>8, MapTypes, OtherPages
<1>. QED
  BY <1>7, <1>9, <1>10

LEMMA SignalPages ==
    ASSUME MapIInv, NEW h \in Handler, DeliverSignal(h)
    PROVE  MapTypeOK' /\ \A g \in Handler : PageFits(g)'
<1>1. /\ main.pc \in {"idle", "closing"} /\ signals[h] # <<>> /\ signals[h] \in Seq(Signal)
      /\ signals' = [signals EXCEPT ![h] = Tail(signals[h])]
      /\ Send(h, <<Head(signals[h])>>)
      /\ UNCHANGED <<detectorVars, watched, heard, request, page>>
  BY MapTypes DEF DeliverSignal
<1>2. Head(signals[h]) \in Signal /\ Tail(signals[h]) \in Seq(Signal)
  BY <1>1, RestIndices
<1>. PICK s : s = <<Head(signals[h])>>
  OBVIOUS
<1>3. s \in Seq(Signal) /\ s \in Seq(Message)
  <2>1. Head(signals[h]) \in Message
    BY <1>2 DEF Signal
  <2>. QED
    BY <1>2, <2>1
<1>4. h \in subscribed /\ page[h].choices # 0
  BY <1>1, MapTypes DEF PageFits, Parked, Unchosen, Silent
<1>5. /\ signals' \in [Handler -> Seq(Signal)]
      /\ \A g \in Handler \ {h} : signals'[g] = signals[g]
  BY <1>1, <1>2, MapTypes DEF MapTypeOK
<1>6. /\ told' = told /\ main' = main /\ subscribed' = subscribed
      /\ \A g : ~Constructing(g) /\ ~Constructing(g)'
  BY <1>1 DEF detectorVars, Constructing
<1>7. wire'[h] = wire[h] \o s => \A c \in Cid : Fits(h, c)'
  <2>1. \A c \in Cid : Fits(h, c)
    BY <1>4, MapTypes DEF PageFits
  <2>2. page'[h] = page[h] /\ told'[h] = told[h]
    BY <1>1, <1>6
  <2>. QED
    BY <1>3, <1>4, <1>6, <2>1, <2>2, SignalsFit
<1>8. Unchosen(h)'
  BY <1>1, <1>4 DEF Unchosen
<1>9. wire' \in [Handler -> Seq(Message)] /\ \A g \in Handler : PageFits(g)'
  BY <1>1, <1>3, <1>4, <1>5, <1>6, <1>7, <1>8, SendPages
<1>. QED
  BY <1>1, <1>5, <1>9, MapTypes DEF MapTypeOK

LEMMA ReceivePages ==
    ASSUME MapIInv, NEW h \in Handler, PageReceives(h)
    PROVE  MapTypeOK' /\ \A g \in Handler : PageFits(g)'
<1>1. /\ wire[h] # <<>> /\ wire' = [wire EXCEPT ![h] = Tail(wire[h])]
      /\ UNCHANGED <<detectorVars, watched, heard, signals, request>>
  BY DEF PageReceives
<1>2. h \in subscribed /\ ~Constructing(h)
  BY <1>1, MapTypes DEF PageFits, Parked, FirstOfAll
<1>. PICK m : m = Head(wire[h])
  OBVIOUS
<1>. PICK after : after = IF m.type = "gone" THEN None ELSE UniversesAfter(h, m)
  OBVIOUS
<1>3. m \in Message /\ Tail(wire[h]) \in Seq(Message)
  BY <1>1, MapTypes, RestIndices
<1>4. page[h].universe \in Universe \cup {None}
      /\ page[h].map \in [Cid -> {None} \cup SUBSET (Universe \cup {None})]
  BY MapTypes DEF PageState
<1>5. after \in {None} \cup SUBSET (Universe \cup {None})
  <2>1. m.cid \in Cid /\ m.offer \in {None} \cup SUBSET Universe
    BY <1>3 DEF Message, Offer
  <2>. QED
    BY <1>4, <2>1 DEF UniversesAfter
<1>6. page' = [page EXCEPT ![h] = [page[h] EXCEPT !.map[m.cid] = after]]
  BY MapTypes DEF PageReceives, MapTypeOK, PageState
<1>7. [page[h] EXCEPT !.map[m.cid] = after] \in PageState
  BY <1>5, MapTypes DEF PageState
<1>8. MapTypeOK'
  <2>1. wire' \in [Handler -> Seq(Message)] /\ page' \in [Handler -> PageState]
    BY <1>1, <1>3, <1>6, <1>7, MapTypes DEF MapTypeOK
  <2>. QED
    BY <1>1, <2>1, MapTypes DEF MapTypeOK
<1>9. /\ page'[h].visits = page[h].visits /\ page'[h].choices = page[h].choices
      /\ page'[h].universe = page[h].universe
      /\ \A g \in Handler \ {h} : page'[g] = page[g] /\ wire'[g] = wire[g]
  BY <1>1, <1>6, MapTypes DEF MapTypeOK, PageState
<1>10. told' = told /\ subscribed' = subscribed /\ \A g : Constructing(g)' <=> Constructing(g)
  BY <1>1 DEF detectorVars, Constructing
<1>11. PageFits(h)'
  <2>1. \A c \in Cid : Fits(h, c)'
    BY <1>2, MapTypes, ReceivedFits DEF PageFits
  <2>2. page[h].visits # 0
    BY <1>2, MapTypes DEF PageFits, Parked
  <2>3. Unchosen(h)'
    BY <1>1, <1>9, MapTypes DEF PageFits, Unchosen, Silent
  <2>. QED
    BY <1>2, <1>9, <1>10, <2>1, <2>2, <2>3 DEF PageFits, Parked, FirstOfAll
<1>12. \A g \in Handler \ {h} : PageFits(g)'
  BY <1>1, <1>9, <1>10, MapTypes, OtherPages
<1>. QED
  BY <1>8, <1>11, <1>12

LEMMA ChoosePages ==
    ASSUME MapIInv, NEW h \in Handler, NEW u \in Universe, ChooseUniverse(h, u)
    PROVE  MapTypeOK' /\ \A g \in Handler : PageFits(g)'
<1>. DEFINE p == [page[h] EXCEPT !.universe = u, !.map = NoOffers,
                                 !.choices = page[h].choices + 1]
<1>1. /\ h \in subscribed
      /\ page' = [page EXCEPT ![h] = p]
      /\ request' = [request EXCEPT ![h] = Append(request[h], u)]
      /\ UNCHANGED <<detectorVars, watched, heard, signals, wire>>
  BY MapTypes DEF ChooseUniverse, MapTypeOK, PageState
<1>2. p \in PageState /\ p.choices # 0 /\ p.map = NoOffers /\ p.visits = page[h].visits
  <2>1. page[h] \in PageState
    BY MapTypes
  <2>2. page[h].choices \in Nat
    BY <2>1 DEF PageState
  <2>3. page[h].choices + 1 \in Nat \ {0}
    BY <2>2
  <2>4. NoOffers \in [Cid -> {None} \cup SUBSET (Universe \cup {None})]
    BY DEF NoOffers
  <2>. QED
    BY <2>1, <2>3, <2>4 DEF PageState
<1>. HIDE DEF p
<1>3. MapTypeOK'
  <2>1. Append(request[h], u) \in Seq(Universe \cup {None})
    BY MapTypes
  <2>2. request' \in [Handler -> Seq(Universe \cup {None})] /\ page' \in [Handler -> PageState]
    BY <1>1, <1>2, <2>1, MapTypes DEF MapTypeOK
  <2>. QED
    BY <1>1, <2>2, MapTypes DEF MapTypeOK
<1>4. /\ page'[h] = p
      /\ \A g \in Handler \ {h} : page'[g] = page[g] /\ request'[g] = request[g]
  BY <1>1, MapTypes DEF MapTypeOK
<1>5. told' = told /\ subscribed' = subscribed /\ \A g : Constructing(g)' <=> Constructing(g)
  BY <1>1 DEF detectorVars, Constructing
<1>6. ASSUME NEW c \in Cid PROVE Fits(h, c)'
  <2>1. Fits(h, c)
    BY <1>1, MapTypes DEF PageFits
  <2>2. Universes(page'[h].map[c]) = {}
    BY <1>2, <1>4 DEF Universes, NoOffers
  <2>3. Offers(h, c)' = Offers(h, c) /\ Mentions(h, c)' = Mentions(h, c)
    BY <1>1 DEF Offers, Mentions
  <2>4. page[h].visits = 1 => FoundFits(h, c)' /\ LostFits(h, c)'
    BY <1>1, <1>5, <2>1, <2>2, <2>3 DEF Fits, FoundFits, LostFits
  <2>. QED
    BY <1>2, <1>4, <2>4 DEF Fits
<1>7. PageFits(h)'
  <2>1. page[h].visits # 0 /\ Parked(h) /\ FirstOfAll(h)
    BY <1>1, MapTypes DEF PageFits, Parked
  <2>2. Parked(h)' /\ FirstOfAll(h)' /\ Unchosen(h)'
    BY <1>1, <1>2, <1>4, <1>5, <2>1 DEF Parked, FirstOfAll, Unchosen
  <2>. QED
    BY <1>6, <2>2 DEF PageFits
<1>8. \A g \in Handler \ {h} : PageFits(g)'
  BY <1>1, <1>4, <1>5, MapTypes, OtherPages
<1>. QED
  BY <1>3, <1>7, <1>8

-----------------------------------------------------------------------------
LEMMA MapInitIInv == MapInit => MapIInv
<1>. SUFFICES ASSUME MapInit PROVE MapIInv
  OBVIOUS
<1>1. IInv
  BY InitIInv DEF MapInit
<1>2. NewPage \in PageState /\ NewPage.choices = 0 /\ NewPage.universe = None
  BY DEF NewPage, PageState, NoOffers
<1>3. MapTypeOK
  <2>1. <<>> \in Seq(Signal) /\ <<>> \in Seq(Message) /\ <<>> \in Seq(Universe \cup {None})
    OBVIOUS
  <2>2. page \in [Handler -> PageState]
    BY <1>2 DEF MapInit
  <2>. QED
    BY <2>1, <2>2 DEF MapInit, MapTypeOK
<1>4. ASSUME NEW h \in Handler PROVE PageFits(h)
  <2>1. /\ watched[h] = None /\ heard[h] = {} /\ signals[h] = <<>> /\ wire[h] = <<>>
        /\ request[h] = <<>> /\ page[h] = NewPage
    BY DEF MapInit
  <2>2. h \notin subscribed /\ ~Constructing(h)
    BY DEF MapInit, Init, Idle, Constructing
  <2>. QED
    BY <1>2, <2>1, <2>2 DEF PageFits, Parked, FirstOfAll, Unchosen, Silent
<1>. QED
  BY <1>1, <1>3, <1>4 DEF MapIInv

LEMMA MapNextIInv == MapIInv /\ [MapNext]_vars => MapIInv'
<1>. SUFFICES ASSUME MapIInv, [MapNext]_vars PROVE MapIInv'
  OBVIOUS
<1>1. IInv'
  BY MapStepIsDetectorStep, NextIInv DEF MapIInv
<1>2. MapTypeOK' /\ \A h \in Handler : PageFits(h)'
  <2>1. CASE UNCHANGED vars
    <3>1. \A g : Constructing(g)' <=> Constructing(g)
      BY <2>1 DEF vars, detectorVars, Constructing
    <3>2. MapTypeOK'
      BY <2>1, MapTypes DEF vars, mapVars, MapTypeOK
    <3>. QED
      BY <2>1, <3>1, <3>2, MapTypes, OtherPages DEF vars, mapVars, detectorVars
  <2>2. CASE MapNext
    BY <2>2, DetectorPages, ConstructPages, SnapshotPages, DeliverPages, EndPages,
       ChangeUniversePages, ReceiverPages, SignalPages, ReceivePages, ChoosePages DEF MapNext
  <2>. QED
    BY <2>1, <2>2
<1>. QED
  BY <1>1, <1>2 DEF MapIInv

LEMMA MapInvariant == MapSpec => []MapIInv
  BY MapInitIInv, MapNextIInv, PTL DEF MapSpec

\* With nothing under way, what a page was told is what was found.
LEMMA QuietIsTold ==
    ASSUME MapIInv, NEW h \in Handler, Quiet(h), NEW c \in Cid
    PROVE  /\ told[h][c] = found[c] /\ Fits(h, c) /\ ~Constructing(h)
           /\ Mentions(h, c) = {} /\ Offers(h, c) = {}
<1>1. h \in subscribed /\ main = Idle /\ queue[h] = <<>> /\ wire[h] = <<>>
  BY DEF Quiet
<1>2. ~Constructing(h)
  BY <1>1 DEF Constructing, Idle
<1>3. RestIsTold(h)
  BY <1>1, <1>2 DEF MapIInv, IInv, OffersReachClient, Idle
<1>4. told[h][c] = found[c]
  BY <1>1, <1>3 DEF RestIsTold
<1>. QED
  BY <1>1, <1>2, <1>4, MapTypes DEF PageFits, Mentions, Offers

\* A page on its first connection never shows a source with a universe that it
\* neither sends nor was chosen, whatever messages of the detector, of the
\* receiver and of an earlier universe crossed on the way (onSourceUpdated).
THEOREM UniversesAreReal == MapSpec => []NoPhantomUniverses
<1>1. MapIInv => NoPhantomUniverses
  <2>. SUFFICES ASSUME MapIInv, NEW h \in Handler, NEW c \in Cid,
                       Quiet(h), page[h].visits = 1, found[c] # {}
                PROVE  Universes(page[h].map[c])
                          \subseteq Universes(found[c]) \cup {page[h].universe}
    BY DEF NoPhantomUniverses
  <2>1. told[h][c] = found[c] /\ FoundFits(h, c) /\ LostFits(h, c)
        /\ Mentions(h, c) = {} /\ Offers(h, c) = {}
    BY QuietIsTold DEF Fits
  <2>2. CASE found[c] = None
    BY <2>1, <2>2 DEF LostFits
  <2>3. CASE found[c] # None
    BY <2>1, <2>3 DEF FoundFits, Universes
  <2>. QED
    BY <2>2, <2>3
<1>. QED
  BY <1>1, MapInvariant, PTL


\* Until its user chooses a universe, a page offers every universe discovered,
\* also after it has lost its connection and made another.
THEOREM UniversesAreOffered == MapSpec => []OfferedUntilChoice
<1>1. MapIInv => OfferedUntilChoice
  <2>. SUFFICES ASSUME MapIInv, NEW h \in Handler, Quiet(h), page[h].choices = 0,
                       NEW c \in Cid, NEW u \in Universes(found[c])
                PROVE  u \in Buttons(h)
    BY DEF OfferedUntilChoice, Discovered
  <2>1. told[h][c] = found[c] /\ ShownFits(h, c) /\ Mentions(h, c) = {}
    BY QuietIsTold DEF Fits
  <2>2. page[h].map[c] = found[c]
    BY <2>1 DEF ShownFits, Universes
  <2>. QED
    BY <2>2 DEF Buttons
<1>. QED
  BY <1>1, MapInvariant, PTL
=============================================================================
