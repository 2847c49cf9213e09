------------------------- MODULE TransmitLevelsProofs -------------------------
(* Proofs about TransmitLevels: for any universes, priorities, addresses and *)
(* levels, what goes out in the end is what the page shows.                  *)
EXTENDS TransmitLevels, TransmitHandlerProofs

-----------------------------------------------------------------------------
(* The inductive invariant.                                                 *)

\* What the page shows has been told or is on its way.
Announced ==
    /\ BaseAnnounced
    /\ Told(inbox, "pap", usePap, config.pap)
    /\ Told(inbox, "levels", levelBuf, LevelBuffer(levels))

IInv == TypeOK /\ Wire /\ Closed /\ (open => Announced)

\* What the page sends of its faders are levels (ubyte of the message).
LEMMA LevelBufferType ==
    ASSUME NEW lvls \in [Address -> Fader]
    PROVE  LevelBuffer(lvls) \in [Address -> Level]
  BY FaderAssumption DEF LevelBuffer

LEMMA Fields ==
    ASSUME NEW m \in Message
    PROVE  /\ "universe" \in DOMAIN m => m.universe \in Universe
           /\ "priority" \in DOMAIN m => m.priority \in Priority
           /\ "pap" \in DOMAIN m => m.pap \in BOOLEAN
           /\ "levels" \in DOMAIN m => m.levels \in [Address -> Level]
           /\ "transmit" \in DOMAIN m => m.transmit \in BOOLEAN
           /\ \A f, g \in {"universe", "priority", "pap", "levels", "transmit"} :
                 f \in DOMAIN m /\ g \in DOMAIN m => f = g
  BY DEF Message, ConfigMessage

LEMMA InitIInv == Init => IInv
<1>. SUFFICES ASSUME Init PROVE IInv
  OBVIOUS
<1>1. /\ Dark \in [Address -> Level] /\ Dark \in [Address -> Priority] /\ Off.on = FALSE
      /\ Dark \in [Address -> Fader]
  BY TransmitConstants, FaderAssumption DEF Dark, Off
<1>2. DefaultConfig \in ConfigType
  BY TransmitConstants DEF DefaultConfig, ConfigType
<1>3. BaseTypeOK
  BY <1>1, <1>2, CallTypes, OffType, TransmitConstants DEF Init, BaseTypeOK
<1>4. <<>> \in Seq(Message)
  OBVIOUS
<1>. QED
  BY <1>1, <1>3, <1>4 DEF Init, TypeOK, IInv, Wire, Closed

-----------------------------------------------------------------------------
(* The page and its connection.                                             *)

LEMMA EditIInv ==
    ASSUME IInv, EditConfig \/ PressStartStop, UNCHANGED levels
    PROVE  IInv'
<1>1. BaseTypeOK /\ inbox \in Seq(Message) /\ levels \in [Address -> Fader]
  BY DEF IInv, TypeOK
<1>2. /\ open /\ config' \in ConfigType /\ UNCHANGED <<handlerVars, live, calls, open>>
  BY <1>1, EditIs
<1>3. PICK m \in ConfigMessage :
         /\ Send(m)
         /\ "universe" \in DOMAIN m => ~config.transmit
         /\ IF "universe" \in DOMAIN m THEN m.universe = config'.universe
            ELSE config'.universe = config.universe
         /\ IF "priority" \in DOMAIN m THEN m.priority = config'.priority
            ELSE config'.priority = config.priority
         /\ IF "pap" \in DOMAIN m THEN m.pap = config'.pap ELSE config'.pap = config.pap
         /\ IF "transmit" \in DOMAIN m THEN m.transmit = config'.transmit
            ELSE config'.transmit = config.transmit
         /\ DOMAIN m \cap {"levels", "address", "level", "blink"} = {}
  BY <1>1, EditIs
<1>4. m \in Message /\ Announced
  BY <1>2 DEF Message, IInv
<1>5. inbox' \in Seq(Message) /\ BaseAnnounced'
  BY <1>1, <1>2, <1>3, <1>4, PushAnnounced DEF Announced
<1>6. inbox' = Append(inbox, m)
  BY <1>3 DEF Send
<1>7. Told(inbox', "pap", usePap', config'.pap)
  BY <1>1, <1>2, <1>3, <1>4, <1>6, ToldPush DEF Announced, handlerVars
<1>8. Told(inbox', "levels", levelBuf', LevelBuffer(levels'))
  BY <1>1, <1>2, <1>3, <1>4, <1>6, ToldPush DEF Announced, handlerVars
<1>. QED
  BY <1>1, <1>2, <1>5, <1>7, <1>8
  DEF IInv, TypeOK, BaseTypeOK, Announced, Wire, Closed, handlerVars

LEMMA SetLevelIInv ==
    ASSUME IInv, NEW a \in Address, NEW l \in Fader, SetLevel(a, l)
    PROVE  IInv'
<1>1. BaseTypeOK /\ inbox \in Seq(Message) /\ open /\ config' \in ConfigType
      /\ UNCHANGED <<handlerVars, live, calls, config, open>>
  BY DEF SetLevel, UserMayAct, IInv, TypeOK, BaseTypeOK
<1>2. levels' \in [Address -> Fader]
  BY DEF SetLevel, IInv, TypeOK
<1>. DEFINE m == [levels |-> LevelBuffer(levels')]
<1>3. m \in Message /\ Send(m) /\ m.levels = LevelBuffer(levels') /\ DOMAIN m = {"levels"}
  BY <1>2, LevelBufferType DEF Message, SetLevel
<1>. HIDE DEF m
<1>4. Announced
  BY <1>1 DEF IInv
<1>5. inbox' \in Seq(Message) /\ BaseAnnounced'
  BY <1>1, <1>3, <1>4, PushAnnounced DEF Announced
<1>6. inbox' = Append(inbox, m)
  BY <1>3 DEF Send
<1>7. Told(inbox', "pap", usePap', config'.pap)
  BY <1>1, <1>3, <1>4, <1>6, ToldPush DEF Announced, handlerVars
<1>8. Told(inbox', "levels", levelBuf', LevelBuffer(levels'))
  BY <1>1, <1>3, <1>4, <1>6, ToldPush DEF Announced
<1>. QED
  BY <1>1, <1>2, <1>5, <1>7, <1>8
  DEF IInv, TypeOK, BaseTypeOK, Announced, Wire, Closed, handlerVars

LEMMA DisconnectIInv ==
    ASSUME IInv, Disconnect, UNCHANGED levels
    PROVE  IInv'
<1>1. inbox' \in Seq(Message)
  BY DEF Disconnect
<1>. QED
  BY <1>1, DisconnectWire DEF Disconnect, IInv, TypeOK, BaseTypeOK, Closed, handlerVars

\* The five messages of a new connection.
LEMMA FirstMessages ==
    ASSUME NEW a, NEW b, NEW c, NEW d, NEW e
    PROVE  LET q == <<[universe |-> a], [pap |-> b], [priority |-> c], [levels |-> d],
                      [transmit |-> e]>>
           IN  /\ Len(q) = 5 /\ DOMAIN q = 1..5
               /\ q[1] = [universe |-> a] /\ q[2] = [pap |-> b] /\ q[3] = [priority |-> c]
               /\ q[4] = [levels |-> d] /\ q[5] = [transmit |-> e]
               /\ DOMAIN q[1] = {"universe"} /\ DOMAIN q[2] = {"pap"}
               /\ DOMAIN q[3] = {"priority"} /\ DOMAIN q[4] = {"levels"}
               /\ DOMAIN q[5] = {"transmit"}
  OBVIOUS

LEMMA ConnectIInv ==
    ASSUME IInv, Connect
    PROVE  IInv'
<1>1. live.on = FALSE /\ live' = live /\ calls = <<>> /\ calls' = <<>>
  BY DEF Connect, IInv, Closed, TypeOK, BaseTypeOK, LiveType
<1>2. Dark \in [Address -> Level] /\ Dark \in [Address -> Priority]
  BY TransmitConstants DEF Dark
<1>3. /\ DOMAIN inbox' = 1..5 /\ Len(inbox') = 5
      /\ inbox'[1] = [universe |-> config'.universe] /\ inbox'[2] = [pap |-> config'.pap]
      /\ inbox'[3] = [priority |-> config'.priority] /\ inbox'[4] = [levels |-> LevelBuffer(levels')]
      /\ inbox'[5] = [transmit |-> config'.transmit]
      /\ DOMAIN inbox'[1] = {"universe"} /\ DOMAIN inbox'[2] = {"pap"}
      /\ DOMAIN inbox'[3] = {"priority"} /\ DOMAIN inbox'[4] = {"levels"}
      /\ DOMAIN inbox'[5] = {"transmit"}
  BY FirstMessages DEF Connect
<1>4. TypeOK'
  <2>0. LevelBuffer(levels) \in [Address -> Level]
    BY LevelBufferType DEF IInv, TypeOK
  <2>1. inbox' \in Seq(Message)
    BY <2>0 DEF Connect, IInv, TypeOK, BaseTypeOK, ConfigType, Message, ConfigMessage
  <2>. QED
    BY <1>2, <2>1, TransmitConstants DEF Connect, ConstructBase, IInv, TypeOK, BaseTypeOK
<1>5. Told(inbox', "universe", universe', config'.universe)
  BY <1>3 DEF Told
<1>6. Told(inbox', "priority", priority', config'.priority)
  BY <1>3 DEF Told
<1>7. Told(inbox', "pap", usePap', config'.pap)
  BY <1>3 DEF Told
<1>8. Told(inbox', "levels", levelBuf', LevelBuffer(levels'))
  BY <1>3 DEF Told
<1>9. Told(inbox', "transmit", live'.on \/ config'.transmit, config'.transmit)
  BY <1>3 DEF Told
<1>10. StoppedBefore(inbox', live'.on)
  BY <1>1, <1>3 DEF StoppedBefore
<1>11. Announced'
  BY <1>5, <1>6, <1>7, <1>8, <1>9, <1>10 DEF Announced, BaseAnnounced
<1>12. Wire' /\ Closed'
  BY <1>1 DEF Connect, Wire, Closed
<1>. QED
  BY <1>4, <1>11, <1>12 DEF IInv

-----------------------------------------------------------------------------
(* The handler's slots.                                                     *)

\* The frame that a slot works in.
LEMMA HandleFrame ==
    ASSUME IInv, Handle
    PROVE  /\ inbox # <<>> /\ inbox' = Tail(inbox) /\ open /\ calls = <<>>
           /\ UNCHANGED <<config, open, levels>> /\ inbox \in Seq(Message)
           /\ inbox[1] \in Message /\ Head(inbox) = inbox[1] /\ Announced
           /\ BaseTypeOK /\ Wire
<1>1. /\ inbox # <<>> /\ inbox' = Tail(inbox) /\ calls = <<>>
      /\ UNCHANGED <<config, open, levels>>
  BY DEF Handle, Receive
<1>. QED
  BY <1>1, TailIs DEF IInv, TypeOK, Closed

\* A slot that does what its message says keeps the invariant.
LEMMA SlotIInv ==
    ASSUME IInv, Handle, NEW m, m = inbox[1],
           universe' = IF "universe" \in DOMAIN m THEN m.universe ELSE universe,
           priority' = IF "priority" \in DOMAIN m THEN m.priority ELSE priority,
           usePap' = IF "pap" \in DOMAIN m THEN m.pap ELSE usePap,
           levelBuf' = IF "levels" \in DOMAIN m THEN m.levels ELSE levelBuf,
           papBuf' \in [Address -> Priority],
           "transmit" \in DOMAIN m => live'.on \in {FALSE, m.transmit},
           "transmit" \notin DOMAIN m => live' = live,
           Wire', calls' \in Seq(Call), live' \in LiveType
    PROVE  IInv'
<1>1. m \in Message /\ inbox \in Seq(Message) /\ inbox # <<>> /\ inbox' = Tail(inbox)
      /\ BaseTypeOK /\ Announced /\ open /\ UNCHANGED <<config, open, levels>>
  BY HandleFrame
<1>2. inbox' \in Seq(Message) /\ BaseAnnounced'
  BY <1>1, Fields, PopAnnounced DEF Announced
<1>3. Told(inbox', "pap", usePap', config'.pap)
  BY <1>1, ToldPop DEF Announced
<1>4. Told(inbox', "levels", levelBuf', LevelBuffer(levels'))
  BY <1>1, ToldPop DEF Announced
<1>5. TypeOK'
  BY <1>1, <1>2, Fields DEF IInv, TypeOK, BaseTypeOK
<1>. QED
  BY <1>1, <1>2, <1>3, <1>4, <1>5 DEF IInv, Announced, Closed

LEMMA HandleIInv ==
    ASSUME IInv, Handle
    PROVE  IInv'
<1>. DEFINE m == inbox[1]
<1>1. m \in Message /\ Head(inbox) = m /\ calls = <<>> /\ BaseTypeOK /\ Wire /\ Announced
      /\ inbox \in Seq(Message)
  BY HandleFrame
<1>2. \A f, g \in {"universe", "priority", "pap", "levels", "transmit"} :
         f \in DOMAIN m /\ g \in DOMAIN m => f = g
  BY <1>1, Fields
<1>3. papBuf \in [Address -> Priority] /\ live \in LiveType /\ priority \in Priority
  BY <1>1 DEF BaseTypeOK
<1>. HIDE DEF m
<1>4. CASE Receive("universe") /\ OnChangeUniverse(m.universe)
           /\ UNCHANGED <<priority, usePap, levelBuf, papBuf, levels>>
  <2>1. Wire' /\ calls' \in Seq(Call)
    BY <1>1, <1>4, UniverseIsSafe, UniverseWire DEF Announced
  <2>. QED
    BY <1>1, <1>2, <1>3, <1>4, <2>1, SlotIInv DEF Receive, OnChangeUniverse, m
<1>5. CASE Receive("priority") /\ OnChangePriority(m.priority)
           /\ UNCHANGED <<universe, usePap, levelBuf, papBuf, levels>>
  <2>1. Wire' /\ calls' \in Seq(Call)
    BY <1>1, <1>5, PriorityWire
  <2>. QED
    BY <1>1, <1>2, <1>3, <1>5, <2>1, SlotIInv DEF Receive, OnChangePriority, m
<1>6. CASE Receive("pap") /\ OnChangePap(m.pap)
           /\ UNCHANGED <<universe, priority, levelBuf, papBuf, levels>>
  <2>1. Wire' /\ calls' \in Seq(Call)
    BY <1>1, <1>6, ResendWire DEF OnChangePap
  <2>. QED
    BY <1>1, <1>2, <1>3, <1>6, <2>1, SlotIInv DEF Receive, OnChangePap, m
<1>7. CASE Receive("levels") /\ OnChangeLevels(m.levels)
           /\ UNCHANGED <<universe, priority, usePap, levels>>
  <2>1. Wire' /\ calls' \in Seq(Call)
    BY <1>1, <1>7, ResendWire DEF OnChangeLevels
  <2>2. papBuf' \in [Address -> Priority]
    BY <1>3, <1>7, TransmitConstants DEF OnChangeLevels, PapFor
  <2>. QED
    BY <1>1, <1>2, <1>3, <1>7, <2>1, <2>2, SlotIInv DEF Receive, OnChangeLevels, m
<1>8. CASE Receive("transmit") /\ OnChangeTransmit(m.transmit)
           /\ UNCHANGED <<handlerVars, levels>>
  <2>1. "transmit" \in DOMAIN m /\ m.transmit \in BOOLEAN
    BY <1>1, <1>8, Fields DEF Receive
  <2>2. UNCHANGED <<universe, priority, usePap, levelBuf, papBuf>>
    BY <1>8 DEF handlerVars
  <2>3. Wire' /\ calls' \in Seq(Call) /\ live' \in LiveType /\ live'.on \in {FALSE, m.transmit}
    BY <1>1, <1>8, <2>1, <2>2, TransmitWire
  <2>. QED
    BY <1>1, <1>2, <1>3, <2>1, <2>2, <2>3, SlotIInv DEF m
<1>. QED
  BY <1>1, <1>4, <1>5, <1>6, <1>7, <1>8 DEF Handle

LEMMA LibraryCallIInv ==
    ASSUME IInv, LibraryCall, UNCHANGED levels
    PROVE  IInv'
<1>1. /\ Wire' /\ live' \in LiveType /\ calls' \in Seq(Call) /\ live'.on = live.on
      /\ calls # <<>> /\ UNCHANGED <<handlerVars, config, inbox, open>>
  BY LibraryCallWire DEF IInv, TypeOK, LibraryCall
<1>. QED
  BY <1>1 DEF IInv, TypeOK, BaseTypeOK, Closed, Announced, BaseAnnounced, handlerVars

-----------------------------------------------------------------------------
(* The theorems.                                                            *)

LEMMA NextIInv == IInv /\ [Next]_vars => IInv'
<1>. SUFFICES ASSUME IInv, [Next]_vars PROVE IInv'
  OBVIOUS
<1>1. CASE Handle
  BY <1>1, HandleIInv
<1>2. CASE LibraryCall /\ UNCHANGED levels
  BY <1>2, LibraryCallIInv
<1>3. CASE UI
  BY <1>3, EditIInv, DisconnectIInv DEF UI
<1>4. CASE Connect
  BY <1>4, ConnectIInv
<1>5. ASSUME NEW a \in Address, NEW l \in Fader, SetLevel(a, l)
      PROVE  IInv'
  BY <1>5, SetLevelIInv
<1>6. CASE UNCHANGED vars
  BY <1>6 DEF vars, baseVars, handlerVars, IInv, TypeOK, BaseTypeOK, Wire, Closed, Announced,
              BaseAnnounced
<1>. QED
  BY <1>1, <1>2, <1>3, <1>4, <1>5, <1>6 DEF Next

LEMMA AlwaysIInv == Spec => []IInv
  BY InitIInv, NextIInv, PTL DEF Spec

\* With nothing under way, the handler has all the page shows.
LEMMA SettledIsTold ==
    ASSUME IInv, Settled
    PROVE  /\ universe = config.universe /\ priority = config.priority
           /\ usePap = config.pap /\ levelBuf = LevelBuffer(levels)
           /\ live.on => config.transmit
<1>1. DOMAIN inbox = {} /\ Announced /\ BaseTypeOK
  BY DEF Settled, IInv, TypeOK
<1>. QED
  BY <1>1, BaseSettled DEF Announced, Told

\* Every variable keeps its shape, for any number of messages under way.
THEOREM LevelControlTypeCorrect == Spec => []TypeOK
<1>1. IInv => TypeOK
  BY DEF IInv
<1>. QED
  BY <1>1, AlwaysIInv, PTL

\* What goes out has the universe, priority and PAP choice the page shows:
\* startTransmitting's calls end in the same state as separate messages would,
\* because the universe is added first and never changed while sending.
THEOREM LiveIsConfigured == Spec => []LiveMatchesConfig
<1>1. IInv => LiveMatchesConfig
  <2>1. SUFFICES ASSUME IInv, Settled, live.on PROVE LiveMatchesConfig
    BY DEF LiveMatchesConfig
  <2>2. /\ live.at = universe /\ live.priority = priority
        /\ live.levels = levelBuf /\ live.pap = IF usePap THEN papBuf ELSE None
    BY <2>1, WireSettled DEF IInv
  <2>3. papBuf # None /\ usePap \in BOOLEAN
    BY <2>1, TransmitConstants DEF IInv, TypeOK, BaseTypeOK
  <2>. QED
    BY <2>1, <2>2, <2>3, SettledIsTold DEF LiveMatchesConfig
<1>. QED
  BY <1>1, AlwaysIInv, PTL

\* A handler sends only when the page shows that it is started, after any
\* failed starts and lost connections (onChangeTransmit, ~TransmitHandler).
THEOREM SilentWhenStopped == Spec => []SilentUnlessStarted
<1>1. IInv => SilentUnlessStarted
  BY SettledIsTold DEF SilentUnlessStarted
<1>. QED
  BY <1>1, AlwaysIInv, PTL

\* The levels that go out are those on the faders, fractions dropped: whatever
\* was moved or started and whatever connection broke on the way (sendLevels,
\* onChangeLevels, sendLevelsAndPap).
THEOREM FadersGoOut == Spec => []LevelsMatchFaders
<1>1. IInv => LevelsMatchFaders
  BY WireSettled, SettledIsTold DEF LevelsMatchFaders, IInv
<1>. QED
  BY <1>1, AlwaysIInv, PTL
=============================================================================
