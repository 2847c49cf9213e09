---------------------------- MODULE ChanCheckProofs ----------------------------
(* Proofs about ChanCheck: for any universes, priorities, addresses and levels *)
(* only the address being checked goes out, whatever the timer does between    *)
(* the messages.  An emptied address field (0) makes the timer write over the  *)
(* PAP choice, so what is said of PAP is said of fields that hold addresses.   *)
EXTENDS ChanCheck, TransmitHandlerProofs

-----------------------------------------------------------------------------
(* The inductive invariant.                                                 *)

\* What the page shows has been told or is on its way.
Announced ==
    /\ BaseAnnounced
    /\ Told(inbox, "address", address, choice.address)
    /\ FieldValue \subseteq Address => Told(inbox, "pap", usePap, config.pap)

\* Both buffers have the handler's address alone, the levels perhaps dark.
Buffers ==
    /\ levelBuf \in {Dark, LevelBufFor(address, level)}
    /\ papBuf = PapBufFor(address, priority)

OneOn(lvls) == \A a \in Address : lvls[a] # 0 => lvls = LevelBufFor(a, lvls[a])

\* What has been sent is of one address alone.
Sent == live.levels # None => OneOn(live.levels)

IInv == TypeOK /\ Wire /\ Closed /\ Buffers /\ Sent /\ (open => Announced)

Field == {"universe", "priority", "pap", "transmit", "address", "level", "blink"}

LEMMA Fields ==
    ASSUME NEW m \in Message
    PROVE  /\ "universe" \in DOMAIN m => m.universe \in Universe
           /\ "priority" \in DOMAIN m => m.priority \in Priority
           /\ "pap" \in DOMAIN m => m.pap \in BOOLEAN
           /\ "transmit" \in DOMAIN m => m.transmit \in BOOLEAN
           /\ "address" \in DOMAIN m => m.address \in FieldValue
           /\ "level" \in DOMAIN m => m.level \in Level
           /\ "blink" \in DOMAIN m => m.blink \in BOOLEAN
           /\ \A f, g \in Field : f \in DOMAIN m /\ g \in DOMAIN m => f = g
  BY DEF Message, ConfigMessage, Field

\* The buffers that the handler makes.
LEMMA BufferTypes ==
    /\ Dark \in [Address -> Level] /\ OneOn(Dark)
    /\ \A a : \A l \in Level : LevelBufFor(a, l) \in [Address -> Level] /\ OneOn(LevelBufFor(a, l))
    /\ \A a : \A p \in Priority : PapBufFor(a, p) \in [Address -> Priority]
  BY TransmitConstants DEF Dark, OneOn, LevelBufFor, PapBufFor

LEMMA BuffersOneOn ==
    ASSUME TypeOK, Buffers
    PROVE  OneOn(levelBuf)
  BY BufferTypes DEF TypeOK, Buffers

LEMMA FullIsLevel == MaxLevel \in Level
  BY ChanCheckConstants DEF MaxLevel

LEMMA InitIInv == Init => IInv
<1>. SUFFICES ASSUME Init PROVE IInv
  OBVIOUS
<1>1. Off.on = FALSE /\ Off.levels = None
  BY DEF Off
<1>2. DefaultConfig \in ConfigType
  BY TransmitConstants DEF DefaultConfig, ConfigType
<1>3. DefaultChoice \in [address : FieldValue, level : Level, blink : BOOLEAN]
  BY FullIsLevel, ChanCheckConstants DEF DefaultChoice
<1>4. BaseTypeOK
  BY <1>1, <1>2, BufferTypes, CallTypes, OffType, TransmitConstants DEF Init, BaseTypeOK
<1>5. <<>> \in Seq(Message)
  OBVIOUS
<1>6. TypeOK
  BY <1>3, <1>4, <1>5, TransmitConstants, ChanCheckConstants DEF Init, TypeOK
<1>. QED
  BY <1>1, <1>6 DEF Init, IInv, Wire, Closed, Buffers, Sent

-----------------------------------------------------------------------------
(* The page and its connection.                                             *)

\* The user's step sends m, and the page shows what m says.
LEMMA PushIInv ==
    ASSUME IInv, open, NEW m \in Message, Send(m), config' \in ConfigType,
           UNCHANGED <<handlerVars, live, calls, open, chanVars>>,
           choice' \in [address : FieldValue, level : Level, blink : BOOLEAN],
           "universe" \in DOMAIN m => ~config.transmit,
           IF "universe" \in DOMAIN m THEN m.universe = config'.universe
              ELSE config'.universe = config.universe,
           IF "priority" \in DOMAIN m THEN m.priority = config'.priority
              ELSE config'.priority = config.priority,
           IF "pap" \in DOMAIN m THEN m.pap = config'.pap ELSE config'.pap = config.pap,
           IF "transmit" \in DOMAIN m THEN m.transmit = config'.transmit
              ELSE config'.transmit = config.transmit,
           IF "address" \in DOMAIN m THEN m.address = choice'.address
              ELSE choice'.address = choice.address
    PROVE  IInv'
<1>1. BaseTypeOK /\ inbox \in Seq(Message) /\ Announced
  BY DEF IInv, TypeOK
<1>2. inbox' \in Seq(Message) /\ BaseAnnounced'
  BY <1>1, PushAnnounced DEF Announced
<1>3. inbox' = Append(inbox, m)
  BY DEF Send
<1>4. FieldValue \subseteq Address => Told(inbox', "pap", usePap', config'.pap)
  BY <1>1, <1>3, ToldPush DEF Announced, handlerVars
<1>5. Told(inbox', "address", address', choice'.address)
  BY <1>1, <1>3, ToldPush DEF Announced, chanVars
<1>. QED
  BY <1>1, <1>2, <1>4, <1>5 DEF IInv, TypeOK, BaseTypeOK, Announced, Wire, Closed, Buffers, Sent,
     OneOn, handlerVars, chanVars

LEMMA EditIInv ==
    ASSUME IInv, EditConfig \/ PressStartStop, UNCHANGED <<chanVars, choice>>
    PROVE  IInv'
<1>1. BaseTypeOK /\ choice' \in [address : FieldValue, level : Level, blink : BOOLEAN]
  BY DEF IInv, TypeOK
<1>2. /\ open /\ config' \in ConfigType /\ UNCHANGED <<handlerVars, live, calls, open>>
  BY <1>1, EditIs
<1>3. PICK m \in ConfigMessage :
         /\ Send(m)
         /\ "universe" \in DOMAIN m => ~config.transmit
         /\ IF "universe" \in DOMAIN m THEN m.universe = config'.universe
            ELSE config'.universe = config.universe
         /\ IF "priority" \in DOMAIN m THEN m.priority = config'.priority
            ELSE config'.priority = config.priority
         /\ IF "pap" \in DOMAIN m THEN m.pap = config'.pap ELSE config'.pap = config.pap
         /\ IF "transmit" \in DOMAIN m THEN m.transmit = config'.transmit
            ELSE config'.transmit = config.transmit
         /\ DOMAIN m \cap {"levels", "address", "level", "blink"} = {}
  BY <1>1, EditIs
<1>4. m \in Message
  BY DEF Message
<1>. QED
  BY <1>1, <1>2, <1>3, <1>4, PushIInv

LEMMA ChooseIInv ==
    ASSUME IInv, Choose
    PROVE  IInv'
<1>. DEFINE Choices == [address : FieldValue, level : Level, blink : BOOLEAN]
<1>1. /\ choice \in Choices /\ config' = config /\ config \in ConfigType /\ open
      /\ UNCHANGED <<handlerVars, live, calls, open, chanVars>>
  BY DEF Choose, UserMayAct, IInv, TypeOK, BaseTypeOK
<1>2. ASSUME NEW a \in FieldValue, choice' = [choice EXCEPT !.address = a],
             Send([address |-> a])
      PROVE  IInv'
  <2>1. [address |-> a] \in Message /\ choice' \in Choices /\ choice'.address = a
    BY <1>1, <1>2 DEF Message
  <2>. QED
    BY <1>1, <1>2, <2>1, PushIInv
<1>3. ASSUME NEW l \in Level, choice' = [choice EXCEPT !.level = l], Send([level |-> l])
      PROVE  IInv'
  <2>1. [level |-> l] \in Message /\ choice' \in Choices /\ choice'.address = choice.address
    BY <1>1, <1>3 DEF Message
  <2>. QED
    BY <1>1, <1>3, <2>1, PushIInv
<1>4. ASSUME NEW b \in BOOLEAN, choice' = [choice EXCEPT !.blink = b], Send([blink |-> b])
      PROVE  IInv'
  <2>1. [blink |-> b] \in Message /\ choice' \in Choices /\ choice'.address = choice.address
    BY <1>1, <1>4 DEF Message
  <2>. QED
    BY <1>1, <1>4, <2>1, PushIInv
<1>5. (~choice.blink) \in BOOLEAN
  OBVIOUS
<1>. QED
  BY <1>2, <1>3, <1>4, <1>5 DEF Choose

LEMMA HangupIInv ==
    ASSUME IInv, Hangup
    PROVE  IInv'
<1>1. inbox' \in Seq(Message)
  BY DEF Hangup, Disconnect
<1>2. Wire' /\ Closed' /\ live' \in LiveType /\ live'.levels = None
  BY DisconnectWire DEF Hangup
<1>. QED
  BY <1>1, <1>2 DEF Hangup, Disconnect, IInv, TypeOK, BaseTypeOK, Closed, Buffers, Sent,
     handlerVars

\* The seven messages of a new connection.
LEMMA FirstMessages ==
    ASSUME NEW a, NEW b, NEW c, NEW d, NEW e, NEW f, NEW g
    PROVE  LET q == <<[blink |-> a], [level |-> b], [address |-> c], [universe |-> d],
                      [pap |-> e], [priority |-> f], [transmit |-> g]>>
           IN  /\ Len(q) = 7 /\ DOMAIN q = 1..7
               /\ q[3] = [address |-> c] /\ q[4] = [universe |-> d] /\ q[5] = [pap |-> e]
               /\ q[6] = [priority |-> f] /\ q[7] = [transmit |-> g]
               /\ DOMAIN q[1] = {"blink"} /\ DOMAIN q[2] = {"level"}
               /\ DOMAIN q[3] = {"address"} /\ DOMAIN q[4] = {"universe"}
               /\ DOMAIN q[5] = {"pap"} /\ DOMAIN q[6] = {"priority"}
               /\ DOMAIN q[7] = {"transmit"}
  OBVIOUS

LEMMA ConnectIInv ==
    ASSUME IInv, Connect
    PROVE  IInv'
<1>1. live.on = FALSE /\ live' = live /\ calls = <<>> /\ calls' = <<>>
  BY DEF Connect, IInv, Closed, TypeOK, BaseTypeOK, LiveType
<1>2. /\ DOMAIN inbox' = 1..7 /\ Len(inbox') = 7
      /\ inbox'[3] = [address |-> choice'.address] /\ inbox'[4] = [universe |-> config'.universe]
      /\ inbox'[5] = [pap |-> config'.pap] /\ inbox'[6] = [priority |-> config'.priority]
      /\ inbox'[7] = [transmit |-> config'.transmit]
      /\ DOMAIN inbox'[1] = {"blink"} /\ DOMAIN inbox'[2] = {"level"}
      /\ DOMAIN inbox'[3] = {"address"} /\ DOMAIN inbox'[4] = {"universe"}
      /\ DOMAIN inbox'[5] = {"pap"} /\ DOMAIN inbox'[6] = {"priority"}
      /\ DOMAIN inbox'[7] = {"transmit"}
  BY FirstMessages DEF Connect
<1>3. TypeOK'
  <2>1. inbox' \in Seq(Message)
    <3>1. /\ [blink |-> choice.blink] \in Message /\ [level |-> choice.level] \in Message
          /\ [address |-> choice.address] \in Message /\ [universe |-> config.universe] \in Message
          /\ [pap |-> config.pap] \in Message /\ [priority |-> config.priority] \in Message
          /\ [transmit |-> config.transmit] \in Message
      BY DEF IInv, TypeOK, BaseTypeOK, ConfigType, Message, ConfigMessage
    <3>. HIDE DEF Message
    <3>. QED
      BY <3>1 DEF Connect
  <2>. QED
    BY <2>1, BufferTypes, TransmitConstants, ChanCheckConstants
    DEF Connect, ConstructBase, IInv, TypeOK, BaseTypeOK
<1>4. Told(inbox', "universe", universe', config'.universe)
  BY <1>2 DEF Told
<1>5. Told(inbox', "priority", priority', config'.priority)
  BY <1>2 DEF Told
<1>6. Told(inbox', "pap", usePap', config'.pap)
  BY <1>2 DEF Told
<1>7. Told(inbox', "address", address', choice'.address)
  BY <1>2 DEF Told
<1>8. Told(inbox', "transmit", live'.on \/ config'.transmit, config'.transmit)
  BY <1>2 DEF Told
<1>9. StoppedBefore(inbox', live'.on)
  BY <1>1, <1>2 DEF StoppedBefore
<1>10. Announced'
  BY <1>4, <1>5, <1>6, <1>7, <1>8, <1>9 DEF Announced, BaseAnnounced
<1>11. Wire' /\ Closed' /\ Buffers' /\ Sent'
  BY <1>1 DEF Connect, ConstructBase, Wire, Closed, Buffers, IInv, Sent, OneOn
<1>. QED
  BY <1>3, <1>10, <1>11 DEF IInv

-----------------------------------------------------------------------------
(* The handler's slots and its timer.                                       *)

LEMMA HandleFrame ==
    ASSUME IInv, Handle
    PROVE  /\ inbox # <<>> /\ inbox' = Tail(inbox) /\ open /\ calls = <<>>
           /\ UNCHANGED <<config, open, choice>> /\ inbox \in Seq(Message)
           /\ inbox[1] \in Message /\ Head(inbox) = inbox[1] /\ Announced
           /\ BaseTypeOK /\ Wire
<1>1. /\ inbox # <<>> /\ inbox' = Tail(inbox) /\ calls = <<>>
      /\ UNCHANGED <<config, open, choice>>
  BY DEF Handle, Receive
<1>. QED
  BY <1>1, TailIs DEF IInv, TypeOK, Closed

\* A slot that does what its message says keeps the invariant.
LEMMA SlotIInv ==
    ASSUME IInv, Handle, NEW m, m = inbox[1],
           universe' = IF "universe" \in DOMAIN m THEN m.universe ELSE universe,
           priority' = IF "priority" \in DOMAIN m THEN m.priority ELSE priority,
           usePap' = IF "pap" \in DOMAIN m THEN m.pap ELSE usePap,
           address' = IF "address" \in DOMAIN m THEN m.address ELSE address,
           level' = IF "level" \in DOMAIN m THEN m.level ELSE level,
           blinking' = IF "blink" \in DOMAIN m THEN m.blink ELSE blinking,
           "transmit" \in DOMAIN m => live'.on \in {FALSE, m.transmit},
           "transmit" \notin DOMAIN m => live' = live,
           live'.levels \in {live.levels, None},
           Wire', Buffers', calls' \in Seq(Call), live' \in LiveType
    PROVE  IInv'
<1>1. m \in Message /\ inbox \in Seq(Message) /\ inbox # <<>> /\ inbox' = Tail(inbox)
      /\ BaseTypeOK /\ Announced /\ open /\ UNCHANGED <<config, open, choice>>
  BY HandleFrame
<1>2. inbox' \in Seq(Message) /\ BaseAnnounced'
  BY <1>1, Fields, PopAnnounced DEF Announced
<1>3. FieldValue \subseteq Address => Told(inbox', "pap", usePap', config'.pap)
  BY <1>1, ToldPop DEF Announced
<1>4. Told(inbox', "address", address', choice'.address)
  BY <1>1, ToldPop DEF Announced
<1>5. /\ universe' \in Universe /\ priority' \in Priority /\ usePap' \in BOOLEAN
      /\ address' \in FieldValue /\ level' \in Level /\ blinking' \in BOOLEAN
  BY <1>1, Fields DEF IInv, TypeOK, BaseTypeOK
<1>6. levelBuf' \in [Address -> Level] /\ papBuf' \in [Address -> Priority]
  BY <1>5, BufferTypes DEF Buffers
<1>7. TypeOK'
  BY <1>1, <1>2, <1>5, <1>6 DEF IInv, TypeOK, BaseTypeOK
<1>8. Sent'
  BY DEF IInv, Sent
<1>. QED
  BY <1>1, <1>2, <1>3, <1>4, <1>7, <1>8 DEF IInv, Announced, Closed

LEMMA HandleIInv ==
    ASSUME IInv, Handle
    PROVE  IInv'
<1>. DEFINE m == inbox[1]
<1>1. m \in Message /\ Head(inbox) = m /\ calls = <<>> /\ BaseTypeOK /\ Wire /\ Announced
      /\ inbox \in Seq(Message) /\ Buffers
  BY HandleFrame DEF IInv
<1>2. \A f, g \in Field : f \in DOMAIN m /\ g \in DOMAIN m => f = g
  BY <1>1, Fields
<1>3. live \in LiveType /\ live.on \in BOOLEAN
  BY <1>1 DEF BaseTypeOK, LiveType
<1>. HIDE DEF m
<1>4. CASE Receive("universe") /\ OnChangeUniverse(m.universe)
           /\ UNCHANGED <<priority, usePap, levelBuf, papBuf, chanVars>>
  <2>1. Wire' /\ calls' \in Seq(Call)
    BY <1>1, <1>4, UniverseIsSafe, UniverseWire DEF Announced
  <2>2. Buffers'
    BY <1>1, <1>4 DEF Buffers, chanVars
  <2>. QED
    BY <1>1, <1>2, <1>3, <1>4, <2>1, <2>2, SlotIInv
    DEF Receive, OnChangeUniverse, chanVars, Field, m
<1>5. CASE Receive("priority") /\ OnChangePriority(m.priority)
           /\ papBuf' = PapBufFor(address, m.priority)
           /\ UNCHANGED <<universe, usePap, levelBuf, chanVars>>
  <2>1. Wire' /\ calls' \in Seq(Call)
    BY <1>1, <1>5, PriorityWire
  <2>2. Buffers'
    BY <1>1, <1>5 DEF Buffers, chanVars, OnChangePriority
  <2>. QED
    BY <1>1, <1>2, <1>3, <1>5, <2>1, <2>2, SlotIInv
    DEF Receive, OnChangePriority, chanVars, Field, m
<1>6. CASE Receive("pap") /\ OnChangePap(m.pap)
           /\ UNCHANGED <<universe, priority, levelBuf, papBuf, chanVars>>
  <2>1. Wire' /\ calls' \in Seq(Call)
    BY <1>1, <1>6, ResendWire DEF OnChangePap
  <2>2. Buffers'
    BY <1>1, <1>6 DEF Buffers, chanVars
  <2>. QED
    BY <1>1, <1>2, <1>3, <1>6, <2>1, <2>2, SlotIInv DEF Receive, OnChangePap, chanVars, Field, m
<1>7. CASE Receive("address") /\ OnChangeAddress(m.address)
  <2>1. Wire' /\ calls' \in Seq(Call)
    BY <1>1, <1>7, ResendWire DEF OnChangeAddress
  <2>2. Buffers'
    BY <1>7 DEF Buffers, OnChangeAddress
  <2>. QED
    BY <1>1, <1>2, <1>3, <1>7, <2>1, <2>2, SlotIInv DEF Receive, OnChangeAddress, Field, m
<1>8. CASE Receive("level") /\ OnChangeLevel(m.level)
  <2>1. Wire' /\ calls' \in Seq(Call)
    BY <1>1, <1>8, ResendWire DEF OnChangeLevel
  <2>2. Buffers'
    BY <1>1, <1>8 DEF Buffers, OnChangeLevel
  <2>. QED
    BY <1>1, <1>2, <1>3, <1>8, <2>1, <2>2, SlotIInv DEF Receive, OnChangeLevel, Field, m
<1>9. CASE Receive("blink") /\ OnChangeBlink(m.blink)
  <2>1. Wire' /\ calls' \in Seq(Call) /\ Buffers'
    BY <1>1, <1>9, CallTypes DEF OnChangeBlink, handlerVars, Wire, Buffers
  <2>. QED
    BY <1>1, <1>2, <1>3, <1>9, <2>1, SlotIInv DEF Receive, OnChangeBlink, handlerVars, Field, m
<1>10. CASE Receive("transmit") /\ OnTransmit(m.transmit)
  <2>1. "transmit" \in DOMAIN m /\ m.transmit \in BOOLEAN
    BY <1>1, <1>10, Fields DEF Receive
  <2>2. /\ OnChangeTransmit(m.transmit) /\ UNCHANGED <<universe, priority, usePap, chanVars>>
        /\ (m.transmit /\ ~live.on) \/ UNCHANGED <<levelBuf, papBuf>>
    BY <1>3, <1>10, <2>1 DEF OnTransmit, currentlyTransmitting
  <2>3. /\ Wire' /\ calls' \in Seq(Call) /\ live' \in LiveType /\ live'.on \in {FALSE, m.transmit}
        /\ live'.levels \in {live.levels, None}
    BY <1>1, <2>1, <2>2, TransmitWire
  <2>4. Buffers'
    BY <1>1, <1>10, <2>2 DEF OnTransmit, Buffers, chanVars
  <2>. QED
    BY <1>1, <1>2, <1>3, <2>1, <2>2, <2>3, <2>4, SlotIInv DEF chanVars, Field, m
<1>. QED
  BY <1>1, <1>4, <1>5, <1>6, <1>7, <1>8, <1>9, <1>10 DEF Handle

\* The timer turns the buffer between dark and the level, at the address alone.
LEMMA BlinkIInv ==
    ASSUME IInv, Blink
    PROVE  IInv'
<1>1. TypeOK /\ BaseTypeOK /\ Wire /\ Buffers /\ calls = <<>> /\ calls' = SendLevelsAndPap
      /\ UNCHANGED <<universe, priority, papBuf, live, config, inbox, open, chanVars, choice>>
  BY DEF Blink, IInv, TypeOK
<1>2. level \in Level /\ address \in FieldValue /\ usePap' \in BOOLEAN
      /\ (FieldValue \subseteq Address => usePap' = usePap)
  BY <1>1 DEF Blink, TypeOK, BaseTypeOK
<1>3. levelBuf' \in {Dark, LevelBufFor(address, level)}
  <2>1. CASE levelBuf = Dark
    BY <2>1 DEF Blink, Dark, LevelBufFor
  <2>2. CASE levelBuf = LevelBufFor(address, level)
    <3>1. CASE level = 0
      BY <2>2, <3>1 DEF Blink, Dark, LevelBufFor
    <3>2. CASE level # 0
      <4>1. level > 0
        BY <1>2, <3>2, TransmitConstants
      <4>. QED
        BY <2>2, <4>1 DEF Blink, Dark, LevelBufFor
    <3>. QED
      BY <3>1, <3>2
  <2>. QED
    BY <1>1, <2>1, <2>2 DEF Buffers
<1>4. Buffers' /\ levelBuf' \in [Address -> Level]
  BY <1>1, <1>2, <1>3, BufferTypes DEF Buffers, chanVars
<1>5. Wire' /\ calls' \in Seq(Call)
  BY <1>1, ResendWire
<1>6. TypeOK' /\ Sent' /\ Closed'
  <2>1. TypeOK' /\ Sent'
    BY <1>1, <1>2, <1>4, <1>5 DEF IInv, TypeOK, BaseTypeOK, Sent, OneOn, chanVars
  <2>2. Closed'
    BY <1>1 DEF IInv, Closed, SendLevelsAndPap, currentlyTransmitting
  <2>. QED
    BY <2>1, <2>2
<1>7. open => Announced'
  BY <1>1, <1>2 DEF IInv, Announced, BaseAnnounced, chanVars
<1>. QED
  BY <1>1, <1>4, <1>5, <1>6, <1>7 DEF IInv

LEMMA LibraryCallIInv ==
    ASSUME IInv, LibraryCall, UNCHANGED <<chanVars, choice>>
    PROVE  IInv'
<1>1. /\ Wire' /\ live' \in LiveType /\ calls' \in Seq(Call) /\ live'.on = live.on
      /\ calls # <<>> /\ live'.levels \in {live.levels, levelBuf, None}
      /\ UNCHANGED <<handlerVars, config, inbox, open>>
  BY LibraryCallWire DEF IInv, TypeOK, LibraryCall
<1>2. Sent'
  BY <1>1, BuffersOneOn DEF IInv, Sent
<1>. QED
  BY <1>1, <1>2
  DEF IInv, TypeOK, BaseTypeOK, Closed, Announced, BaseAnnounced, Buffers, handlerVars, chanVars

-----------------------------------------------------------------------------
(* The theorems.                                                            *)

LEMMA NextIInv == IInv /\ [Next]_vars => IInv'
<1>. SUFFICES ASSUME IInv, [Next]_vars PROVE IInv'
  OBVIOUS
<1>1. CASE Handle
  BY <1>1, HandleIInv
<1>2. CASE Blink
  BY <1>2, BlinkIInv
<1>3. CASE LibraryCall /\ UNCHANGED <<chanVars, choice>>
  BY <1>3, LibraryCallIInv
<1>4. CASE (EditConfig \/ PressStartStop) /\ UNCHANGED <<chanVars, choice>>
  BY <1>4, EditIInv
<1>5. CASE Choose
  BY <1>5, ChooseIInv
<1>6. CASE Connect
  BY <1>6, ConnectIInv
<1>7. CASE Hangup
  BY <1>7, HangupIInv
<1>8. CASE UNCHANGED vars
  BY <1>8 DEF vars, baseVars, handlerVars, chanVars, IInv, TypeOK, BaseTypeOK, Wire, Closed,
              Buffers, Sent, OneOn, Announced, BaseAnnounced
<1>. QED
  BY <1>1, <1>2, <1>3, <1>4, <1>5, <1>6, <1>7, <1>8 DEF Next

LEMMA AlwaysIInv == Spec => []IInv
  BY InitIInv, NextIInv, PTL DEF Spec

\* With nothing under way, the handler has all the page shows.
LEMMA SettledIsTold ==
    ASSUME IInv, Settled
    PROVE  /\ universe = config.universe /\ priority = config.priority
           /\ address = choice.address /\ (live.on => config.transmit)
           /\ FieldValue \subseteq Address => usePap = config.pap
<1>1. DOMAIN inbox = {} /\ Announced /\ BaseTypeOK
  BY DEF Settled, IInv, TypeOK
<1>. QED
  BY <1>1, BaseSettled DEF Announced, Told

\* What goes out then is what the buffers hold.
LEMMA SettledIsSent ==
    ASSUME IInv, Settled, live.on
    PROVE  /\ live.at = universe /\ live.priority = priority /\ live.levels = levelBuf
           /\ live.pap = IF usePap THEN PapBufFor(address, priority) ELSE None
           /\ PapBufFor(address, priority) # None /\ usePap \in BOOLEAN
           /\ levelBuf \in {Dark, LevelBufFor(address, level)}
<1>1. PapBufFor(address, priority) \in [Address -> Priority] /\ usePap \in BOOLEAN
  BY BufferTypes DEF IInv, TypeOK, BaseTypeOK
<1>. QED
  BY <1>1, WireSettled, TransmitConstants DEF IInv, Buffers

\* Every variable keeps its shape, for any number of messages under way.
THEOREM ChanCheckTypeCorrect == Spec => []TypeOK
<1>1. IInv => TypeOK
  BY DEF IInv
<1>. QED
  BY <1>1, AlwaysIInv, PTL

\* At no time does any address but the one being checked go out above zero or
\* with a priority, however messages, blinks, starts and lost connections are
\* interleaved (ChanCheck.cpp, updateLevelBuf, updatePapBuf, blink).
THEOREM OneAddressGoesOut == Spec => []OnlyOneAddress
<1>1. ASSUME IInv PROVE OnlyOneAddress
  <2>1. live.levels # None =>
          \A a \in Address : live.levels[a] # 0 => live.levels = LevelBufFor(a, live.levels[a])
    BY <1>1 DEF IInv, Sent, OneOn
  <2>2. ASSUME Settled, live.on, NEW a \in Address \ {choice.address}
        PROVE  live.levels[a] = 0 /\ (live.pap # None => live.pap[a] = 0)
    <3>1. address = choice.address
      BY <1>1, <2>2, SettledIsTold
    <3>2. Dark[a] = 0 /\ LevelBufFor(address, level)[a] = 0 /\ PapBufFor(address, priority)[a] = 0
      BY <2>2, <3>1 DEF Dark, LevelBufFor, PapBufFor
    <3>. QED
      BY <1>1, <2>2, <3>2, SettledIsSent
  <2>. QED
    BY <2>1, <2>2 DEF OnlyOneAddress
<1>. QED
  BY <1>1, AlwaysIInv, PTL

\* A handler sends only when the page shows that it is started.
THEOREM CheckIsSilentWhenStopped == Spec => []SilentUnlessStarted
<1>1. IInv => SilentUnlessStarted
  BY SettledIsTold DEF SilentUnlessStarted
<1>. QED
  BY <1>1, AlwaysIInv, PTL

\* What goes out has the universe, priority and PAP choice of the page, when
\* the address field is never emptied (blink would write over the PAP choice).
THEOREM CheckIsConfigured ==
    ASSUME FieldValue \subseteq Address
    PROVE  Spec => []LiveMatchesConfig
<1>1. IInv => LiveMatchesConfig
  BY SettledIsTold, SettledIsSent DEF LiveMatchesConfig
<1>. QED
  BY <1>1, AlwaysIInv, PTL

\* With PAP, the address being checked goes out with the priority set, when the
\* address field is never emptied.
THEOREM CheckedAddressHasPriority ==
    ASSUME FieldValue \subseteq Address
    PROVE  Spec => []PapIsThePriority
<1>1. ASSUME IInv PROVE PapIsThePriority
  <2>1. SUFFICES ASSUME Settled, live.on, config.pap, choice.address \in Address
                 PROVE  live.pap[choice.address] = config.priority
    BY DEF PapIsThePriority
  <2>2. live.pap = PapBufFor(choice.address, config.priority)
    BY <1>1, <2>1, SettledIsTold, SettledIsSent
  <2>. QED
    BY <2>1, <2>2 DEF PapBufFor
<1>. QED
  BY <1>1, AlwaysIInv, PTL
=============================================================================
