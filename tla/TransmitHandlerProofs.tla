------------------------ MODULE TransmitHandlerProofs ------------------------
(* What the proofs about Channel Check and about Level Control share: what  *)
(* messages under way tell, and what the source has got of a slot's calls.  *)
EXTENDS TransmitHandler, TLAPS

-----------------------------------------------------------------------------
(* The parts of the inductive invariants.                                   *)

\* Of the messages q the last about f says what is shown; when there is none,
\* what the handler has is.
Told(q, f, mine, shown) ==
    \/ \E k \in DOMAIN q :
          /\ f \in DOMAIN q[k] /\ q[k][f] = shown
          /\ \A j \in (k + 1)..Len(q) : f \notin DOMAIN q[j]
    \/ mine = shown /\ \A j \in DOMAIN q : f \notin DOMAIN q[j]

\* A universe is never told to a handler that transmits: the last start or
\* stop before it is a stop, or there is none and the source is off.
StoppedBefore(q, on) ==
    \A k \in DOMAIN q : "universe" \in DOMAIN q[k] =>
       \/ \E j \in 1..(k - 1) :
             /\ "transmit" \in DOMAIN q[j] /\ q[j].transmit = FALSE
             /\ \A i \in (j + 1)..(k - 1) : "transmit" \notin DOMAIN q[i]
       \/ on = FALSE /\ \A i \in 1..(k - 1) : "transmit" \notin DOMAIN q[i]

\* What the page shows of a universe, a priority and a start has been told or
\* is on its way.
BaseAnnounced ==
    /\ Told(inbox, "universe", universe, config.universe)
    /\ Told(inbox, "priority", priority, config.priority)
    /\ Told(inbox, "transmit", live.on \/ config.transmit, config.transmit)
    /\ StoppedBefore(inbox, live.on)

\* What the source sends, as far as the calls of the running slot have come.
Wire ==
    /\ calls \in {<<>>, <<"levels">>, <<"priority", "levels">>,
                  <<"levels", "priority", "levels">>, StartCalls}
    /\ calls # <<>> => live.on
    /\ live.on /\ calls # StartCalls => live.at = universe
    /\ live.on /\ calls \in {<<>>, <<"levels">>} => live.priority = priority
    /\ live.on /\ calls = <<>> =>
         live.levels = levelBuf /\ live.pap = IF usePap THEN papBuf ELSE None

\* Without a connection there is no handler.
Closed == ~open => inbox = <<>> /\ calls = <<>> /\ ~live.on

-----------------------------------------------------------------------------
(* Sequences of messages.                                                   *)

LEMMA TailIs ==
    ASSUME NEW S, NEW q \in Seq(S), q # <<>>
    PROVE  /\ Tail(q) \in Seq(S) /\ Head(q) = q[1] /\ Head(q) \in S
           /\ Len(q) \in Nat /\ Len(q) > 0 /\ DOMAIN q = 1..Len(q)
           /\ Len(Tail(q)) = Len(q) - 1 /\ DOMAIN Tail(q) = 1..(Len(q) - 1)
           /\ \A i \in 1..(Len(q) - 1) : Tail(q)[i] = q[i + 1]
  OBVIOUS

LEMMA AppendIs ==
    ASSUME NEW S, NEW q \in Seq(S), NEW m \in S
    PROVE  /\ Append(q, m) \in Seq(S)
           /\ Len(q) \in Nat /\ DOMAIN q = 1..Len(q)
           /\ Len(Append(q, m)) = Len(q) + 1 /\ DOMAIN Append(q, m) = 1..(Len(q) + 1)
           /\ \A i \in 1..Len(q) : Append(q, m)[i] = q[i]
           /\ Append(q, m)[Len(q) + 1] = m
  OBVIOUS

LEMMA ToldPop ==
    ASSUME NEW S, NEW q \in Seq(S), q # <<>>, NEW f, NEW mine, NEW mine2, NEW shown,
           Told(q, f, mine, shown),
           f \in DOMAIN q[1] => mine2 \in {q[1][f], shown},
           f \notin DOMAIN q[1] => mine2 \in {mine, shown}
    PROVE  Told(Tail(q), f, mine2, shown)
<1>. USE TailIs
<1>1. CASE \A j \in DOMAIN q : f \notin DOMAIN q[j]
  <2>1. \A j \in DOMAIN Tail(q) : f \notin DOMAIN Tail(q)[j]
    BY <1>1
  <2>2. mine2 = shown
    BY <1>1 DEF Told
  <2>. QED
    BY <2>1, <2>2 DEF Told
<1>2. ASSUME NEW k \in DOMAIN q, f \in DOMAIN q[k], q[k][f] = shown,
             \A j \in (k + 1)..Len(q) : f \notin DOMAIN q[j]
      PROVE  Told(Tail(q), f, mine2, shown)
  <2>1. CASE k = 1
    <3>1. \A j \in DOMAIN Tail(q) : f \notin DOMAIN Tail(q)[j]
      BY <1>2, <2>1
    <3>. QED
      BY <1>2, <2>1, <3>1 DEF Told
  <2>2. CASE k # 1
    <3>1. k - 1 \in DOMAIN Tail(q) /\ Tail(q)[k - 1] = q[k]
      BY <2>2
    <3>2. \A j \in k..(Len(q) - 1) : f \notin DOMAIN Tail(q)[j]
      BY <1>2
    <3>3. \A j \in ((k - 1) + 1)..Len(Tail(q)) : f \notin DOMAIN Tail(q)[j]
      BY <3>2
    <3>. QED
      BY <1>2, <3>1, <3>3 DEF Told
  <2>. QED
    BY <2>1, <2>2
<1>. QED
  BY <1>1, <1>2 DEF Told

LEMMA ToldPush ==
    ASSUME NEW S, NEW q \in Seq(S), NEW m \in S, NEW f, NEW mine, NEW mine2, NEW shown, NEW shown2,
           Told(q, f, mine, shown),
           f \in DOMAIN m => m[f] = shown2,
           f \notin DOMAIN m => shown2 = shown /\ mine2 = mine
    PROVE  Told(Append(q, m), f, mine2, shown2)
<1>. USE AppendIs
<1>. DEFINE r == Append(q, m)
<1>1. CASE f \in DOMAIN m
  <2>1. Len(q) + 1 \in DOMAIN r /\ r[Len(q) + 1] = m
    OBVIOUS
  <2>2. \A j \in ((Len(q) + 1) + 1)..Len(r) : f \notin DOMAIN r[j]
    OBVIOUS
  <2>. QED
    BY <1>1, <2>1, <2>2 DEF Told
<1>2. CASE f \notin DOMAIN m
  <2>1. CASE mine = shown /\ \A j \in DOMAIN q : f \notin DOMAIN q[j]
    <3>1. \A j \in DOMAIN r : f \notin DOMAIN r[j]
      BY <1>2, <2>1
    <3>. QED
      BY <1>2, <2>1, <3>1 DEF Told
  <2>2. ASSUME NEW k \in DOMAIN q, f \in DOMAIN q[k], q[k][f] = shown,
               \A j \in (k + 1)..Len(q) : f \notin DOMAIN q[j]
        PROVE  Told(r, f, mine2, shown2)
    <3>1. k \in DOMAIN r /\ r[k] = q[k]
      OBVIOUS
    <3>2. \A j \in (k + 1)..Len(r) : f \notin DOMAIN r[j]
      BY <1>2, <2>2
    <3>. QED
      BY <1>2, <2>2, <3>1, <3>2 DEF Told
  <2>. QED
    BY <2>1, <2>2 DEF Told
<1>. QED
  BY <1>1, <1>2

\* A universe that comes next comes to a source that is off.
LEMMA OffAtUniverse ==
    ASSUME NEW S, NEW q \in Seq(S), q # <<>>, NEW on, StoppedBefore(q, on),
           "universe" \in DOMAIN q[1]
    PROVE  on = FALSE
  BY TailIs DEF StoppedBefore

LEMMA StoppedPop ==
    ASSUME NEW S, NEW q \in Seq(S), q # <<>>, NEW on, NEW on2, StoppedBefore(q, on),
           "transmit" \in DOMAIN q[1] => q[1].transmit \in BOOLEAN,
           "transmit" \in DOMAIN q[1] /\ q[1].transmit = FALSE => on2 = FALSE,
           "transmit" \notin DOMAIN q[1] => on2 = on
    PROVE  StoppedBefore(Tail(q), on2)
<1>. USE TailIs
<1>1. SUFFICES ASSUME NEW k \in DOMAIN Tail(q), "universe" \in DOMAIN Tail(q)[k]
               PROVE  \/ \E j \in 1..(k - 1) :
                            /\ "transmit" \in DOMAIN Tail(q)[j] /\ Tail(q)[j].transmit = FALSE
                            /\ \A i \in (j + 1)..(k - 1) : "transmit" \notin DOMAIN Tail(q)[i]
                      \/ /\ on2 = FALSE
                         /\ \A i \in 1..(k - 1) : "transmit" \notin DOMAIN Tail(q)[i]
  BY DEF StoppedBefore
<1>2. k \in Nat /\ k >= 1 /\ k + 1 \in DOMAIN q /\ q[k + 1] = Tail(q)[k]
  OBVIOUS
<1>3. \A i \in 1..(k - 1) : Tail(q)[i] = q[i + 1]
  OBVIOUS
<1>4. CASE on = FALSE /\ \A i \in 1..((k + 1) - 1) : "transmit" \notin DOMAIN q[i]
  <2>1. "transmit" \notin DOMAIN q[1] /\ \A i \in 1..(k - 1) : "transmit" \notin DOMAIN q[i + 1]
    BY <1>4
  <2>. QED
    BY <1>3, <1>4, <2>1
<1>5. ASSUME NEW j \in 1..((k + 1) - 1), "transmit" \in DOMAIN q[j], q[j].transmit = FALSE,
             \A i \in (j + 1)..((k + 1) - 1) : "transmit" \notin DOMAIN q[i]
      PROVE  \/ \E h \in 1..(k - 1) :
                   /\ "transmit" \in DOMAIN Tail(q)[h] /\ Tail(q)[h].transmit = FALSE
                   /\ \A i \in (h + 1)..(k - 1) : "transmit" \notin DOMAIN Tail(q)[i]
             \/ on2 = FALSE /\ \A i \in 1..(k - 1) : "transmit" \notin DOMAIN Tail(q)[i]
  <2>1. CASE j = 1
    <3>1. \A i \in 1..(k - 1) : "transmit" \notin DOMAIN q[i + 1]
      BY <1>5, <2>1
    <3>. QED
      BY <1>3, <1>5, <2>1, <3>1
  <2>2. CASE j # 1
    <3>1. j - 1 \in 1..(k - 1) /\ Tail(q)[j - 1] = q[j]
      <4>1. j \in Nat /\ j >= 2 /\ j <= k
        BY <1>2, <2>2
      <4>2. j - 1 \in 1..(k - 1) /\ (j - 1) + 1 = j
        BY <1>2, <4>1
      <4>. QED
        BY <1>3, <4>2
    <3>2. \A i \in ((j - 1) + 1)..(k - 1) : "transmit" \notin DOMAIN Tail(q)[i]
      BY <1>3, <1>5
    <3>. QED
      BY <1>5, <3>1, <3>2
  <2>. QED
    BY <2>1, <2>2
<1>6. "universe" \in DOMAIN q[k + 1]
  BY <1>1, <1>2
<1>7. \/ \E j \in 1..((k + 1) - 1) :
            /\ "transmit" \in DOMAIN q[j] /\ q[j].transmit = FALSE
            /\ \A i \in (j + 1)..((k + 1) - 1) : "transmit" \notin DOMAIN q[i]
      \/ on = FALSE /\ \A i \in 1..((k + 1) - 1) : "transmit" \notin DOMAIN q[i]
  BY <1>2, <1>6 DEF StoppedBefore
<1>. QED
  BY <1>4, <1>5, <1>7

LEMMA StoppedPush ==
    ASSUME NEW S, NEW q \in Seq(S), NEW m \in S, NEW on \in BOOLEAN, NEW shown,
           StoppedBefore(q, on), Told(q, "transmit", on \/ shown, shown),
           "universe" \in DOMAIN m => shown = FALSE
    PROVE  StoppedBefore(Append(q, m), on)
<1>. USE AppendIs
<1>. DEFINE r == Append(q, m)
<1>1. SUFFICES ASSUME NEW k \in DOMAIN r, "universe" \in DOMAIN r[k]
               PROVE  \/ \E j \in 1..(k - 1) :
                            /\ "transmit" \in DOMAIN r[j] /\ r[j].transmit = FALSE
                            /\ \A i \in (j + 1)..(k - 1) : "transmit" \notin DOMAIN r[i]
                      \/ on = FALSE /\ \A i \in 1..(k - 1) : "transmit" \notin DOMAIN r[i]
  BY DEF StoppedBefore
<1>2. \A i \in 1..(k - 1) : i \in DOMAIN q /\ r[i] = q[i]
  OBVIOUS
<1>. HIDE DEF r
<1>3. CASE k \in DOMAIN q
  <2>1. r[k] = q[k]
    BY <1>3 DEF r
  <2>. QED
    BY <1>1, <1>2, <1>3, <2>1 DEF StoppedBefore
<1>4. CASE k \notin DOMAIN q
  <2>1. k = Len(q) + 1 /\ shown = FALSE
    BY <1>1, <1>4 DEF r
  <2>2. CASE (on \/ shown) = shown /\ \A j \in DOMAIN q : "transmit" \notin DOMAIN q[j]
    BY <1>2, <2>1, <2>2
  <2>3. ASSUME NEW j \in DOMAIN q, "transmit" \in DOMAIN q[j], q[j]["transmit"] = shown,
               \A i \in (j + 1)..Len(q) : "transmit" \notin DOMAIN q[i]
        PROVE  \E h \in 1..(k - 1) :
                  /\ "transmit" \in DOMAIN r[h] /\ r[h].transmit = FALSE
                  /\ \A i \in (h + 1)..(k - 1) : "transmit" \notin DOMAIN r[i]
    <3>1. j \in 1..(k - 1) /\ (k - 1) = Len(q)
      BY <2>1
    <3>. QED
      BY <1>2, <2>1, <2>3, <3>1
  <2>. QED
    BY <2>2, <2>3 DEF Told
<1>. QED
  BY <1>3, <1>4

-----------------------------------------------------------------------------
(* The library's calls.                                                     *)

LEMMA Tails ==
    /\ StartCalls # <<>> /\ Head(StartCalls) = "add"
    /\ Tail(StartCalls) = <<"levels", "priority", "levels">>
    /\ Head(<<"levels", "priority", "levels">>) = "levels"
    /\ Tail(<<"levels", "priority", "levels">>) = <<"priority", "levels">>
    /\ Head(<<"priority", "levels">>) = "priority"
    /\ Tail(<<"priority", "levels">>) = <<"levels">>
    /\ Head(<<"levels">>) = "levels" /\ Tail(<<"levels">>) = <<>>
  BY DEF StartCalls

LEMMA Lengths ==
    /\ Len(StartCalls) = 4
    /\ Len(<<"levels", "priority", "levels">>) = 3
    /\ Len(<<"priority", "levels">>) = 2
    /\ Len(<<"levels">>) = 1 /\ Len(<<>>) = 0
  BY DEF StartCalls

\* No two of the lists of calls a slot can be left with are the same.
LEMMA Distinct ==
    LET l1 == <<"levels">>
        l2 == <<"priority", "levels">>
        l3 == <<"levels", "priority", "levels">>
    IN  /\ StartCalls # <<>> /\ StartCalls # l1 /\ StartCalls # l2 /\ StartCalls # l3
        /\ l3 # <<>> /\ l3 # l1 /\ l3 # l2
        /\ l2 # <<>> /\ l2 # l1
        /\ l1 # <<>>
<1>. DEFINE l0 == <<>>
            l1 == <<"levels">>
            l2 == <<"priority", "levels">>
            l3 == <<"levels", "priority", "levels">>
<1>1. Len(StartCalls) = 4 /\ Len(l3) = 3 /\ Len(l2) = 2 /\ Len(l1) = 1 /\ Len(l0) = 0
  BY Lengths
<1>. HIDE DEF l0, l1, l2, l3
<1>2. /\ 4 # 3 /\ 4 # 2 /\ 4 # 1 /\ 4 # 0 /\ 3 # 2 /\ 3 # 1 /\ 3 # 0
      /\ 2 # 1 /\ 2 # 0 /\ 1 # 0
  OBVIOUS
<1>3. /\ StartCalls # l0 /\ StartCalls # l1 /\ StartCalls # l2 /\ StartCalls # l3
      /\ l3 # l0 /\ l3 # l1 /\ l3 # l2 /\ l2 # l0 /\ l2 # l1 /\ l1 # l0
  BY <1>1, <1>2, Zenon
<1>. QED
  BY <1>3, Zenon DEF l0, l1, l2, l3

LEMMA CallTypes ==
    /\ StartCalls \in Seq(Call) /\ <<"levels", "priority", "levels">> \in Seq(Call)
    /\ <<"priority", "levels">> \in Seq(Call) /\ <<"levels">> \in Seq(Call)
    /\ <<>> \in Seq(Call)
  BY DEF StartCalls, Call

LEMMA OffType == Off \in LiveType /\ [Off EXCEPT !.on = TRUE] \in LiveType
  BY TransmitConstants DEF Off, LiveType

LEMMA AddType == universe \in Universe => AddUniverse \in LiveType
  BY TransmitConstants DEF AddUniverse, LiveType

\* The library's calls finish what the slot began.
LEMMA LibraryCallWire ==
    ASSUME BaseTypeOK, Wire, LibraryCall
    PROVE  /\ Wire' /\ live' \in LiveType /\ calls' \in Seq(Call) /\ live'.on = live.on
           /\ calls # <<>> /\ live'.levels \in {live.levels, levelBuf, None}
<1>1. UNCHANGED <<handlerVars, config, inbox, open>> /\ calls # <<>> /\ calls' = Tail(calls)
      /\ live.on = TRUE
  BY DEF LibraryCall, Wire, BaseTypeOK, LiveType
<1>2. CASE calls = StartCalls
  <2>1. live' = AddUniverse /\ calls' = <<"levels", "priority", "levels">>
    BY <1>2, Tails DEF LibraryCall
  <2>2. live' \in LiveType /\ calls' \in Seq(Call)
    BY <2>1, AddType, CallTypes DEF BaseTypeOK
  <2>3. live'.on = TRUE /\ live'.at = universe /\ live'.levels = None
    BY <2>1 DEF AddUniverse
  <2>4. Wire'
    BY <1>1, <2>1, <2>3, Distinct DEF Wire, handlerVars
  <2>. QED
    BY <1>1, <2>2, <2>3, <2>4
<1>3. CASE calls # StartCalls
  <2>1. live.at = universe
    BY <1>1, <1>3 DEF Wire
  <2>2. CASE calls = <<"priority", "levels">>
    <3>1. calls' = <<"levels">> /\ live' = [live EXCEPT !.priority = priority]
      BY <2>1, <2>2, Tails DEF LibraryCall, ChangePriority
    <3>2. live' \in LiveType /\ calls' \in Seq(Call)
      BY <3>1, CallTypes DEF BaseTypeOK, LiveType
    <3>3. /\ live'.on = TRUE /\ live'.at = universe /\ live'.priority = priority
          /\ live'.levels = live.levels
      BY <1>1, <2>1, <3>1 DEF BaseTypeOK, LiveType
    <3>4. Wire'
      BY <1>1, <3>1, <3>3, Distinct DEF Wire, handlerVars
    <3>. QED
      BY <1>1, <3>2, <3>3, <3>4
  <2>3. CASE calls \in {<<"levels">>, <<"levels", "priority", "levels">>}
    <3>. DEFINE pap == IF usePap THEN papBuf ELSE None
    <3>1. live' = [live EXCEPT !.levels = levelBuf, !.pap = pap]
      BY <2>1, <2>3, Tails DEF LibraryCall, UpdateLevelsAndPap
    <3>2. levelBuf \in [Address -> Level] /\ pap \in [Address -> Priority] \cup {None}
      BY DEF BaseTypeOK
    <3>3. pap' = pap
      BY <1>1 DEF handlerVars
    <3>4. calls' \in {<<>>, <<"priority", "levels">>} /\ calls' \in Seq(Call)
      BY <1>1, <2>3, Tails, CallTypes
    <3>5. calls' = <<>> => calls = <<"levels">>
      BY <1>1, <2>3, Tails, Distinct
    <3>6. /\ live' = [live EXCEPT !.levels = levelBuf, !.pap = pap] => 
             /\ live' \in LiveType /\ live'.on = TRUE /\ live'.at = universe
             /\ live'.priority = live.priority /\ live'.levels = levelBuf /\ live'.pap = pap
      <4>. HIDE DEF pap
      <4>. QED
        BY <1>1, <2>1, <3>2 DEF BaseTypeOK, LiveType
    <3>7. calls' \in {<<>>, <<"levels">>} => live'.priority = priority
      BY <1>1, <3>1, <3>4, <3>5, <3>6, Distinct DEF Wire
    <3>8. Wire'
      BY <1>1, <3>1, <3>3, <3>4, <3>6, <3>7, Distinct DEF Wire, handlerVars
    <3>. QED
      BY <1>1, <3>1, <3>4, <3>6, <3>8
  <2>. QED
    BY <1>1, <1>3, <2>2, <2>3 DEF Wire
<1>. QED
  BY <1>2, <1>3

-----------------------------------------------------------------------------
(* Messages sent and handled.                                               *)

\* A message joins those under way and the page shows what it says.
LEMMA PushAnnounced ==
    ASSUME BaseTypeOK, BaseAnnounced, NEW S, inbox \in Seq(S), NEW m \in S, Send(m),
           UNCHANGED <<handlerVars, live>>, config' \in ConfigType,
           "universe" \in DOMAIN m => ~config.transmit,
           IF "universe" \in DOMAIN m THEN m.universe = config'.universe
              ELSE config'.universe = config.universe,
           IF "priority" \in DOMAIN m THEN m.priority = config'.priority
              ELSE config'.priority = config.priority,
           IF "transmit" \in DOMAIN m THEN m.transmit = config'.transmit
              ELSE config'.transmit = config.transmit
    PROVE  inbox' \in Seq(S) /\ BaseAnnounced'
<1>1. inbox' = Append(inbox, m) /\ inbox' \in Seq(S)
  BY AppendIs DEF Send
<1>2. live.on \in BOOLEAN /\ config.transmit \in BOOLEAN
  BY DEF BaseTypeOK, LiveType, ConfigType
<1>3. UNCHANGED <<universe, priority, live>>
  BY DEF handlerVars
<1>4. Told(inbox', "universe", universe', config'.universe)
  BY <1>1, <1>3, ToldPush DEF BaseAnnounced
<1>5. Told(inbox', "priority", priority', config'.priority)
  BY <1>1, <1>3, ToldPush DEF BaseAnnounced
<1>6. Told(inbox', "transmit", live'.on \/ config'.transmit, config'.transmit)
  <2>. DEFINE mine == live.on \/ config.transmit
              mine2 == live'.on \/ config'.transmit
  <2>1. Told(inbox, "transmit", mine, config.transmit)
    BY DEF BaseAnnounced
  <2>2. "transmit" \notin DOMAIN m => mine2 = mine
    BY <1>3
  <2>. HIDE DEF mine, mine2
  <2>3. Told(Append(inbox, m), "transmit", mine2, config'.transmit)
    BY <1>1, <2>1, <2>2, ToldPush
  <2>. QED
    BY <1>1, <2>3 DEF mine2
<1>7. StoppedBefore(inbox', live'.on)
  BY <1>1, <1>2, <1>3, StoppedPush DEF BaseAnnounced
<1>. QED
  BY <1>1, <1>4, <1>5, <1>6, <1>7 DEF BaseAnnounced

\* The first message is handled, and the handler has what it says.
LEMMA PopAnnounced ==
    ASSUME BaseTypeOK, BaseAnnounced, NEW S, inbox \in Seq(S), inbox # <<>>, NEW m, m = inbox[1],
           inbox' = Tail(inbox), UNCHANGED config,
           "transmit" \in DOMAIN m => m.transmit \in BOOLEAN,
           universe' = IF "universe" \in DOMAIN m THEN m.universe ELSE universe,
           priority' = IF "priority" \in DOMAIN m THEN m.priority ELSE priority,
           "transmit" \in DOMAIN m => live'.on \in {FALSE, m.transmit},
           "transmit" \notin DOMAIN m => live' = live
    PROVE  inbox' \in Seq(S) /\ BaseAnnounced'
<1>1. inbox' \in Seq(S)
  BY TailIs
<1>2. live.on \in BOOLEAN /\ config.transmit \in BOOLEAN
  BY DEF BaseTypeOK, LiveType, ConfigType
<1>4. Told(inbox', "universe", universe', config'.universe)
  BY ToldPop DEF BaseAnnounced
<1>5. Told(inbox', "priority", priority', config'.priority)
  BY ToldPop DEF BaseAnnounced
<1>6. Told(inbox', "transmit", live'.on \/ config'.transmit, config'.transmit)
  <2>. DEFINE mine == live.on \/ config.transmit
              mine2 == live'.on \/ config'.transmit
              shown == config.transmit
  <2>1. Told(inbox, "transmit", mine, shown)
    BY DEF BaseAnnounced
  <2>2. "transmit" \in DOMAIN m => mine2 \in {m["transmit"], shown}
    BY <1>2
  <2>3. "transmit" \notin DOMAIN m => mine2 \in {mine, shown}
    OBVIOUS
  <2>. HIDE DEF mine, mine2, shown
  <2>4. Told(Tail(inbox), "transmit", mine2, shown)
    BY <2>1, <2>2, <2>3, ToldPop
  <2>. QED
    BY <2>4 DEF mine2, shown
<1>7. StoppedBefore(inbox', live'.on)
  BY <1>2, StoppedPop DEF BaseAnnounced
<1>. QED
  BY <1>1, <1>4, <1>5, <1>6, <1>7 DEF BaseAnnounced

\* An edit, or Start and Stop, is one message that the page then shows.
LEMMA EditIs ==
    ASSUME BaseTypeOK, EditConfig \/ PressStartStop
    PROVE  /\ open /\ config' \in ConfigType /\ UNCHANGED <<handlerVars, live, calls, open>>
           /\ \E m \in ConfigMessage :
                 /\ Send(m)
                 /\ "universe" \in DOMAIN m => ~config.transmit
                 /\ IF "universe" \in DOMAIN m THEN m.universe = config'.universe
                    ELSE config'.universe = config.universe
                 /\ IF "priority" \in DOMAIN m THEN m.priority = config'.priority
                    ELSE config'.priority = config.priority
                 /\ IF "pap" \in DOMAIN m THEN m.pap = config'.pap
                    ELSE config'.pap = config.pap
                 /\ IF "transmit" \in DOMAIN m THEN m.transmit = config'.transmit
                    ELSE config'.transmit = config.transmit
                 /\ DOMAIN m \cap {"levels", "address", "level", "blink"} = {}
<1>. DEFINE Goal == \E m \in ConfigMessage :
              /\ Send(m)
              /\ "universe" \in DOMAIN m => ~config.transmit
              /\ IF "universe" \in DOMAIN m THEN m.universe = config'.universe
                 ELSE config'.universe = config.universe
              /\ IF "priority" \in DOMAIN m THEN m.priority = config'.priority
                 ELSE config'.priority = config.priority
              /\ IF "pap" \in DOMAIN m THEN m.pap = config'.pap
                 ELSE config'.pap = config.pap
              /\ IF "transmit" \in DOMAIN m THEN m.transmit = config'.transmit
                 ELSE config'.transmit = config.transmit
              /\ DOMAIN m \cap {"levels", "address", "level", "blink"} = {}
<1>1. config \in ConfigType /\ open /\ UNCHANGED <<handlerVars, live, calls, open>>
  BY DEF BaseTypeOK, EditConfig, PressStartStop, UserMayAct
<1>2. ASSUME NEW u \in Universe, config' = [config EXCEPT !.universe = u],
             Send([universe |-> u]), ~config.transmit
      PROVE  config' \in ConfigType /\ Goal
  <2>1. [universe |-> u] \in ConfigMessage
    BY DEF ConfigMessage
  <2>2. config' \in ConfigType /\ config'.universe = u /\ config'.priority = config.priority
        /\ config'.pap = config.pap /\ config'.transmit = config.transmit
    BY <1>1, <1>2 DEF ConfigType
  <2>. QED
    BY <1>2, <2>1, <2>2
<1>3. ASSUME NEW p \in Priority, config' = [config EXCEPT !.priority = p],
             Send([priority |-> p])
      PROVE  config' \in ConfigType /\ Goal
  <2>1. [priority |-> p] \in ConfigMessage
    BY DEF ConfigMessage
  <2>2. config' \in ConfigType /\ config'.priority = p /\ config'.universe = config.universe
        /\ config'.pap = config.pap /\ config'.transmit = config.transmit
    BY <1>1, <1>3 DEF ConfigType
  <2>. QED
    BY <1>3, <2>1, <2>2
<1>4. ASSUME NEW b \in BOOLEAN, config' = [config EXCEPT !.pap = b], Send([pap |-> b])
      PROVE  config' \in ConfigType /\ Goal
  <2>1. [pap |-> b] \in ConfigMessage
    BY DEF ConfigMessage
  <2>2. config' \in ConfigType /\ config'.pap = b /\ config'.universe = config.universe
        /\ config'.priority = config.priority /\ config'.transmit = config.transmit
    BY <1>1, <1>4 DEF ConfigType
  <2>. QED
    BY <1>4, <2>1, <2>2
<1>5. ASSUME NEW b \in BOOLEAN, config' = [config EXCEPT !.transmit = b], Send([transmit |-> b])
      PROVE  config' \in ConfigType /\ Goal
  <2>1. [transmit |-> b] \in ConfigMessage
    BY DEF ConfigMessage
  <2>2. config' \in ConfigType /\ config'.transmit = b /\ config'.universe = config.universe
        /\ config'.priority = config.priority /\ config'.pap = config.pap
    BY <1>1, <1>5 DEF ConfigType
  <2>. QED
    BY <1>5, <2>1, <2>2
<1>6. (~config.pap) \in BOOLEAN /\ (~config.transmit) \in BOOLEAN
  BY <1>1 DEF ConfigType
<1>. HIDE DEF Goal
<1>7. CASE EditConfig
  BY <1>1, <1>2, <1>3, <1>4, <1>6, <1>7 DEF EditConfig, Goal
<1>8. CASE PressStartStop
  BY <1>1, <1>5, <1>6, <1>8 DEF PressStartStop, Goal
<1>. QED
  BY <1>7, <1>8

-----------------------------------------------------------------------------
(* What the setters shared by both handlers leave behind.                   *)

LEMMA Idle ==
    ASSUME BaseTypeOK, Wire, calls = <<>>
    PROVE  /\ live.on \in BOOLEAN /\ live \in LiveType
           /\ live.on => live.at = universe /\ live.priority = priority
  BY Distinct DEF BaseTypeOK, LiveType, Wire

\* A slot that sends the buffers again may change them and the PAP choice.
LEMMA ResendWire ==
    ASSUME BaseTypeOK, Wire, calls = <<>>, calls' = SendLevelsAndPap,
           UNCHANGED <<live, universe, priority>>
    PROVE  Wire' /\ calls' \in Seq(Call)
<1>1. calls' = IF live.on THEN <<"levels">> ELSE <<>>
  BY DEF SendLevelsAndPap, currentlyTransmitting
<1>. QED
  BY <1>1, Idle, CallTypes, Distinct DEF Wire

LEMMA PriorityWire ==
    ASSUME BaseTypeOK, Wire, calls = <<>>, NEW p, OnChangePriority(p), UNCHANGED universe
    PROVE  Wire' /\ calls' \in Seq(Call)
<1>1. live' = live /\ calls' = IF live.on THEN <<"priority", "levels">> ELSE <<>>
  BY DEF OnChangePriority, currentlyTransmitting
<1>. QED
  BY <1>1, Idle, CallTypes, Distinct DEF Wire

LEMMA UniverseWire ==
    ASSUME live.on = FALSE, NEW u, OnChangeUniverse(u)
    PROVE  Wire' /\ calls' \in Seq(Call)
<1>1. live' = live /\ calls' = <<>>
  BY DEF OnChangeUniverse, currentlyTransmitting
<1>. QED
  BY <1>1, CallTypes DEF Wire

\* A start may renew the buffers: nothing of them has been sent yet.
LEMMA TransmitWire ==
    ASSUME BaseTypeOK, Wire, calls = <<>>, NEW t \in BOOLEAN, OnChangeTransmit(t),
           UNCHANGED <<universe, priority, usePap>>,
           (t /\ ~live.on) \/ UNCHANGED <<levelBuf, papBuf>>
    PROVE  /\ Wire' /\ calls' \in Seq(Call) /\ live' \in LiveType
           /\ live'.on \in {FALSE, t} /\ live'.levels \in {live.levels, None}
<1>1. live.on \in BOOLEAN
  BY Idle
<1>2. \/ live' = live /\ calls' = calls /\ t = live.on
      \/ live' = [Off EXCEPT !.on = TRUE] /\ calls' = StartCalls /\ t = TRUE
      \/ live' = Off /\ calls' = <<>>
  BY <1>1 DEF OnChangeTransmit, currentlyTransmitting
<1>3. /\ Off.on = FALSE /\ [Off EXCEPT !.on = TRUE].on = TRUE
      /\ Off.levels = None /\ [Off EXCEPT !.on = TRUE].levels = None
  BY DEF Off
<1>4. CASE live' = live /\ calls' = calls /\ t = live.on
  BY <1>1, <1>4, CallTypes, Idle DEF Wire
<1>5. CASE live' = [Off EXCEPT !.on = TRUE] /\ calls' = StartCalls /\ t = TRUE
  BY <1>3, <1>5, CallTypes, OffType, Distinct DEF Wire
<1>6. CASE live' = Off /\ calls' = <<>>
  BY <1>3, <1>6, CallTypes, OffType DEF Wire
<1>. QED
  BY <1>2, <1>4, <1>5, <1>6

\* A universe comes to a source that is off.
LEMMA UniverseIsSafe ==
    ASSUME BaseAnnounced, NEW S, inbox \in Seq(S), Receive("universe")
    PROVE  live.on = FALSE
  BY OffAtUniverse, TailIs DEF BaseAnnounced, Receive

\* A disconnection leaves nothing.
LEMMA DisconnectWire ==
    ASSUME Disconnect
    PROVE  Wire' /\ Closed' /\ live' \in LiveType /\ live'.levels = None
<1>1. Off.on = FALSE /\ Off.levels = None
  BY DEF Off
<1>. QED
  BY <1>1, OffType DEF Disconnect, Wire, Closed

\* With nothing under way, what the page shows has been told.
LEMMA BaseSettled ==
    ASSUME BaseTypeOK, BaseAnnounced, Settled
    PROVE  /\ universe = config.universe /\ priority = config.priority
           /\ live.on => config.transmit
<1>1. DOMAIN inbox = {}
  BY DEF Settled
<1>2. (live.on \/ config.transmit) = config.transmit
  BY <1>1 DEF BaseAnnounced, Told
<1>3. live.on \in BOOLEAN /\ config.transmit \in BOOLEAN
  BY DEF BaseTypeOK, LiveType, ConfigType
<1>. QED
  BY <1>1, <1>2, <1>3 DEF BaseAnnounced, Told

LEMMA WireSettled ==
    ASSUME Wire, Settled, live.on
    PROVE  /\ live.at = universe /\ live.priority = priority
           /\ live.levels = levelBuf /\ live.pap = IF usePap THEN papBuf ELSE None
  BY Distinct DEF Settled, Wire
=============================================================================
