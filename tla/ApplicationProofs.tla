--------------------------- MODULE ApplicationProofs ---------------------------
(* Proofs about Application: the table of clients, for any tabs, addresses, *)
(* handlers and ports.                                                      *)
EXTENDS Application, FiniteSetTheorems, TLAPS

-----------------------------------------------------------------------------
(* The inductive invariant: `most` is what it is named for.                 *)

MostIsMost == \A r \in Row : handlers[r] <= most[r]

\* No handler is missing from the table while no more than two were ever alike.
PairsListed == \A r \in Row : most[r] <= 2 => handlers[r] <= clients[r]

IInv == TypeOK /\ MostIsMost /\ PairsListed /\ TableIsTrue

\* One row: with two handlers at most, the loop that takes every other row
\* takes no more than the row of the handler that went; and just that one when
\* the table was right.
LEMMA HalfOfFew ==
    ASSUME NEW n \in Nat, NEW c \in Nat, n > 0, n <= 2
    PROVE  /\ c \div 2 \in Nat
           /\ n <= c => n - 1 <= c \div 2
           /\ c = n => c \div 2 = n - 1
<1>1. c \div 2 \in Nat
  OBVIOUS
<1>2. n = 1 \/ n = 2
  OBVIOUS
<1>3. n <= c => n - 1 <= c \div 2
  BY <1>2
<1>4. c = n => c \div 2 = n - 1
  BY <1>2
<1>. QED
  BY <1>1, <1>3, <1>4

LEMMA HalfIsNat == \A c \in Nat : c \div 2 \in Nat
  OBVIOUS

LEMMA TabsAreCounted ==
    ASSUME NEW r \in Row
    PROVE  Cardinality({t \in Tab : tab[t].open /\ tab[t].row = r}) \in Nat
<1>1. IsFiniteSet({t \in Tab : tab[t].open /\ tab[t].row = r})
  BY ApplicationAssumption, FS_Subset
<1>. QED
  BY <1>1, FS_CardinalityType

LEMMA BoundsAreNat == MaxStarts \in Nat /\ MaxLoads \in Nat /\ MaxBreaks \in Nat
  BY ApplicationAssumption

TabType == [Tab -> [row : Row \cup {None}, port : Port \cup {None}, open : BOOLEAN]]

LEMMA InitIInv == Init => IInv
<1>. SUFFICES ASSUME Init PROVE IInv
  OBVIOUS
<1>1. tab \in TabType
  BY DEF Init, Blank, TabType
<1>2. TypeOK
  <2>1. detector = isRunning /\ detector \in BOOLEAN
    BY DEF Init, isRunning
  <2>2. starts \in 0..MaxStarts /\ loads \in 0..MaxLoads /\ breaks \in 0..MaxBreaks
    BY BoundsAreNat DEF Init
  <2>3. handlers \in [Row -> Nat] /\ clients \in [Row -> Nat] /\ most \in [Row -> Nat]
    BY DEF Init
  <2>. QED
    BY <1>1, <2>1, <2>2, <2>3 DEF Init, TypeOK, TabType
<1>. QED
  BY <1>2 DEF Init, IInv, MostIsMost, PairsListed, TableIsTrue

-----------------------------------------------------------------------------
(* One lemma for each action.                                               *)

LEMMA StartIInv == ASSUME IInv, Start PROVE IInv'
<1>1. TypeOK'
  <2>1. httpServer' \in [port : Port, listens : BOOLEAN, http : BOOLEAN] /\ detector' = TRUE
    BY DEF Start
  <2>2. httpServer' # None
    BY <2>1, ApplicationAssumption
  <2>3. starts' \in 0..MaxStarts
    BY BoundsAreNat DEF IInv, TypeOK, Start
  <2>. QED
    BY <2>1, <2>2, <2>3 DEF IInv, TypeOK, Start, isRunning
<1>. QED
  BY <1>1 DEF IInv, Start, MostIsMost, PairsListed, TableIsTrue

LEMMA StopIInv == ASSUME IInv, Stop PROVE IInv'
<1>1. TypeOK'
  BY DEF IInv, TypeOK, Stop, isRunning
<1>2. \A r \in Row : handlers'[r] = 0 /\ clients'[r] = clients[r] /\ most'[r] = most[r]
  BY DEF Stop
<1>3. MostIsMost' /\ PairsListed'
  BY <1>2 DEF IInv, TypeOK, MostIsMost, PairsListed
<1>4. \A r \in Row : r \notin stoppedWith' => r \notin stoppedWith /\ handlers[r] = 0
  BY DEF Stop, IInv, TypeOK
<1>5. TableIsTrue'
  BY <1>2, <1>4 DEF IInv, TableIsTrue
<1>. QED
  BY <1>1, <1>3, <1>5 DEF IInv

LEMMA LoadIInv == ASSUME IInv, NEW t \in Tab, Load(t) PROVE IInv'
<1>1. TypeOK'
  <2>1. httpServer \in [port : Port, listens : BOOLEAN, http : BOOLEAN]
    BY DEF IInv, TypeOK, Load, isRunning
  <2>2. tab' \in TabType
    BY <2>1 DEF IInv, TypeOK, Load, TabType
  <2>3. loads' \in 0..MaxLoads
    BY BoundsAreNat DEF IInv, TypeOK, Load
  <2>. QED
    BY <2>2, <2>3 DEF IInv, TypeOK, Load, isRunning, TabType
<1>. QED
  BY <1>1 DEF IInv, Load, MostIsMost, PairsListed, TableIsTrue

LEMMA ConnectIInv == ASSUME IInv, NEW t \in Tab, Connect(t) PROVE IInv'
<1>. DEFINE r == tab[t].row
<1>0. r \in Row
  BY DEF IInv, TypeOK, Connect
<1>1. /\ handlers' = [handlers EXCEPT ![r] = @ + 1]
      /\ clients' = [clients EXCEPT ![r] = @ + 1]
      /\ most' = [most EXCEPT ![r] = IF handlers'[r] > @ THEN handlers'[r] ELSE @]
      /\ UNCHANGED <<httpServer, detector, starts, loads, breaks, stoppedWith>>
      /\ tab' = [tab EXCEPT ![t].open = TRUE]
  BY DEF Connect, handlerStarted
<1>. HIDE DEF r
<1>2. TypeOK'
  <2>1. handlers' \in [Row -> Nat] /\ clients' \in [Row -> Nat]
    BY <1>0, <1>1 DEF IInv, TypeOK
  <2>2. most' \in [Row -> Nat]
    BY <1>0, <1>1, <2>1 DEF IInv, TypeOK
  <2>3. tab' \in TabType
    BY <1>1 DEF IInv, TypeOK, TabType
  <2>. QED
    BY <1>1, <2>1, <2>2, <2>3 DEF IInv, TypeOK, isRunning, TabType
<1>3. ASSUME NEW s \in Row
      PROVE  /\ handlers'[s] <= most'[s]
             /\ most'[s] <= 2 => most[s] <= 2
             /\ \/ handlers'[s] = handlers[s] + 1 /\ clients'[s] = clients[s] + 1
                \/ handlers'[s] = handlers[s] /\ clients'[s] = clients[s]
  <2>1. CASE s = r
    BY <1>0, <1>1, <2>1 DEF IInv, TypeOK, MostIsMost
  <2>2. CASE s # r
    BY <1>0, <1>1, <2>2 DEF IInv, TypeOK, MostIsMost
  <2>. QED
    BY <2>1, <2>2
<1>4. PairsListed'
  BY <1>3 DEF IInv, TypeOK, PairsListed
<1>5. TableIsTrue'
  BY <1>1, <1>3 DEF IInv, TypeOK, TableIsTrue
<1>. QED
  BY <1>2, <1>3, <1>4, <1>5 DEF IInv, MostIsMost

LEMMA BreakIInv == ASSUME IInv, NEW t \in Tab, Break(t) PROVE IInv'
<1>1. TypeOK'
  <2>1. tab' \in TabType
    BY DEF IInv, TypeOK, Break, TabType
  <2>2. breaks' \in 0..MaxBreaks
    BY BoundsAreNat DEF IInv, TypeOK, Break
  <2>. QED
    BY <2>1, <2>2 DEF IInv, TypeOK, Break, isRunning, TabType
<1>. QED
  BY <1>1 DEF IInv, Break, MostIsMost, PairsListed, TableIsTrue

LEMMA DisconnectedIInv == ASSUME IInv, NEW r \in Row, Disconnected(r) PROVE IInv'
<1>1. /\ handlers' = [handlers EXCEPT ![r] = @ - 1]
      /\ clients' = [clients EXCEPT ![r] = @ \div 2]
      /\ UNCHANGED <<httpServer, detector, tab, starts, loads, breaks, most, stoppedWith>>
  BY DEF Disconnected, handlerStopped
<1>2. handlers[r] \in Nat /\ clients[r] \in Nat /\ handlers[r] > 0
  BY TabsAreCounted DEF Disconnected, IInv, TypeOK
<1>3. TypeOK'
  BY <1>1, <1>2, HalfIsNat DEF IInv, TypeOK, isRunning
<1>4. ASSUME NEW s \in Row
      PROVE  /\ handlers'[s] <= handlers[s]
             /\ most[s] <= 2 /\ handlers[s] <= clients[s] => handlers'[s] <= clients'[s]
             /\ most[s] <= 2 /\ clients[s] = handlers[s] => clients'[s] = handlers'[s]
  <2>1. CASE s = r
    <3>1. handlers'[s] = handlers[r] - 1 /\ clients'[s] = clients[r] \div 2
      BY <1>1, <2>1 DEF IInv, TypeOK
    <3>2. most[s] <= 2 => handlers[r] <= 2
      BY <2>1, <1>2 DEF IInv, TypeOK, MostIsMost
    <3>. QED
      BY <1>2, <2>1, <3>1, <3>2, HalfOfFew
  <2>2. CASE s # r
    <3>1. handlers'[s] = handlers[s] /\ clients'[s] = clients[s]
      BY <1>1, <2>2 DEF IInv, TypeOK
    <3>. QED
      BY <3>1 DEF IInv, TypeOK
  <2>. QED
    BY <2>1, <2>2
<1>5. MostIsMost'
  BY <1>1, <1>3, <1>4 DEF IInv, TypeOK, MostIsMost
<1>6. PairsListed' /\ TableIsTrue'
  BY <1>1, <1>4 DEF IInv, PairsListed, TableIsTrue
<1>. QED
  BY <1>3, <1>5, <1>6 DEF IInv

LEMMA StepIInv == ASSUME IInv, [Next]_vars PROVE IInv'
<1>1. CASE Start \/ Stop
  BY <1>1, StartIInv, StopIInv
<1>2. ASSUME NEW t \in Tab, Load(t) \/ Connect(t) \/ Break(t) PROVE IInv'
  BY <1>2, LoadIInv, ConnectIInv, BreakIInv
<1>3. ASSUME NEW r \in Row, Disconnected(r) PROVE IInv'
  BY <1>3, DisconnectedIInv
<1>4. CASE UNCHANGED vars
  BY <1>4 DEF vars, IInv, TypeOK, MostIsMost, PairsListed, TableIsTrue, isRunning
<1>. QED
  BY <1>1, <1>2, <1>3, <1>4 DEF Next

-----------------------------------------------------------------------------
(* The theorems.                                                            *)

LEMMA AlwaysIInv == Spec => []IInv
  BY InitIInv, StepIInv, PTL DEF Spec

\* Every variable keeps its type, and the detector runs exactly while the
\* server does (Application::start, Application::stop).
THEOREM ApplicationTypeCorrect == Spec => []TypeOK
<1>1. IInv => TypeOK
  BY DEF IInv
<1>. QED
  BY AlwaysIInv, <1>1, PTL

\* Whoever has a handler has a row in the table (ClientTableModel), whatever
\* rows a stop has left behind, while no more than two handlers were ever alike:
\* as far as the loop of handlerStopped is right.
THEOREM PairsAreListed == Spec => []PairsListed
<1>1. IInv => PairsListed
  BY DEF IInv
<1>. QED
  BY AlwaysIInv, <1>1, PTL

\* The table shows each handler once and nothing else, but for the rows that a
\* stop has left behind (ClientTableModel), while no more than two are alike.
THEOREM TableShowsHandlers == Spec => []TableIsTrue
<1>1. IInv => TableIsTrue
  BY DEF IInv
<1>. QED
  BY AlwaysIInv, <1>1, PTL
=============================================================================
