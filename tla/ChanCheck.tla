------------------------------ MODULE ChanCheck ------------------------------
(****************************************************************************)
(* Channel Check: the handler (handler/ChanCheck) with its blink timer, and *)
(* its page (ChannelCheckPage), on the base module it shares with Level     *)
(* Control.                                                                 *)
(*                                                                          *)
(* Address 0 stands for no address: the page sends it when the address      *)
(* field is emptied.                                                        *)
(****************************************************************************)
EXTENDS TransmitHandler

CONSTANT FieldValue   \* what the address field can hold: addresses, maybe 0

ASSUME ChanCheckConstants ==
    /\ Address \subseteq Nat \ {0} /\ FieldValue \subseteq Nat /\ 1 \in FieldValue \cap Address
    /\ \E l \in Level : \A k \in Level : k <= l   \* full

VARIABLES
    address, level, blinking,   \* the handler: address_, level_, blinker_ active
    choice                      \* the page: address, level, blink

chanVars == <<address, level, blinking>>
vars == <<baseVars, chanVars, choice>>

MaxLevel == CHOOSE l \in Level : \A k \in Level : k <= l
DefaultChoice == [address |-> 1, level |-> MaxLevel, blink |-> FALSE]

\* updateLevelBuf and updatePapBuf, for an address inside the buffers or not.
PapBufForNext(a, p) == [b \in Address |-> IF b = a + 1 THEN p ELSE 0]  \* mutant
LevelBufFor(a, l) == [b \in Address |-> IF b = a THEN l ELSE 0]
PapBufFor(a, p) == [b \in Address |-> IF b = a THEN p ELSE 0]

Init ==
    /\ universe = DefaultUniverse /\ priority = DefaultPriority /\ usePap = FALSE
    /\ levelBuf = Dark /\ papBuf = PapBufFor(1, DefaultPriority)
    /\ address = 1 /\ level = 0 /\ blinking = FALSE
    /\ live = Off /\ calls = <<>>
    /\ config = DefaultConfig /\ choice = DefaultChoice
    /\ inbox = <<>> /\ open = FALSE

-----------------------------------------------------------------------------
(* The handler.                                                             *)

OnChangeAddressKeepsLevels(a) ==  \* mutant: the buffer is not filled with 0
    /\ address' = a
    /\ levelBuf' = [b \in Address |-> IF b = a THEN level ELSE levelBuf[b]]
    /\ papBuf' = PapBufFor(a, priority)
    /\ calls' = SendLevelsAndPap
    /\ UNCHANGED <<universe, priority, usePap, live, level, blinking>>

OnChangeAddress(a) ==
    /\ address' = a
    /\ levelBuf' = LevelBufFor(a, level)
    /\ papBuf' = PapBufFor(a, priority)
    /\ calls' = SendLevelsAndPap
    /\ UNCHANGED <<universe, priority, usePap, live, level, blinking>>

OnChangeLevel(l) ==
    /\ level' = l
    /\ levelBuf' = LevelBufFor(address, l)
    /\ calls' = SendLevelsAndPap
    /\ UNCHANGED <<universe, priority, usePap, papBuf, live, address, blinking>>

\* The timer is started or stopped; the levels stay as the last blink left them.
OnChangeBlink(blink) ==
    /\ blinking' = blink
    /\ UNCHANGED <<handlerVars, live, calls, address, level>>

\* startTransmitting renews the buffers first (onChangeAddress, onChangeLevel).
OnTransmit(transmit) ==
    /\ OnChangeTransmit(transmit)
    /\ IF transmit /\ ~currentlyTransmitting
       THEN levelBuf' = LevelBufFor(address, level) /\ papBuf' = PapBufFor(address, priority)
       ELSE UNCHANGED <<levelBuf, papBuf>>
    /\ UNCHANGED <<universe, priority, usePap, chanVars>>

\* onBinaryMessage: one slot for each kind of message.
Handle ==
    /\ LET msg == Head(inbox) IN
       \/ /\ Receive("universe") /\ OnChangeUniverse(msg.universe)
          /\ UNCHANGED <<priority, usePap, levelBuf, papBuf, chanVars>>
       \/ /\ Receive("priority") /\ OnChangePriority(msg.priority)
          /\ papBuf' = PapBufFor(address, msg.priority)
          /\ UNCHANGED <<universe, usePap, levelBuf, chanVars>>
       \/ /\ Receive("pap") /\ OnChangePap(msg.pap)
          /\ UNCHANGED <<universe, priority, levelBuf, papBuf, chanVars>>
       \/ Receive("address") /\ OnChangeAddress(msg.address)
       \/ Receive("level") /\ OnChangeLevel(msg.level)
       \/ Receive("blink") /\ OnChangeBlink(msg.blink)
       \/ Receive("transmit") /\ OnTransmit(msg.transmit)
    /\ UNCHANGED choice

BlinkOnce ==  \* mutant: goes dark and stays so
    /\ calls = <<>>
    /\ blinking
    /\ levelBuf' = Dark
    /\ calls' = SendLevelsAndPap
    /\ UNCHANGED <<universe, priority, usePap, papBuf, live, config, inbox, open,
                   chanVars, choice>>

\* blink(), on the timer: the address changes between the level and dark.  With
\* address_ 0 it reads and writes levelBuf_[-1], which is not in the buffer: it
\* may be the member before it, perAddressPriority_.
Blink ==
    /\ calls = <<>>
    /\ blinking
    /\ levelBuf' = [b \in Address |-> IF b # address THEN levelBuf[b]
                                      ELSE IF levelBuf[b] > 0 THEN 0 ELSE level]
    /\ usePap' \in IF address \in Address THEN {usePap} ELSE BOOLEAN
    /\ calls' = SendLevelsAndPap
    /\ UNCHANGED <<universe, priority, papBuf, live, config, inbox, open,
                   chanVars, choice>>

-----------------------------------------------------------------------------
(* The page.                                                                *)

Connect ==
    /\ ~open
    /\ open' = TRUE
    /\ ConstructBase
    /\ levelBuf' = Dark /\ papBuf' = PapBufFor(1, DefaultPriority)
    /\ address' = 1 /\ level' = 0 /\ blinking' = FALSE
    /\ inbox' = << [blink |-> choice.blink], [level |-> choice.level],
                   [address |-> choice.address], [universe |-> config.universe],
                   [pap |-> config.pap], [priority |-> config.priority],
                   [transmit |-> config.transmit] >>
    /\ UNCHANGED <<live, calls, config, choice>>

\* Mutant: the next button is not disabled at the last address.
ChooseNext ==
    /\ UserMayAct
    /\ choice' = [choice EXCEPT !.address = @ + 1]
    /\ Send([address |-> choice.address + 1])
    /\ UNCHANGED <<handlerVars, live, calls, config, open, chanVars>>

\* The address field, the next and last buttons, the level fader, the blink box.
Choose ==
    /\ UserMayAct
    /\ \/ \E a \in FieldValue \ {choice.address} :
             choice' = [choice EXCEPT !.address = a] /\ Send([address |-> a])
       \/ \E l \in Level \ {choice.level} :
             choice' = [choice EXCEPT !.level = l] /\ Send([level |-> l])
       \/ LET blink == ~choice.blink IN
             choice' = [choice EXCEPT !.blink = blink] /\ Send([blink |-> blink])
    /\ UNCHANGED <<handlerVars, live, calls, config, open, chanVars>>

\* ~ChanCheck destroys the timer with the handler.
Hangup ==
    /\ Disconnect
    /\ blinking' = FALSE
    /\ UNCHANGED <<address, level, choice>>

Next ==
    \/ Handle \/ Blink
    \/ LibraryCall /\ UNCHANGED <<chanVars, choice>>
    \/ (EditConfig \/ PressStartStop) /\ UNCHANGED <<chanVars, choice>>
    \/ Choose \/ Connect \/ Hangup

Spec == Init /\ [][Next]_vars

\* The main thread makes its calls, and the timer fires when it is running.
Fairness == WF_vars(LibraryCall /\ UNCHANGED <<chanVars, choice>>) /\ SF_vars(Blink)
FairSpec == Spec /\ Fairness

-----------------------------------------------------------------------------
Message == ConfigMessage \cup [address : FieldValue] \cup [level : Level] \cup [blink : BOOLEAN]

\* The shape of every variable.
TypeOK ==
    /\ BaseTypeOK
    /\ inbox \in Seq(Message)
    /\ address \in FieldValue /\ level \in Level /\ blinking \in BOOLEAN
    /\ choice \in [address : FieldValue, level : Level, blink : BOOLEAN]

\* At no time does any address but the one being checked go out above zero,
\* or with a PAP priority: moving on, blinking and restarting leave no other
\* address on.
OnlyOneAddress ==
    /\ live.levels # None =>
          \A a \in Address : live.levels[a] # 0 => live.levels = LevelBufFor(a, live.levels[a])
    /\ Settled /\ live.on =>
          \A a \in Address \ {choice.address} :
             live.levels[a] = 0 /\ (live.pap # None => live.pap[a] = 0)

\* With PAP, the address being checked goes out with the priority set.
PapIsThePriority ==
    Settled /\ live.on /\ config.pap /\ choice.address \in Address =>
       live.pap[choice.address] = config.priority

\* A blinking address is seen dark again and again, and lit again and again,
\* as long as it blinks at a level above zero.
Blinks ==
    LET going == open /\ live.on /\ blinking /\ level > 0 /\ address \in Address
        dark == live.levels # None /\ live.levels[address] = 0
        lit == live.levels # None /\ live.levels[address] > 0
    IN  <>[]going => []<>dark /\ []<>lit
=============================================================================
