---------------------------- MODULE TransmitLevels ----------------------------
(****************************************************************************)
(* Level Control: the handler (handler/TransmitLevels) and its page         *)
(* (TransmitLevelsPage), on the base module they share with Channel Check.  *)
(* A ramp typed in decimal or hex leaves fractions on the faders (module    *)
(* Keypad), so a fader counts in units of 1/Scale; a message carries bytes. *)
(****************************************************************************)
EXTENDS TransmitHandler

CONSTANTS
    Scale,    \* units in a level
    Fader     \* where a fader may be

ASSUME FaderAssumption ==
    /\ Scale \in Nat \ {0}
    /\ Fader \subseteq Nat /\ 0 \in Fader
    /\ \A l \in Fader : l \div Scale \in Level

VARIABLE levels   \* the page's level store

vars == <<baseVars, levels>>

Init ==
    /\ universe = DefaultUniverse /\ priority = DefaultPriority /\ usePap = FALSE
    /\ levelBuf = Dark /\ papBuf = Dark
    /\ live = Off /\ calls = <<>>
    /\ config = DefaultConfig /\ levels = Dark
    /\ inbox = <<>> /\ open = FALSE

\* PAP for a set of levels: addresses at zero are left to other sources.
PapFor(lvls, p) == [a \in Address |-> IF lvls[a] = 0 THEN 0 ELSE p]

OnChangeLevels(lvls) ==
    /\ levelBuf' = lvls
    /\ papBuf' = PapFor(lvls, priority)
    /\ calls' = SendLevelsAndPap
    /\ UNCHANGED live

\* onBinaryMessage: one slot for each kind of message.
Handle ==
    LET msg == Head(inbox) IN
    \/ /\ Receive("universe") /\ OnChangeUniverse(msg.universe)
       /\ UNCHANGED <<priority, usePap, levelBuf, papBuf, levels>>
    \/ /\ Receive("priority") /\ OnChangePriority(msg.priority)
       /\ UNCHANGED <<universe, usePap, levelBuf, papBuf, levels>>
    \/ /\ Receive("pap") /\ OnChangePap(msg.pap)
       /\ UNCHANGED <<universe, priority, levelBuf, papBuf, levels>>
    \/ /\ Receive("levels") /\ OnChangeLevels(msg.levels)
       /\ UNCHANGED <<universe, priority, usePap, levels>>
    \/ /\ Receive("transmit") /\ OnChangeTransmit(msg.transmit)
       /\ UNCHANGED <<handlerVars, levels>>

\* LevelBuffer.createLevelBuffer: a byte for each address, which drops what a
\* level has beyond the whole.
LevelBuffer(lvls) == [a \in Address |-> lvls[a] \div Scale]

\* Mutant: the faders are not among what the page sends.
ConnectWithoutLevels ==
    /\ ~open
    /\ open' = TRUE
    /\ ConstructBase
    /\ levelBuf' = Dark /\ papBuf' = Dark
    /\ inbox' = << [universe |-> config.universe], [pap |-> config.pap],
                   [priority |-> config.priority], [transmit |-> config.transmit] >>
    /\ UNCHANGED <<live, calls, config, levels>>

\* A new connection: a new handler, and the page sends it all it shows, the
\* transmit state last.
Connect ==
    /\ ~open
    /\ open' = TRUE
    /\ ConstructBase
    /\ levelBuf' = Dark /\ papBuf' = Dark
    /\ inbox' = << [universe |-> config.universe], [pap |-> config.pap],
                   [priority |-> config.priority], [levels |-> LevelBuffer(levels)],
                   [transmit |-> config.transmit] >>
    /\ UNCHANGED <<live, calls, config, levels>>

\* Mutant: a fader goes one past its end.
SetLevelPastEnd(a, l) ==
    /\ UserMayAct
    /\ levels' = [levels EXCEPT ![a] = l + 1]
    /\ Send([levels |-> LevelBuffer(levels')])
    /\ UNCHANGED <<handlerVars, live, calls, config, open>>

\* The user moves a fader (or commits a command line).
SetLevel(a, l) ==
    /\ UserMayAct
    /\ levels[a] # l
    /\ levels' = [levels EXCEPT ![a] = l]
    /\ Send([levels |-> LevelBuffer(levels')])
    /\ UNCHANGED <<handlerVars, live, calls, config, open>>

UI == (EditConfig \/ PressStartStop \/ Disconnect) /\ UNCHANGED levels

Next ==
    \/ Handle
    \/ LibraryCall /\ UNCHANGED levels
    \/ UI
    \/ Connect
    \/ \E a \in Address, l \in Fader : SetLevel(a, l)

Spec == Init /\ [][Next]_vars

\* The main thread makes its calls and handles the messages that arrive.
Fairness == WF_vars(Handle) /\ WF_vars(LibraryCall /\ UNCHANGED levels)
FairSpec == Spec /\ Fairness

-----------------------------------------------------------------------------
Message == ConfigMessage \cup [levels : [Address -> Level]]

\* The shape of every variable.
TypeOK == BaseTypeOK /\ inbox \in Seq(Message) /\ levels \in [Address -> Fader]

\* Once all has arrived, the levels that go out are those on the faders, whatever
\* was moved, started, stopped or reconnected; of a fader at a fraction (the page
\* shows 127.5), the whole part.
LevelsMatchFaders == Settled /\ live.on => live.levels = LevelBuffer(levels)

\* With PAP, each address that goes out above 0% does so with the priority set,
\* and every other with none.
PapIsThePriority ==
    Settled /\ live.on /\ config.pap =>
       live.pap = PapFor(LevelBuffer(levels), config.priority)
=============================================================================
