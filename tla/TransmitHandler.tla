--------------------------- MODULE TransmitHandler ---------------------------
(****************************************************************************)
(* What Channel Check and Level Control share: the handler base class       *)
(* (handler/TransmitHandler), the sACN source it drives, and the settings   *)
(* part of the page that sends it messages (TransmitConfig and the "open"   *)
(* listener).  ChanCheck and TransmitLevels extend this module as their     *)
(* classes extend the handler.                                              *)
(*                                                                          *)
(* A slot runs on the main thread to its end, but the library calls it      *)
(* makes are steps of their own here: the library's own thread may send a   *)
(* packet between two of them.  Whatever `live` says whenever it holds      *)
(* levels is what receivers may see.                                        *)
(****************************************************************************)
EXTENDS Naturals, Sequences, FiniteSets

CONSTANTS
    Universe, Priority,
    Address,          \* addresses of the level buffers (1..512)
    Level,            \* levels, 0 among them
    DefaultUniverse, DefaultPriority,  \* of handler, page and library alike
    None,
    MaxInbox          \* bound: messages under way when the user acts

ASSUME TransmitConstants ==
    /\ DefaultUniverse \in Universe /\ DefaultPriority \in Priority
    /\ Priority \subseteq Nat /\ 0 \in Priority
    /\ Level \subseteq Nat /\ 0 \in Level
    /\ None \notin Universe \cup [Address -> Priority] /\ MaxInbox \in Nat

VARIABLES
    \* The handler: univSettings_, perAddressPriority_ and the two buffers.
    universe, priority, usePap, levelBuf, papBuf,
    live,    \* sacn_: the library's source, and what it transmits
    calls,   \* library calls the running slot has still to make
    \* The page: its settings, what it has sent, whether it is connected.
    config, inbox, open

handlerVars == <<universe, priority, usePap, levelBuf, papBuf>>
baseVars == <<handlerVars, live, calls, config, inbox, open>>

Off == [on |-> FALSE, at |-> None, priority |-> 0, levels |-> None, pap |-> None]
Dark == [a \in Address |-> 0]

-----------------------------------------------------------------------------
(* The handler.                                                             *)

\* The members as the constructor leaves them.
ConstructBase ==
    /\ universe' = DefaultUniverse
    /\ priority' = DefaultPriority
    /\ usePap' = FALSE

currentlyTransmitting == live.on

\* sendLevelsAndPap, when there is a source to send with.
SendLevelsAndPap == IF currentlyTransmitting THEN <<"levels">> ELSE <<>>

OnChangePriority(p) ==
    /\ priority' = p
    /\ calls' = IF currentlyTransmitting THEN <<"priority", "levels">> ELSE <<>>
    /\ UNCHANGED live

OnChangePap(use) ==
    /\ usePap' = use
    /\ calls' = SendLevelsAndPap
    /\ UNCHANGED live

OnChangeUniverse(u) ==
    /\ universe' = u
    /\ calls' = IF currentlyTransmitting THEN <<"remove", "add", "levels">> ELSE <<>>
    /\ UNCHANGED live

\* The calls startTransmitting makes once Startup succeeded: onChangeUniverse,
\* onChangePriority, onChangePap, sendLevelsAndPap (the repeated sends of the
\* same buffers are one).
StartCallsUniverseLast == <<"priority", "levels", "add", "levels">>  \* mutant
StartCalls == <<"add", "levels", "priority", "levels">>

\* Mutant: whatever is asked for, the state is flipped.
OnChangeTransmitFlips(transmit) ==
    /\ live' = [Off EXCEPT !.on = ~currentlyTransmitting]
    /\ calls' = IF currentlyTransmitting THEN <<>> ELSE StartCalls

\* onChangeTransmit: nothing to do, start (Startup may fail), or stop.
OnChangeTransmit(transmit) ==
    \/ /\ transmit = currentlyTransmitting
       /\ UNCHANGED <<live, calls>>
    \/ /\ transmit /\ ~currentlyTransmitting
       /\ \/ /\ live' = [Off EXCEPT !.on = TRUE]
             /\ calls' = StartCalls
          \/ /\ live' = Off
             /\ calls' = <<>>
    \/ /\ ~transmit /\ currentlyTransmitting
       /\ live' = Off
       /\ calls' = <<>>

-----------------------------------------------------------------------------
(* The sACN library's source (external).                                    *)

\* A new universe has the library's default priority and nothing to send yet.
AddUniverse == [on |-> TRUE, at |-> universe, priority |-> DefaultPriority,
                levels |-> None, pap |-> None]

\* Calls for a universe the source does not send on are refused.
ChangePriority ==
    IF live.at = universe THEN [live EXCEPT !.priority = priority] ELSE live
UpdateLevelsAndPap ==
    IF live.at = universe
    THEN [live EXCEPT !.levels = levelBuf, !.pap = IF usePap THEN papBuf ELSE None]
    ELSE live

\* The running slot makes its next call.
LibraryCall ==
    LET after == [remove |-> [Off EXCEPT !.on = TRUE], add |-> AddUniverse,
                  priority |-> ChangePriority, levels |-> UpdateLevelsAndPap]
    IN  /\ calls # <<>>
        /\ calls' = Tail(calls)
        /\ live' = after[Head(calls)]
        /\ UNCHANGED <<handlerVars, config, inbox, open>>

-----------------------------------------------------------------------------
(* The page's settings.                                                     *)

DefaultConfig == [universe |-> DefaultUniverse, priority |-> DefaultPriority,
                  pap |-> FALSE, transmit |-> FALSE]

Send(msg) == inbox' = Append(inbox, msg)

\* The user can act: the page is connected (bound: and not far ahead).
UserMayAct == open /\ Len(inbox) <= MaxInbox

\* Mutant: the inputs stay enabled.
EditConfigAnytime ==
    /\ UserMayAct
    /\ \/ \E u \in Universe \ {config.universe} :
             config' = [config EXCEPT !.universe = u] /\ Send([universe |-> u])
       \/ \E p \in Priority \ {config.priority} :
             config' = [config EXCEPT !.priority = p] /\ Send([priority |-> p])
    /\ UNCHANGED <<handlerVars, live, calls, open>>

\* Universe, priority and PAP inputs are disabled while transmitting.
EditConfig ==
    /\ UserMayAct
    /\ ~config.transmit
    /\ \/ \E u \in Universe \ {config.universe} :
             config' = [config EXCEPT !.universe = u] /\ Send([universe |-> u])
       \/ \E p \in Priority \ {config.priority} :
             config' = [config EXCEPT !.priority = p] /\ Send([priority |-> p])
       \/ LET pap == ~config.pap IN
             config' = [config EXCEPT !.pap = pap] /\ Send([pap |-> pap])
    /\ UNCHANGED <<handlerVars, live, calls, open>>

\* The Start and Stop button.
PressStartStop ==
    /\ UserMayAct
    /\ LET transmit == ~config.transmit IN
          config' = [config EXCEPT !.transmit = transmit] /\ Send([transmit |-> transmit])
    /\ UNCHANGED <<handlerVars, live, calls, open>>

\* The next message of the page is handled: one slot, from an idle main thread.
Receive(field) ==
    /\ calls = <<>>
    /\ inbox # <<>>
    /\ field \in DOMAIN Head(inbox)
    /\ inbox' = Tail(inbox)
    /\ UNCHANGED <<config, open>>

\* The connection breaks: the handler stops transmitting and is destroyed.  Both
\* ends break at once here; a handler whose page has left it on a half-open
\* connection, and which sends until the system ends that, is not modelled.
Disconnect ==
    /\ open /\ calls = <<>>
    /\ open' = FALSE
    /\ inbox' = <<>>
    /\ live' = Off
    /\ UNCHANGED <<handlerVars, calls, config>>

-----------------------------------------------------------------------------
Call == {"remove", "add", "priority", "levels"}

LiveType == [on : BOOLEAN, at : Universe \cup {None}, priority : Priority,
             levels : [Address -> Level] \cup {None},
             pap : [Address -> Priority] \cup {None}]

ConfigType == [universe : Universe, priority : Priority, pap : BOOLEAN, transmit : BOOLEAN]

ConfigMessage == [universe : Universe] \cup [priority : Priority]
                    \cup [pap : BOOLEAN] \cup [transmit : BOOLEAN]

BaseTypeOK ==
    /\ universe \in Universe
    /\ priority \in Priority
    /\ usePap \in BOOLEAN
    /\ levelBuf \in [Address -> Level]
    /\ papBuf \in [Address -> Priority]
    /\ live \in LiveType
    /\ calls \in Seq(Call)
    /\ config \in ConfigType
    /\ open \in BOOLEAN

\* Everything the user did has arrived and been carried out.
Settled == open /\ inbox = <<>> /\ calls = <<>>

\* Once all has arrived, what goes out has the universe, the priority and the
\* PAP choice the page shows and the handler's levels, whatever was edited,
\* restarted or reconnected.  AddUniverse resets the priority and the levels:
\* this rests on the order of the calls, and on the page not changing the
\* universe of a running source.
LiveMatchesConfig ==
    Settled /\ live.on =>
       /\ live.at = config.universe
       /\ live.priority = config.priority
       /\ (live.pap # None) = config.pap
       /\ live.levels = levelBuf

\* Nothing goes out once the page shows it is stopped, even when a start did
\* not succeed or the connection broke in between.
SilentUnlessStarted == Settled /\ live.on => config.transmit
=============================================================================
