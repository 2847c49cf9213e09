---------------------------- MODULE ReceiveLevels ----------------------------
(****************************************************************************)
(* The handler behind a View Levels page (handler/ReceiveLevels), composed  *)
(* with the shared receivers it subscribes to (MergeReceiver).              *)
(*                                                                          *)
(* `told` is a history: what the handler has sent its client since it took  *)
(* the last request for a universe (of flicker marks, for a mode); its      *)
(* field `stray` has the sources that a receiver not watched any more was   *)
(* the last to speak of.  What the page makes of the messages, and when it  *)
(* clears what it shows, is in module ReceiveLevelsPage; what clients learn *)
(* from universe discovery is in module SourceDetector.  The priority and   *)
(* the owner of an address come and go with its level and are left out.     *)
(****************************************************************************)
EXTENDS MergeReceiver, Integers

ASSUME LevelsAreNat == Level \subseteq Nat

VARIABLES
    open,       \* open[h]: the handler exists
    lastSeen,   \* lastSeen[h]: lastSeen_, the level of the last frame handled
    flicker,    \* flicker[h]: flickerFinder_
    reference,  \* reference[h]: flickerFinderReferenceBuffer_
    told        \* told[h]: what h told its client of the universe it watches

rlVars == <<open, lastSeen, flicker, reference, told>>
viewVars == <<vars, rlVars>>

\* Mutant: lastSeen_ is cleared to nothing rather than to zero.
NothingSeenIsNone == None

NothingSeen == 0
NothingTold == [src |-> [c \in Cid |-> None], stray |-> {},
                level |-> None, diff |-> None]

ViewInit ==
    /\ Init
    /\ open = [h \in Handler |-> FALSE]
    /\ lastSeen = [h \in Handler |-> NothingSeen]
    /\ flicker = [h \in Handler |-> FALSE]
    /\ reference = [h \in Handler |-> 0]
    /\ told = [h \in Handler |-> NothingTold]

-----------------------------------------------------------------------------
(* The life of a handler: its members start from their initializers.        *)

OnConnect(h) ==
    /\ main.pc = "idle"
    /\ ~open[h]
    /\ open' = [open EXCEPT ![h] = TRUE]
    /\ lastSeen' = [lastSeen EXCEPT ![h] = NothingSeen]
    /\ flicker' = [flicker EXCEPT ![h] = FALSE]
    /\ reference' = [reference EXCEPT ![h] = 0]
    /\ told' = [told EXCEPT ![h] = NothingTold]
    /\ UNCHANGED vars

OnDisconnect(h) ==
    /\ open[h]
    /\ Close(h)
    /\ open' = [open EXCEPT ![h] = FALSE]
    /\ UNCHANGED <<lastSeen, flicker, reference, told>>

-----------------------------------------------------------------------------
(* Requests of the client.                                                  *)

OnChangeUniverse(h, u) ==
    /\ open[h]
    /\ ChangeUniverse(h, u)
    /\ told' = [told EXCEPT ![h] = NothingTold]
    /\ UNCHANGED <<open, lastSeen, flicker, reference>>

\* The connect() calls and the wait for the mutex touch nothing of the handler.
OnChangeUniverseStep ==
    /\ Connect \/ LockSources
    /\ UNCHANGED rlVars

\* Mutant: known sources are not sent.
OnChangeUniverseEndSilent ==
    /\ SendKnownSources
    /\ lastSeen' = [lastSeen EXCEPT ![main.h] = NothingSeen]
    /\ UNCHANGED <<open, flicker, reference, told>>

\* Mutant: lastSeen_ is not cleared.
OnChangeUniverseEndKeeps ==
    /\ SendKnownSources
    /\ LET known == sources[main.u] IN
          told' = [told EXCEPT ![main.h].src =
                      [c \in Cid |-> IF known[c] # None THEN known[c] ELSE @[c]]]
    /\ UNCHANGED <<open, lastSeen, flicker, reference>>

\* The copied sources are sent and lastSeen_ is cleared.
OnChangeUniverseEnd ==
    /\ SendKnownSources
    /\ LET known == sources[main.u] IN
          told' = [told EXCEPT ![main.h].src =
                      [c \in Cid |-> IF known[c] # None THEN known[c] ELSE @[c]]]
    /\ lastSeen' = [lastSeen EXCEPT ![main.h] = NothingSeen]
    /\ UNCHANGED <<open, flicker, reference>>

OnLeaveUniverse(h) ==
    /\ open[h]
    /\ LeaveUniverse(h)
    /\ told' = [told EXCEPT ![h] = NothingTold]
    /\ lastSeen' = [lastSeen EXCEPT ![h] = NothingSeen]
    /\ UNCHANGED <<open, flicker, reference>>

\* The reference is taken on the rising edge only.
OnChangeFlickerFinder(h, on) ==
    /\ main.pc = "idle"
    /\ open[h]
    /\ IF on /\ ~flicker[h]
       THEN reference' = [reference EXCEPT ![h] = lastSeen[h]]
       ELSE UNCHANGED reference
    /\ flicker' = [flicker EXCEPT ![h] = on]
    /\ told' = [told EXCEPT ![h].diff = None]
    /\ UNCHANGED <<vars, open, lastSeen>>

-----------------------------------------------------------------------------
(* Queued signals of the receivers.                                         *)

OnSource(h) ==
    /\ Deliver(h)
    /\ LET e == Head(queue[h]) IN
          /\ e.signal \in {"sourceUpdated", "sourceLost"}
          /\ told' = [told EXCEPT ![h].src[e.cid] = e.info,
                                  ![h].stray = IF e.from = held[h] THEN @ \ {e.cid}
                                               ELSE @ \cup {e.cid}]
    /\ UNCHANGED <<open, lastSeen, flicker, reference>>

\* The levels are read through the pointer, now: whatever the storage holds,
\* and anything at all once its receiver is gone.
ReadLevels(e) == IF e.from = None THEN Level ELSE {buf[e.from]}

SeeFrame(h, level) == lastSeen' = [lastSeen EXCEPT ![h] = level]

\* A frame in normal mode: levelsChanged carries all of it.
OnMergedLevels(h) ==
    /\ Deliver(h)
    /\ ~flicker[h]
    /\ LET e == Head(queue[h]) IN
          /\ e.signal = "dataChanged"
          /\ \E level \in ReadLevels(e) :
                /\ SeeFrame(h, level)
                /\ told' = [told EXCEPT ![h].level = level]
    /\ UNCHANGED <<open, flicker, reference>>

\* Mutant: what is as it was when the mode was switched on is not sent.
DiffersFromReference(h, level) == level # reference[h]

\* A level is sent when it is not what the handler saw last.
Differs(h, level) == level # lastSeen[h]

FlickerMessage(h, level) ==
    IF Differs(h, level)
    THEN told' = [told EXCEPT ![h].level = level, ![h].diff = level - reference[h]]
    ELSE UNCHANGED told

\* A frame in flicker finder mode: only what differs from the last frame.
OnMergedFlicker(h) ==
    /\ Deliver(h)
    /\ flicker[h]
    /\ LET e == Head(queue[h]) IN
          /\ e.signal = "dataChanged"
          /\ \E level \in ReadLevels(e) :
                /\ FlickerMessage(h, level)
                /\ SeeFrame(h, level)
    /\ UNCHANGED <<open, flicker, reference>>

OnMergedData(h) == OnMergedLevels(h) \/ OnMergedFlicker(h)

\* The receive thread only touches the receivers.
Receiving ==
    /\ \/ RxSteps
       \/ \E u \in Universe : HandleMergedData(u) \/ HandleSourcesLost(u)
    /\ UNCHANGED rlVars

-----------------------------------------------------------------------------
ViewNext ==
    \/ \E h \in Handler :
          \/ OnConnect(h) \/ OnDisconnect(h)
          \/ \E u \in Universe : OnChangeUniverse(h, u)
          \/ OnLeaveUniverse(h)
          \/ \E on \in BOOLEAN : OnChangeFlickerFinder(h, on)
          \/ OnSource(h) \/ OnMergedData(h)
    \/ OnChangeUniverseStep \/ OnChangeUniverseEnd
    \/ Receiving

ViewSpec == ViewInit /\ [][ViewNext]_viewVars

\* As in MergeReceiver; and the event loop serves its queue in order, so a
\* delivery is not passed over for ever by the requests of other clients
\* (strong fairness: those requests keep disabling it for a while).
ViewFairness ==
    /\ WF_viewVars(OnChangeUniverseStep \/ OnChangeUniverseEnd)
    /\ WF_viewVars(RxSteps /\ UNCHANGED rlVars)
    /\ \A h \in Handler : SF_viewVars(OnSource(h) \/ OnMergedData(h))

ViewFairSpec == ViewSpec /\ ViewFairness

-----------------------------------------------------------------------------
ClientState == [src : [Cid -> Info \cup {None}], stray : SUBSET Cid,
                level : Level \cup {None}, diff : Int \cup {None}]

\* The shape of the handler's own variables.
ViewTypeOK ==
    /\ open \in [Handler -> BOOLEAN]
    /\ lastSeen \in [Handler -> Level]
    /\ flicker \in [Handler -> BOOLEAN]
    /\ reference \in [Handler -> Level]
    /\ told \in [Handler -> ClientState]

\* h's request to change universe is still being carried out.
Busy(h) == main.pc # "idle" /\ main.h = h

\* The deliveries to h that still have to tell its client of source c.
About(h, c) == {i \in DOMAIN queue[h] : queue[h][i].signal # "dataChanged"
                                         /\ queue[h][i].cid = c}

\* What the client will hold of source c when all that is queued is delivered.
WillKnow(h, c) ==
    IF About(h, c) = {} THEN told[h].src[c]
    ELSE queue[h][CHOOSE i \in About(h, c) : \A j \in About(h, c) : j <= i].info

\* A receiver other than the one h watches was the last to speak of source c
\* to the client, or still will.
Stray(h, c) ==
    \/ c \in told[h].stray
    \/ \E i \in About(h, c) : queue[h][i].from # held[h]

\* The sources of the watched universe never slip between the connect() calls
\* and the copy that follows them: each one the receiver knows was told to the
\* client, or is queued for it, with its latest name and priority, in a message
\* sent after the handler took the request.  (That a receiver left before
\* cannot take a source away again does not hold: nothing disconnects from it,
\* and what it had queued is still delivered.  The SourceDetector's messages,
\* which reach the same client, are not this handler's to order.)
SourcesReachClient ==
    \A h \in Handler, u \in Universe, c \in Cid :
       /\ held[h] = u
       /\ ~Busy(h)
       /\ sources[u][c] # None
       /\ ~(rx.pc = "erasing" /\ rx.u = u /\ rx.cid = c)
       /\ ~Stray(h, c)
       => WillKnow(h, c) = sources[u][c]

\* What a client was sent since its last request adds up to what the handler
\* saw last, in both modes and over switches between them: the level sent
\* last (an address never sent is still at zero) and, in flicker finder mode,
\* a difference that was computed when the level was another one.
DifferencesAddUp ==
    \A h \in Handler : open[h] /\ ~Busy(h) =>
       /\ lastSeen[h] = IF told[h].level = None THEN 0 ELSE told[h].level
       /\ told[h].diff # None => /\ flicker[h]
                                 /\ told[h].diff = lastSeen[h] - reference[h]

\* A frame that is handled while a universe is watched belongs to it (frames of
\* a receiver that no longer exists set apart).
OnlyWatchedLevels ==
    [][\A h \in Handler : held[h] # None /\ OnMergedData(h) =>
          Head(queue[h]).from \in {held[h], None}]_viewVars
=============================================================================
