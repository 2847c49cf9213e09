------------------------- MODULE ClientSettingsProofs -------------------------
(* Proofs about ClientSettings: for any pages, settings and requests.       *)
EXTENDS ClientSettings, TLAPS

-----------------------------------------------------------------------------
(* The inductive invariant.                                                 *)

\* A server that is down has no thread at work.
DownIsIdle ==
    server = "down" => \A i \in Slot : requests[i] # None => requests[i].step # "half"

\* What a page makes of a scheme or a mode that an answer has or leaves out.
SchemeOf(s) == IF s = Unset THEN "" ELSE s
ModeOf(m) == IF m = Unset THEN "percent" ELSE m

\* A request in flight carries the settings c, and has put or found them in the
\* store as far as it has come.
Carries(r, c) ==
    \/ /\ r.op = "PUT" /\ r.settings = c
       /\ r.step = "sent" \/ (r.step = "half" /\ store.scheme = c.scheme)
    \/ /\ r.op = "GET" /\ Meaning(store) = c
       /\ page[r.page].context = defaultAppContext
       /\ r.step # "sent" => SchemeOf(r.settings.scheme) = c.scheme
       /\ r.step = "answered" => ModeOf(r.settings.mode) = c.mode

\* While the settings belong to a page, one request at most is in flight, and
\* it carries them; when there is none, they are stored.
Kept ==
    owner # None =>
       /\ dialog # None => ~dialog.writing
       /\ \A i, j \in Slot : requests[i] # None /\ requests[j] # None => i = j
       /\ \A i \in Slot : requests[i] # None => Carries(requests[i], page[owner].context)
       /\ (\A i \in Slot : requests[i] = None) => Meaning(store) = page[owner].context

IInv == TypeOK /\ DownIsIdle /\ Kept

LEMMA KeptIsGiven == Kept => SavedIsGiven
  BY DEF Kept, SavedIsGiven, InFlight

-----------------------------------------------------------------------------
(* The operators.                                                           *)

LEMMA MeaningIs ==
    ASSUME NEW s
    PROVE  Meaning(s) =
             [scheme |-> SchemeOf(Accepted(getPreferredColorScheme(s.scheme), ColorScheme)),
              mode |-> ModeOf(Accepted(getLevelDisplayMode(s.mode), LevelDisplay))]
  BY DEF Meaning, loadClientSettings, defaultAppContext, SchemeOf, ModeOf

\* Whatever is stored, what a page shows of it can be shown; and what can be
\* shown is shown as it is stored.
LEMMA MeaningOfSettings ==
    /\ \A s : Meaning(s) \in Settings
    /\ \A s, c : c \in Settings /\ s.scheme = c.scheme /\ s.mode = c.mode => Meaning(s) = c
<1>1. ASSUME NEW s PROVE Meaning(s) \in Settings
  BY MeaningIs, SettingsAssumption DEF Settings, SchemeOf, ModeOf, Accepted
<1>2. ASSUME NEW s, NEW c \in Settings, s.scheme = c.scheme, s.mode = c.mode
      PROVE  Meaning(s) = c
  <2>1. c.scheme \in ColorScheme /\ c.mode \in LevelDisplay
    BY DEF Settings
  <2>2. c.scheme # Unset /\ c.mode # Unset
    BY <2>1, SettingsAssumption
  <2>3. Meaning(s) = [scheme |-> c.scheme, mode |-> c.mode]
    BY <1>2, <2>1, <2>2, MeaningIs
    DEF SchemeOf, ModeOf, Accepted, getPreferredColorScheme, getLevelDisplayMode
  <2>. QED
    BY <2>3 DEF Settings
<1>. QED
  BY <1>1, <1>2

LEMMA LoadedIs ==
    ASSUME NEW a \in Answer
    PROVE  /\ loadClientSettings(a, defaultAppContext)
                 = [scheme |-> SchemeOf(a.scheme), mode |-> ModeOf(a.mode)]
           /\ \A own \in Settings : loadClientSettings(a, own) \in Settings
<1>1. loadClientSettings(a, defaultAppContext)
         = [scheme |-> SchemeOf(a.scheme), mode |-> ModeOf(a.mode)]
  BY DEF loadClientSettings, defaultAppContext, SchemeOf, ModeOf
<1>2. ASSUME NEW own \in Settings PROVE loadClientSettings(a, own) \in Settings
  BY DEF loadClientSettings, Settings, Answer
<1>. QED
  BY <1>1, <1>2

LEMMA Records ==
    /\ defaultAppContext \in Settings
    /\ Settings \subseteq Answer
    /\ None \notin Request /\ None \notin Boxes
    /\ \A p \in Page : Get(p) \in Request
    /\ \A p \in Page : \A c \in Settings : Put(p, c) \in Request
<1>1. defaultAppContext \in Settings
  BY SettingsAssumption DEF defaultAppContext, Settings
<1>2. Settings \subseteq Answer
  BY DEF Settings, Answer
<1>3. \A p \in Page : Get(p) \in Request
  BY DEF Get, Request, Answer
<1>4. \A p \in Page : \A c \in Settings : Put(p, c) \in Request
  BY <1>2 DEF Put, Request
<1>. QED
  BY <1>1, <1>2, <1>3, <1>4, SettingsAssumption

-----------------------------------------------------------------------------
(* The types.                                                               *)

LEMMA BoundIsNat == MaxChanges \in Nat
  BY SettingsAssumption

LEMMA ChangesAreCounted ==
    ASSUME TypeOK, Change PROVE changes' \in 0..MaxChanges
  BY BoundIsNat DEF TypeOK, Change

LEMMA SendType ==
    ASSUME TypeOK, NEW r \in Request, Send(r)
    PROVE  requests' \in [Slot -> Request \cup {None}]
  BY DEF TypeOK, Send

LEMMA InitType == Init => TypeOK
<1>. SUFFICES ASSUME Init PROVE TypeOK
  OBVIOUS
<1>1. requests \in [Slot -> Request \cup {None}]
  BY DEF Init, Slot
<1>2. page \in [Page -> [state : {"closed", "loading", "ready", "error"}, context : Settings]]
  BY Records DEF Init
<1>3. changes \in 0..MaxChanges
  BY BoundIsNat DEF Init
<1>. QED
  BY <1>1, <1>2, <1>3 DEF Init, TypeOK

LEMMA LoadType == ASSUME TypeOK, NEW p \in Page, Load(p) PROVE TypeOK'
<1>1. requests' \in [Slot -> Request \cup {None}]
  BY Records, SendType DEF TypeOK, Load
<1>2. page' \in [Page -> [state : {"closed", "loading", "ready", "error"}, context : Settings]]
  BY Records DEF TypeOK, Load
<1>. QED
  BY <1>1, <1>2, ChangesAreCounted DEF TypeOK, Load

LEMMA LoadedType == ASSUME TypeOK, NEW i \in Slot, Loaded(i) PROVE TypeOK'
<1>. DEFINE answer == requests[i]
            context == loadClientSettings(answer.settings, page[answer.page].context)
<1>1. answer \in Request
  BY DEF TypeOK, Loaded
<1>2. answer.page \in Page /\ answer.settings \in Answer /\ page[answer.page].context \in Settings
  BY <1>1 DEF TypeOK, Request
<1>3. context \in Settings
  BY <1>2, LoadedIs
<1>4. Put(answer.page, context) \in Request
  BY <1>2, <1>3, Records
<1>5. /\ page' = [page EXCEPT ![answer.page] = [state |-> "ready", context |-> context]]
      /\ requests' = IF server = "up" THEN [requests EXCEPT ![i] = Put(answer.page, context)]
                     ELSE Done(i)
      /\ owner' = IF server = "up" THEN owner ELSE None
      /\ UNCHANGED <<store, server, dialog, changes>>
  BY DEF Loaded
<1>. HIDE DEF answer, context
<1>6. requests' \in [Slot -> Request \cup {None}]
  BY <1>4, <1>5 DEF TypeOK, Done
<1>7. page' \in [Page -> [state : {"closed", "loading", "ready", "error"}, context : Settings]]
  BY <1>2, <1>3, <1>5 DEF TypeOK
<1>. QED
  BY <1>5, <1>6, <1>7 DEF TypeOK

LEMMA ChooseType ==
    ASSUME TypeOK, NEW p \in Page, NEW c \in Settings, Choose(p, c) PROVE TypeOK'
<1>1. requests' \in [Slot -> Request \cup {None}]
  BY Records, SendType DEF TypeOK, Choose
<1>2. page' \in [Page -> [state : {"closed", "loading", "ready", "error"}, context : Settings]]
  BY DEF TypeOK, Choose
<1>. QED
  BY <1>1, <1>2, ChangesAreCounted DEF TypeOK, Choose

LEMMA GiveUpType == ASSUME TypeOK, NEW p \in Page, GiveUp(p) PROVE TypeOK'
<1>1. page' \in [Page -> [state : {"closed", "loading", "ready", "error"}, context : Settings]]
  BY DEF TypeOK, GiveUp
<1>. QED
  BY <1>1 DEF TypeOK, GiveUp

LEMMA LoseType == ASSUME TypeOK, NEW i \in Slot, Lose(i) PROVE TypeOK'
<1>1. requests' \in [Slot -> Request \cup {None}]
  BY DEF TypeOK, Lose, Done
<1>2. requests[i] \in Request
  BY DEF TypeOK, Lose
<1>3. page' \in [Page -> [state : {"closed", "loading", "ready", "error"}, context : Settings]]
  BY <1>2 DEF TypeOK, Lose, Request
<1>. QED
  BY <1>1, <1>3, ChangesAreCounted DEF TypeOK, Lose

LEMMA AdvanceType ==
    ASSUME TypeOK, NEW i \in Slot, requests[i] # None,
           NEW step \in {"sent", "half", "answered"}, NEW settings \in Answer
    PROVE  Advance(i, step, settings) \in [Slot -> Request \cup {None}]
<1>1. requests[i] \in Request
  BY DEF TypeOK
<1>2. [page |-> requests[i].page, op |-> requests[i].op, settings |-> settings, step |-> step]
         \in Request
  BY <1>1 DEF Request
<1>. QED
  BY <1>2 DEF TypeOK, Advance

LEMMA BeginType == ASSUME TypeOK, NEW i \in Slot, Begin(i) PROVE TypeOK'
<1>1. requests[i] # None /\ requests[i] \in Request
  BY DEF TypeOK, Begin
<1>2. requests[i].settings \in Answer
  BY <1>1 DEF Request
<1>3. [scheme |-> Accepted(getPreferredColorScheme(store.scheme), ColorScheme), mode |-> Unset]
         \in Answer
  BY DEF Answer, Accepted
<1>4. requests' \in [Slot -> Request \cup {None}]
  BY <1>1, <1>2, <1>3, AdvanceType DEF Begin
<1>5. store' \in [scheme : Scheme, mode : Mode]
  BY <1>2 DEF TypeOK, Begin, Answer, Scheme
<1>. QED
  BY <1>4, <1>5 DEF TypeOK, Begin

LEMMA FinishType == ASSUME TypeOK, NEW i \in Slot, Finish(i) PROVE TypeOK'
<1>1. requests[i] # None /\ requests[i] \in Request
  BY DEF TypeOK, Finish
<1>2. requests[i].settings \in Answer
  BY <1>1 DEF Request
<1>3. [scheme |-> requests[i].settings.scheme,
       mode |-> Accepted(getLevelDisplayMode(store.mode), LevelDisplay)] \in Answer
  BY <1>2 DEF Answer, Accepted
<1>4. requests' \in [Slot -> Request \cup {None}]
  BY <1>1, <1>3, AdvanceType DEF TypeOK, Finish, Done
<1>5. store' \in [scheme : Scheme, mode : Mode]
  BY <1>2 DEF TypeOK, Finish, Answer, Mode
<1>. QED
  BY <1>4, <1>5 DEF TypeOK, Finish

LEMMA ServerType == ASSUME TypeOK, Start \/ Stop \/ Stopped PROVE TypeOK'
<1>1. CASE Start
  BY <1>1, ChangesAreCounted DEF TypeOK, Start
<1>2. CASE Stop
  <2>1. requests' \in [Slot -> Request \cup {None}]
    BY <1>2 DEF TypeOK, Stop
  <2>. QED
    BY <1>2, <2>1, ChangesAreCounted DEF TypeOK, Stop
<1>3. CASE Stopped
  BY <1>3 DEF TypeOK, Stopped
<1>. QED
  BY <1>1, <1>2, <1>3

LEMMA DialogType == ASSUME TypeOK, OpenDialog \/ Accept \/ Reject PROVE TypeOK'
<1>1. CASE OpenDialog
  <2>1. dialog' \in Boxes
    BY <1>1 DEF OpenDialog, Boxes, Scheme, Mode, Selected
  <2>. QED
    BY <1>1, <2>1, ChangesAreCounted DEF TypeOK, OpenDialog
<1>2. CASE Accept
  <2>1. dialog \in Boxes
    BY <1>2 DEF TypeOK, Accept
  <2>2. store' \in [scheme : Scheme, mode : Mode]
    BY <1>2, <2>1, SettingsAssumption DEF TypeOK, Accept, Boxes, Scheme
  <2>3. dialog' \in Boxes \cup {None}
    BY <1>2, <2>1 DEF Accept, Boxes
  <2>. QED
    BY <1>2, <2>2, <2>3 DEF TypeOK, Accept
<1>3. CASE Reject
  BY <1>3 DEF TypeOK, Reject
<1>. QED
  BY <1>1, <1>2, <1>3

LEMMA StepType == ASSUME TypeOK, [Next]_vars PROVE TypeOK'
<1>1. ASSUME NEW i \in Slot, Begin(i) \/ Finish(i) \/ Loaded(i) \/ Lose(i) PROVE TypeOK'
  BY <1>1, BeginType, FinishType, LoadedType, LoseType
<1>2. ASSUME NEW p \in Page, Load(p) \/ GiveUp(p) \/ \E c \in Settings : Choose(p, c)
      PROVE  TypeOK'
  BY <1>2, LoadType, GiveUpType, ChooseType
<1>3. CASE UNCHANGED vars
  BY <1>3 DEF vars, TypeOK
<1>. QED
  BY <1>1, <1>2, <1>3, ServerType, DialogType DEF Next, Server

-----------------------------------------------------------------------------
(* Threads work only while the server is up or stopping.                    *)

LEMMA StepDown == ASSUME TypeOK, DownIsIdle, [Next]_vars PROVE DownIsIdle'
<1>1. ASSUME server' = "down" PROVE \A i \in Slot : requests'[i] # None => requests'[i].step # "half"
  <2>1. ASSUME server = "down", requests' = requests
        PROVE  \A i \in Slot : requests'[i] # None => requests'[i].step # "half"
    BY <2>1 DEF DownIsIdle
  <2>2. ASSUME server = "down", NEW i \in Slot, requests' = Done(i)
        PROVE  \A j \in Slot : requests'[j] # None => requests'[j].step # "half"
    BY <2>2 DEF DownIsIdle, Done, TypeOK
  <2>3. ASSUME NEW i \in Slot, Begin(i) PROVE FALSE
    BY <1>1, <2>3 DEF Begin
  <2>4. ASSUME NEW i \in Slot, Finish(i) PROVE FALSE
    BY <1>1, <2>4 DEF Finish, DownIsIdle
  <2>5. ASSUME NEW i \in Slot, Loaded(i) \/ Lose(i)
        PROVE  server = "down" /\ requests' = Done(i)
    BY <1>1, <2>5 DEF Loaded, Lose
  <2>6. ASSUME NEW p \in Page, Load(p) \/ GiveUp(p) \/ \E c \in Settings : Choose(p, c)
        PROVE  server = "down" /\ requests' = requests
    BY <1>1, <2>6 DEF Load, GiveUp, Choose
  <2>7. CASE OpenDialog \/ Accept \/ Reject
    BY <1>1, <2>1, <2>7 DEF OpenDialog, Accept, Reject
  <2>8. CASE Start \/ Stop
    BY <1>1, <2>8 DEF Start, Stop
  <2>9. CASE Stopped
    BY <2>9 DEF Stopped
  <2>10. CASE UNCHANGED vars
    BY <1>1, <2>1, <2>10 DEF vars
  <2>. QED
    BY <2>1, <2>2, <2>3, <2>4, <2>5, <2>6, <2>7, <2>8, <2>9, <2>10 DEF Next, Server
<1>. QED
  BY <1>1 DEF DownIsIdle

-----------------------------------------------------------------------------
(* The settings of the owner are kept.                                      *)

LEMMA OwnerIsPage == ASSUME TypeOK, owner # None
                     PROVE  owner \in Page /\ page[owner].context \in Settings
  BY DEF TypeOK

LEMMA SameIsKept ==
    ASSUME TypeOK, Kept, UNCHANGED <<store, requests, owner>>,
           \A p \in Page : page'[p].context = page[p].context,
           dialog' = dialog \/ (dialog' # None => ~dialog'.writing)
    PROVE  Kept'
<1>. SUFFICES ASSUME owner # None
              PROVE  /\ dialog' # None => ~dialog'.writing
                     /\ \A i \in Slot : requests[i] # None =>
                                        Carries(requests[i], page[owner].context)'
  BY OwnerIsPage DEF Kept
<1>1. dialog' # None => ~dialog'.writing
  BY DEF Kept
<1>2. ASSUME NEW i \in Slot, requests[i] # None
      PROVE  Carries(requests[i], page[owner].context)'
  <2>1. requests[i].page \in Page
    BY <1>2 DEF TypeOK, Request
  <2>2. page'[owner].context = page[owner].context
    BY OwnerIsPage
  <2>3. Carries(requests[i], page[owner].context)
    BY <1>2 DEF Kept
  <2>. QED
    BY <2>1, <2>2, <2>3 DEF Carries
<1>. QED
  BY <1>1, <1>2

\* One request in flight, carrying what the owner's page shows, is enough.
LEMMA OneIsKept ==
    ASSUME NEW i \in Slot, owner' # None, requests'[i] # None, \A j \in Slot : j # i => requests'[j] = None,
           Carries(requests[i], page[owner].context)', dialog' # None => ~dialog'.writing
    PROVE  Kept'
  BY DEF Kept

LEMMA LoadKept == ASSUME TypeOK, Kept, NEW p \in Page, Load(p) PROVE Kept'
<1>. SUFFICES ASSUME owner' # None PROVE Kept'
  BY DEF Kept
<1>1. owner' = owner /\ owner # p /\ owner # None /\ ~InFlight
  BY DEF Load
<1>2. owner \in Page /\ Meaning(store) = page[owner].context
  BY <1>1, OwnerIsPage DEF Kept, InFlight
<1>3. page'[owner] = page[owner] /\ page'[p].context = defaultAppContext
  BY <1>1, <1>2 DEF Load, TypeOK
<1>4. CASE server = "up"
  <2>1. PICK i \in Slot : requests' = [requests EXCEPT ![i] = Get(p)]
    BY <1>4 DEF Load, Send
  <2>2. requests'[i] = Get(p) /\ \A j \in Slot : j # i => requests'[j] = None
    BY <1>1, <2>1 DEF InFlight, TypeOK
  <2>3. Get(p) # None /\ Get(p).op = "GET" /\ Get(p).step = "sent" /\ Get(p).page = p
    BY Records DEF Get
  <2>4. store' = store /\ dialog' = dialog
    BY DEF Load
  <2>5. Meaning(store)' = page'[owner].context
    BY <1>2, <1>3, <2>4 DEF Meaning
  <2>6. Carries(requests[i], page[owner].context)'
    BY <1>1, <1>3, <2>2, <2>3, <2>5 DEF Carries
  <2>. QED
    BY <1>1, <2>2, <2>3, <2>4, <2>6, OneIsKept DEF InFlight
<1>5. CASE server # "up"
  BY <1>1, <1>2, <1>3, <1>5 DEF Load, Kept, InFlight
<1>. QED
  BY <1>4, <1>5

LEMMA LoadedKept == ASSUME TypeOK, Kept, NEW i \in Slot, Loaded(i) PROVE Kept'
<1>. SUFFICES ASSUME owner' # None PROVE Kept'
  BY DEF Kept
<1>. DEFINE answer == requests[i]
            c == page[owner].context
<1>1. /\ owner' = owner /\ server = "up" /\ owner # None
      /\ answer # None /\ answer.op = "GET" /\ answer.step = "answered"
      /\ dialog' = dialog /\ store' = store
  BY DEF Loaded
<1>2. owner \in Page /\ c \in Settings /\ answer \in Request
  BY <1>1, OwnerIsPage DEF TypeOK
<1>3. answer.page \in Page /\ answer.settings \in Answer
  BY <1>2 DEF Request
<1>4. /\ page[answer.page].context = defaultAppContext
      /\ SchemeOf(answer.settings.scheme) = c.scheme /\ ModeOf(answer.settings.mode) = c.mode
  BY <1>1 DEF Kept, Carries
<1>5. loadClientSettings(answer.settings, page[answer.page].context) = c
  BY <1>2, <1>3, <1>4, LoadedIs DEF Settings
<1>6. /\ page' = [page EXCEPT ![answer.page] = [state |-> "ready", context |-> c]]
      /\ requests' = [requests EXCEPT ![i] = Put(answer.page, c)]
  BY <1>1, <1>5 DEF Loaded
<1>7. page'[owner].context = c
  BY <1>2, <1>3, <1>6 DEF TypeOK
<1>8. requests'[i] = Put(answer.page, c) /\ \A j \in Slot : j # i => requests'[j] = None
  BY <1>1, <1>6 DEF Kept, TypeOK
<1>9. /\ Put(answer.page, c) # None
      /\ Put(answer.page, c).op = "PUT" /\ Put(answer.page, c).step = "sent"
      /\ Put(answer.page, c).settings = c
  BY <1>2, <1>3, Records DEF Put
<1>10. Carries(requests[i], page[owner].context)'
  BY <1>8, <1>9, <1>7, <1>1 DEF Carries
<1>. QED
  BY <1>1, <1>7, <1>8, <1>9, <1>10, OneIsKept DEF Kept

LEMMA ChooseKept ==
    ASSUME TypeOK, Kept, NEW p \in Page, NEW c \in Settings, Choose(p, c) PROVE Kept'
<1>. SUFFICES ASSUME owner' # None PROVE Kept'
  BY DEF Kept
<1>1. owner' = p /\ server = "up" /\ ~InFlight /\ dialog' = dialog
  BY DEF Choose
<1>2. PICK i \in Slot : requests' = [requests EXCEPT ![i] = Put(p, c)]
  BY <1>1 DEF Choose, Send
<1>3. requests'[i] = Put(p, c) /\ \A j \in Slot : j # i => requests'[j] = None
  BY <1>1, <1>2 DEF InFlight, TypeOK
<1>4. /\ Put(p, c) # None /\ Put(p, c).op = "PUT"
      /\ Put(p, c).step = "sent" /\ Put(p, c).settings = c
  BY Records DEF Put
<1>5. page'[owner'].context = c
  BY <1>1 DEF Choose, TypeOK
<1>6. Carries(requests[i], page[owner].context)'
  BY <1>3, <1>4, <1>5 DEF Carries
<1>. QED
  BY <1>1, <1>3, <1>4, <1>6, OneIsKept DEF InFlight

LEMMA BeginKept == ASSUME TypeOK, Kept, NEW i \in Slot, Begin(i) PROVE Kept'
<1>. SUFFICES ASSUME owner' # None PROVE Kept'
  BY DEF Kept
<1>1. /\ owner' = owner /\ page' = page /\ dialog' = dialog /\ owner # None
      /\ requests[i] # None /\ requests[i].step = "sent"
  BY DEF Begin
<1>2. /\ owner \in Page /\ page[owner].context \in Settings /\ requests[i] \in Request
      /\ Carries(requests[i], page[owner].context)
      /\ \A j \in Slot : j # i => requests[j] = None
      /\ dialog # None => ~dialog.writing
  BY <1>1, OwnerIsPage DEF Kept, TypeOK
<1>3. CASE requests[i].op = "GET"
  <2>. DEFINE given == [scheme |-> Accepted(getPreferredColorScheme(store.scheme), ColorScheme),
                        mode |-> Unset]
  <2>1. requests' = Advance(i, "half", given) /\ store' = store
    BY <1>3 DEF Begin
  <2>2. /\ requests'[i] = [page |-> requests[i].page, op |-> "GET", settings |-> given,
                           step |-> "half"]
        /\ \A j \in Slot : j # i => requests'[j] = None
    BY <1>2, <1>3, <2>1 DEF Advance, TypeOK
  <2>3. requests'[i] # None
    <3>1. given \in Answer
      BY DEF Answer, Accepted
    <3>. QED
      BY <1>2, <2>2, <3>1, Records DEF Request
  <2>4. Meaning(store) = page[owner].context /\ page[requests[i].page].context = defaultAppContext
    BY <1>2, <1>3 DEF Carries
  <2>5. SchemeOf(given.scheme) = page[owner].context.scheme
    BY <2>4, MeaningIs
  <2>6. Meaning(store)' = page'[owner'].context
    BY <1>1, <2>1, <2>4 DEF Meaning
  <2>. HIDE DEF given
  <2>7. Carries(requests[i], page[owner].context)'
    BY <1>1, <2>2, <2>4, <2>5, <2>6 DEF Carries
  <2>. QED
    BY <1>1, <1>2, <2>2, <2>3, <2>7, OneIsKept
<1>4. CASE requests[i].op = "PUT"
  <2>1. /\ requests' = Advance(i, "half", requests[i].settings)
        /\ store' = [store EXCEPT !.scheme = requests[i].settings.scheme]
    BY <1>4 DEF Begin
  <2>2. /\ requests'[i] = [page |-> requests[i].page, op |-> "PUT",
                           settings |-> requests[i].settings, step |-> "half"]
        /\ \A j \in Slot : j # i => requests'[j] = None
    BY <1>2, <1>4, <2>1 DEF Advance, TypeOK
  <2>3. requests'[i] # None
    BY <1>2, <2>2, Records DEF Request
  <2>4. requests[i].settings = page[owner].context
    BY <1>2, <1>4 DEF Carries
  <2>5. store'.scheme = page[owner].context.scheme
    BY <2>1, <2>4 DEF TypeOK
  <2>6. Carries(requests[i], page[owner].context)'
    BY <1>1, <2>2, <2>4, <2>5 DEF Carries
  <2>. QED
    BY <1>1, <1>2, <2>2, <2>3, <2>6, OneIsKept
<1>. QED
  BY <1>2, <1>3, <1>4 DEF Request

LEMMA FinishKept == ASSUME TypeOK, Kept, NEW i \in Slot, Finish(i) PROVE Kept'
<1>. SUFFICES ASSUME owner' # None PROVE Kept'
  BY DEF Kept
<1>1. /\ owner' = owner /\ page' = page /\ dialog' = dialog /\ owner # None
      /\ requests[i] # None /\ requests[i].step = "half"
  BY DEF Finish
<1>2. /\ owner \in Page /\ page[owner].context \in Settings /\ requests[i] \in Request
      /\ Carries(requests[i], page[owner].context)
      /\ \A j \in Slot : j # i => requests[j] = None
      /\ dialog # None => ~dialog.writing
  BY <1>1, OwnerIsPage DEF Kept, TypeOK
<1>3. CASE requests[i].op = "GET"
  <2>. DEFINE given == [scheme |-> requests[i].settings.scheme,
                        mode |-> Accepted(getLevelDisplayMode(store.mode), LevelDisplay)]
  <2>1. requests' = Advance(i, "answered", given) /\ store' = store
    BY <1>3 DEF Finish
  <2>2. /\ requests'[i] = [page |-> requests[i].page, op |-> "GET", settings |-> given,
                           step |-> "answered"]
        /\ \A j \in Slot : j # i => requests'[j] = None
    BY <1>2, <1>3, <2>1 DEF Advance, TypeOK
  <2>3. requests'[i] # None
    <3>1. given \in Answer
      BY <1>2 DEF Answer, Accepted, Request
    <3>. QED
      BY <1>2, <2>2, <3>1, Records DEF Request
  <2>4. /\ Meaning(store) = page[owner].context
        /\ page[requests[i].page].context = defaultAppContext
        /\ SchemeOf(given.scheme) = page[owner].context.scheme
    BY <1>1, <1>2, <1>3 DEF Carries
  <2>5. ModeOf(given.mode) = page[owner].context.mode
    BY <2>4, MeaningIs
  <2>6. Meaning(store)' = page'[owner'].context
    BY <1>1, <2>1, <2>4 DEF Meaning
  <2>. HIDE DEF given
  <2>7. Carries(requests[i], page[owner].context)'
    BY <1>1, <2>2, <2>4, <2>5, <2>6 DEF Carries
  <2>. QED
    BY <1>1, <1>2, <2>2, <2>3, <2>7, OneIsKept
<1>4. CASE requests[i].op = "PUT"
  <2>1. /\ requests' = Done(i)
        /\ store' = [store EXCEPT !.mode = requests[i].settings.mode]
    BY <1>4 DEF Finish
  <2>2. \A j \in Slot : requests'[j] = None
    BY <1>2, <2>1 DEF Done, TypeOK
  <2>3. requests[i].settings = page[owner].context /\ store.scheme = page[owner].context.scheme
    BY <1>1, <1>2, <1>4 DEF Carries
  <2>4. store'.scheme = page[owner].context.scheme /\ store'.mode = page[owner].context.mode
    BY <2>1, <2>3 DEF TypeOK
  <2>5. Meaning(store') = page[owner].context
    BY <1>2, <2>4, MeaningOfSettings
  <2>6. Meaning(store)' = page'[owner'].context
    BY <1>1, <2>5 DEF Meaning
  <2>. QED
    BY <1>1, <1>2, <2>2, <2>6 DEF Kept
<1>. QED
  BY <1>2, <1>3, <1>4 DEF Request

LEMMA OtherKept ==
    ASSUME TypeOK, Kept,
           \/ Start \/ Stop \/ Stopped \/ OpenDialog \/ Accept \/ Reject
           \/ \E i \in Slot : Lose(i)
           \/ \E p \in Page : GiveUp(p)
           \/ UNCHANGED vars
    PROVE  Kept'
<1>. SUFFICES ASSUME owner' # None PROVE Kept'
  BY DEF Kept
<1>1. UNCHANGED <<store, requests, owner>>
  BY DEF Start, Stop, Stopped, OpenDialog, Accept, Reject, Lose, GiveUp, vars
<1>2. \A p \in Page : page'[p].context = page[p].context
  <2>1. ASSUME NEW q \in Page, GiveUp(q)
        PROVE  \A p \in Page : page'[p].context = page[p].context
    BY <2>1 DEF GiveUp, TypeOK
  <2>2. ASSUME NEW i \in Slot, Lose(i) PROVE FALSE
    BY <2>2 DEF Lose
  <2>3. CASE \/ Start \/ Stop \/ Stopped \/ OpenDialog \/ Accept \/ Reject \/ UNCHANGED vars
    BY <2>3 DEF Start, Stop, Stopped, OpenDialog, Accept, Reject, vars
  <2>. QED
    BY <2>1, <2>2, <2>3
<1>3. dialog' = dialog \/ (dialog' # None => ~dialog'.writing)
  <2>1. CASE OpenDialog
    BY <2>1 DEF OpenDialog
  <2>2. CASE Reject
    BY <2>2 DEF Reject
  <2>3. CASE \/ Start \/ Stop \/ Stopped \/ Accept
            \/ (\E i \in Slot : Lose(i)) \/ (\E p \in Page : GiveUp(p)) \/ UNCHANGED vars
    BY <2>3 DEF Start, Stop, Stopped, Accept, Lose, GiveUp, vars
  <2>. QED
    BY <2>1, <2>2, <2>3
<1>. QED
  BY <1>1, <1>2, <1>3, SameIsKept

LEMMA StepIInv == ASSUME IInv, [Next]_vars PROVE IInv'
<1>1. TypeOK' /\ DownIsIdle'
  BY StepType, StepDown DEF IInv
<1>2. Kept'
  BY LoadKept, LoadedKept, ChooseKept, BeginKept, FinishKept, OtherKept
  DEF IInv, Next, Server
<1>. QED
  BY <1>1, <1>2 DEF IInv

LEMMA AlwaysIInv == Spec => []IInv
<1>1. Init => IInv
  BY InitType DEF IInv, Init, DownIsIdle, Kept, Slot
<1>. QED
  BY <1>1, StepIInv, PTL DEF Spec

-----------------------------------------------------------------------------
(* The theorems.                                                            *)

\* Every variable keeps its type: whatever the store held, pages and requests
\* only ever have settings that a page can show (ClientSettings, App.tsx).
THEOREM SettingsTypeCorrect == Spec => []TypeOK
<1>1. IInv => TypeOK
  BY DEF IInv
<1>. QED
  BY AlwaysIInv, <1>1, PTL

\* What a page saved, with nothing overlapping it, is what every page loaded
\* after it is given (ClientSettings::save, toJson, the effects of App.tsx).
THEOREM SavedSettingsAreGiven == Spec => []SavedIsGiven
<1>1. IInv => SavedIsGiven
  BY KeptIsGiven DEF IInv
<1>. QED
  BY AlwaysIInv, <1>1, PTL

\* Once HttpServer::stop has come back, no request writes a setting.
THEOREM StoppedServerWritesNothing == Spec => NoWriteWhileDown
<1>1. ASSUME IInv, [Next]_vars, server = "down", store' # store PROVE dialog # None
  <2>1. ASSUME NEW i \in Slot, Begin(i) \/ Finish(i) PROVE FALSE
    BY <1>1, <2>1 DEF Begin, Finish, IInv, DownIsIdle
  <2>2. CASE Accept
    BY <2>2 DEF Accept
  <2>3. ASSUME NEW i \in Slot, Loaded(i) \/ Lose(i) PROVE FALSE
    BY <1>1, <2>3 DEF Loaded, Lose
  <2>4. ASSUME NEW p \in Page, Load(p) \/ GiveUp(p) \/ \E c \in Settings : Choose(p, c)
        PROVE  FALSE
    BY <1>1, <2>4 DEF Load, GiveUp, Choose
  <2>5. ~(Start \/ Stop \/ Stopped \/ OpenDialog \/ Reject \/ UNCHANGED vars)
    BY <1>1 DEF Start, Stop, Stopped, OpenDialog, Reject, vars
  <2>. QED
    BY <1>1, <2>1, <2>2, <2>3, <2>4, <2>5 DEF Next, Server
<1>2. IInv /\ [Next]_vars => [server = "down" /\ store' # store => dialog # None]_vars
  BY <1>1
<1>. QED
  BY AlwaysIInv, <1>2, PTL DEF Spec, NoWriteWhileDown
=============================================================================
