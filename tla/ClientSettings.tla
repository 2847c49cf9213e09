----------------------------- MODULE ClientSettings -----------------------------
(****************************************************************************)
(* The settings that all web pages share: a page gets them when it loads    *)
(* and puts them back whenever it changes them (App.tsx), requests are      *)
(* served by a pool of threads (HttpServer.cpp, ClientSettings.cpp), and    *)
(* the desktop's own dialog writes the same two keys (SettingsDialog.cpp).  *)
(* A request can be overtaken by any other.                                 *)
(****************************************************************************)
EXTENDS Integers

CONSTANTS
    Page,
    ColorScheme,      \* the color schemes used, "" for automatic among them
    LevelDisplay,     \* the level displays used, "percent" among them
    Unset,            \* a key the store does not hold
    Invalid,          \* what the store holds by hand, or from another version
    None,
    MaxRequests,      \* bound: requests in flight
    MaxChanges        \* bound: settings chosen, pages loaded, server and dialog used

Scheme == ColorScheme \cup {Unset, Invalid}
Mode == LevelDisplay \cup {Unset, Invalid}
Settings == [scheme : ColorScheme, mode : LevelDisplay]
Answer == [scheme : ColorScheme \cup {Unset}, mode : LevelDisplay \cup {Unset}]
Request == [page : Page, op : {"GET", "PUT"}, settings : Answer,
            step : {"sent", "half", "answered"}]
Boxes == [scheme : Scheme, mode : Mode, writing : BOOLEAN]

ASSUME SettingsAssumption ==
    /\ "" \in ColorScheme /\ "percent" \in LevelDisplay
    /\ {Unset, Invalid} \cap (ColorScheme \cup LevelDisplay) = {}
    /\ None \notin Request \cup Boxes
    /\ MaxRequests \in Nat \ {0} /\ MaxChanges \in Nat

VARIABLES
    store,     \* QSettings: the two keys
    server,    \* "up", "stopping", "down"
    requests,  \* requests and answers on their way, in any order
    page,      \* what each page does, and its appContext
    dialog,    \* the desktop's dialog: what its two boxes show, and whether it is writing
    changes,   \* counts for the bound
    owner      \* history: the page whose settings the store should hold

vars == <<store, server, requests, page, dialog, changes, owner>>

\* AppContext before anything is loaded.
defaultAppContext == [scheme |-> "", mode |-> "percent"]

\* The getters: an unset key has its default.
getPreferredColorScheme(s) == IF s = Unset THEN "" ELSE s
getLevelDisplayMode(m) == IF m = Unset THEN "percent" ELSE m

\* Mutant: whatever is stored is given.
AcceptedAny(value, allowed) == value

\* ClientSettings::ClientSettings and toJson: a value that is not allowed is
\* left out of the answer.
Accepted(value, allowed) == IF value \in allowed THEN value ELSE Unset

\* The page keeps its own value where the answer has none.
loadClientSettings(answer, own) ==
    [scheme |-> IF answer.scheme = Unset THEN own.scheme ELSE answer.scheme,
     mode |-> IF answer.mode = Unset THEN own.mode ELSE answer.mode]

Init ==
    /\ store \in [scheme : Scheme, mode : Mode]
    /\ server = "down"
    /\ requests = [i \in 1..MaxRequests |-> None]
    /\ page = [p \in Page |-> [state |-> "closed", context |-> defaultAppContext]]
    /\ dialog = None
    /\ changes = 0
    /\ owner = None

Change == changes < MaxChanges /\ changes' = changes + 1
Slot == 1..MaxRequests
InFlight == (\E i \in Slot : requests[i] # None) \/ (dialog # None /\ dialog.writing)

Put(p, context) == [page |-> p, op |-> "PUT", settings |-> context, step |-> "sent"]
Get(p) == [page |-> p, op |-> "GET", step |-> "sent",
           settings |-> [scheme |-> Unset, mode |-> Unset]]
Advance(i, step, settings) ==
    [requests EXCEPT ![i] = [page |-> @.page, op |-> @.op, settings |-> settings, step |-> step]]

\* A request goes out, in the first slot that is free.
Send(request) ==
    \E i \in Slot :
       /\ requests[i] = None
       /\ \A j \in 1..(i - 1) : requests[j] # None
       /\ requests' = [requests EXCEPT ![i] = request]
Done(i) == [requests EXCEPT ![i] = None]

-----------------------------------------------------------------------------
\* The page is loaded or loaded again; without a server it shows an error.
Load(p) ==
    /\ Change /\ page[p].state # "loading"
    /\ page' = [page EXCEPT ![p] = [state |-> IF server = "up" THEN "loading" ELSE "error",
                                    context |-> defaultAppContext]]
    /\ IF server = "up" THEN Send(Get(p)) ELSE UNCHANGED requests
    /\ owner' = IF InFlight \/ owner = p THEN None ELSE owner
    /\ UNCHANGED <<store, server, dialog>>

\* The answer arrives.  The second effect of App runs with the first: the page
\* puts back at once what it was given.
Loaded(i) ==
    LET answer == requests[i]
        context == loadClientSettings(answer.settings, page[answer.page].context) IN
    /\ answer # None /\ answer.op = "GET" /\ answer.step = "answered"
    /\ page' = [page EXCEPT ![answer.page] = [state |-> "ready", context |-> context]]
    /\ requests' = IF server = "up"
                   THEN [requests EXCEPT ![i] = Put(answer.page, context)]
                   ELSE Done(i)
    /\ owner' = IF server = "up" THEN owner ELSE None
    /\ UNCHANGED <<store, server, dialog, changes>>

\* SettingsDialog of the page: a change of the context is put at once.
Choose(p, context) ==
    /\ Change /\ page[p].state = "ready"
    /\ context # page[p].context
    /\ page' = [page EXCEPT ![p].context = context]
    /\ IF server = "up" THEN Send(Put(p, context)) ELSE UNCHANGED requests
    /\ owner' = IF server = "up" /\ ~InFlight THEN p ELSE None
    /\ UNCHANGED <<store, server, dialog>>

AwaitsAnswer(p) ==
    \E i \in Slot : requests[i] # None /\ requests[i].page = p /\ requests[i].op = "GET"

\* The browser gives up on a request that was dropped.
GiveUp(p) ==
    /\ page[p].state = "loading" /\ ~AwaitsAnswer(p)
    /\ page' = [page EXCEPT ![p].state = "error"]
    /\ UNCHANGED <<store, server, requests, dialog, changes, owner>>

\* A connection breaks before the request is read.
Lose(i) ==
    /\ Change /\ requests[i] # None /\ requests[i].step = "sent"
    /\ requests' = Done(i)
    /\ page' = IF requests[i].op = "GET"
               THEN [page EXCEPT ![requests[i].page].state = "error"] ELSE page
    /\ owner' = None
    /\ UNCHANGED <<store, server, dialog>>

-----------------------------------------------------------------------------
\* Mutant: automatic is saved as no value, and no value is not written.
BeginUnlessAuto(i) ==
    LET r == requests[i] IN
    /\ server = "up" /\ r # None /\ r.step = "sent"
    /\ \/ /\ r.op = "GET"
          /\ requests' = Advance(i, "half",
                [scheme |-> Accepted(getPreferredColorScheme(store.scheme), ColorScheme),
                 mode |-> Unset])
          /\ UNCHANGED store
       \/ /\ r.op = "PUT"
          /\ requests' = Advance(i, "half", r.settings)
          /\ store' = IF r.settings.scheme = "" THEN store
                      ELSE [store EXCEPT !.scheme = r.settings.scheme]
    /\ UNCHANGED <<server, page, dialog, changes, owner>>

\* A thread of the pool takes a request and reads or writes the first key.
Begin(i) ==
    LET r == requests[i] IN
    /\ server = "up" /\ r # None /\ r.step = "sent"
    /\ \/ /\ r.op = "GET"
          /\ requests' = Advance(i, "half",
                [scheme |-> Accepted(getPreferredColorScheme(store.scheme), ColorScheme),
                 mode |-> Unset])
          /\ UNCHANGED store
       \/ /\ r.op = "PUT"
          /\ requests' = Advance(i, "half", r.settings)
          /\ store' = [store EXCEPT !.scheme = r.settings.scheme]
    /\ UNCHANGED <<server, page, dialog, changes, owner>>

\* Mutant: a stored value that is not allowed is not answered.
FinishAllowed(i) ==
    LET r == requests[i] IN
    /\ r # None /\ r.step = "half"
    /\ \/ /\ r.op = "GET" /\ store.mode # Invalid
          /\ requests' = Advance(i, "answered",
                [scheme |-> r.settings.scheme, mode |-> getLevelDisplayMode(store.mode)])
          /\ UNCHANGED store
       \/ /\ r.op = "PUT"
          /\ requests' = Done(i)
          /\ store' = [store EXCEPT !.mode = r.settings.mode]
    /\ UNCHANGED <<server, page, dialog, changes, owner>>

\* Then the second; nobody waits for the answer to a PUT.
Finish(i) ==
    LET r == requests[i] IN
    /\ r # None /\ r.step = "half"
    /\ \/ /\ r.op = "GET"
          /\ requests' = Advance(i, "answered",
                [scheme |-> r.settings.scheme,
                 mode |-> Accepted(getLevelDisplayMode(store.mode), LevelDisplay)])
          /\ UNCHANGED store
       \/ /\ r.op = "PUT"
          /\ requests' = Done(i)
          /\ store' = [store EXCEPT !.mode = r.settings.mode]
    /\ UNCHANGED <<server, page, dialog, changes, owner>>

\* HttpServer::run
Start ==
    /\ Change /\ server = "down" /\ (dialog # None => ~dialog.writing)
    /\ server' = "up"
    /\ UNCHANGED <<store, requests, page, dialog, owner>>

\* HttpServer::stop: HttpQtTaskQueue::shutdown drops what no thread has taken.
\* A page that waits for it is told nothing until its connection breaks.
Stop ==
    /\ Change /\ server = "up" /\ (dialog # None => ~dialog.writing)
    /\ server' = "stopping"
    /\ requests' = [i \in Slot |-> IF requests[i] # None /\ requests[i].step = "sent"
                                   THEN None ELSE requests[i]]
    /\ owner' = IF requests' = requests THEN owner ELSE None
    /\ UNCHANGED <<store, page, dialog>>

\* Mutant: shutdown() does not wait.
StoppedAtOnce ==
    /\ server = "stopping"
    /\ server' = "down"
    /\ UNCHANGED <<store, requests, page, dialog, changes, owner>>

\* stop() comes back when the threads have ended what they had taken.
Stopped ==
    /\ server = "stopping"
    /\ \A i \in Slot : requests[i] # None => requests[i].step # "half"
    /\ server' = "down"
    /\ UNCHANGED <<store, requests, page, dialog, changes, owner>>

-----------------------------------------------------------------------------
\* selectFromSetting: no entry is selected for a value that is not in the list.
Selected(value, allowed) == IF value \in allowed THEN value ELSE Invalid

\* The dialog opens with what is stored, and the user changes what he likes.
OpenDialog ==
    /\ Change /\ dialog = None /\ server # "stopping"
    /\ \E s \in ColorScheme \cup {Selected(getPreferredColorScheme(store.scheme), ColorScheme)},
          m \in LevelDisplay \cup {Selected(getLevelDisplayMode(store.mode), LevelDisplay)} :
          dialog' = [scheme |-> s, mode |-> m, writing |-> FALSE]
    /\ UNCHANGED <<store, server, requests, page, owner>>

\* SettingsDialog::accept writes both keys, whatever has been stored since.
\* The data of no entry is the empty string, which as a scheme is automatic.
Accept ==
    /\ dialog # None /\ server # "stopping"
    /\ owner' = None
    /\ \/ /\ ~dialog.writing
          /\ store' = [store EXCEPT !.scheme =
                          IF dialog.scheme = Invalid THEN "" ELSE dialog.scheme]
          /\ dialog' = [dialog EXCEPT !.writing = TRUE]
       \/ /\ dialog.writing
          /\ store' = [store EXCEPT !.mode = dialog.mode]
          /\ dialog' = None
    /\ UNCHANGED <<server, requests, page, changes>>

\* The dialog is closed without accepting.
Reject ==
    /\ dialog # None /\ ~dialog.writing /\ server # "stopping"
    /\ dialog' = None
    /\ UNCHANGED <<store, server, requests, page, changes, owner>>

Server == \E i \in Slot : Begin(i) \/ Finish(i) \/ Loaded(i)

Next ==
    \/ Server
    \/ Start \/ Stop \/ Stopped
    \/ OpenDialog \/ Accept \/ Reject
    \/ \E i \in Slot : Lose(i)
    \/ \E p \in Page : Load(p) \/ GiveUp(p) \/ \E context \in Settings : Choose(p, context)

Spec == Init /\ [][Next]_vars

\* A thread of the pool ends what it takes, and the browser takes what it is sent.
FairSpec == Spec /\ WF_vars(Server)

-----------------------------------------------------------------------------
\* The shape of every variable.  Whatever the store holds, a page only ever has
\* values that it can show.
TypeOK ==
    /\ store \in [scheme : Scheme, mode : Mode]
    /\ server \in {"up", "stopping", "down"}
    /\ requests \in [Slot -> Request \cup {None}]
    /\ page \in [Page -> [state : {"closed", "loading", "ready", "error"}, context : Settings]]
    /\ dialog \in Boxes \cup {None}
    /\ changes \in 0..MaxChanges /\ owner \in Page \cup {None}

\* What a page loaded now would show.
Meaning(s) ==
    loadClientSettings([scheme |-> Accepted(getPreferredColorScheme(s.scheme), ColorScheme),
                        mode |-> Accepted(getLevelDisplayMode(s.mode), LevelDisplay)],
                       defaultAppContext)

\* A save that nothing else overlapped is what every later page is given,
\* although each of them puts it back when it loads: the settings survive the
\* trip through the page, the request and the two keys, defaults included.
SavedIsGiven ==
    (owner # None /\ ~InFlight) => Meaning(store) = page[owner].context

\* Application::stop has really stopped when it comes back: no request writes
\* the settings after it (only the desktop's dialog does).
NoWriteWhileDown == [][server = "down" /\ store' # store => dialog # None]_vars

\* A page that waits for its settings gets them, an error, or a server that is
\* stopped: the pool serves every request whatever it serves besides, and the
\* loading screen lasts only where the request was dropped by a stop.
LoadEnds == \A p \in Page : AwaitsAnswer(p) ~> ~AwaitsAnswer(p)
=============================================================================
