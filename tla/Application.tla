------------------------------ MODULE Application ------------------------------
(****************************************************************************)
(* The desktop program: Application and HttpServer start and stop, pages    *)
(* connect and get a handler each (HandlerFactory, BaseHandler), and the    *)
(* window lists the handlers (ClientTableModel).  What the handlers do is   *)
(* in ReceiveLevels, TransmitLevels and ChanCheck.                          *)
(****************************************************************************)
EXTENDS Integers, FiniteSets

CONSTANTS
    Tab,          \* browser tabs
    Address,      \* the addresses of the devices they run on
    Handler,      \* the display names of the handlers
    Port,         \* the ports the system may give the WebSocket server
    None,
    MaxStarts,    \* bound: starts of the server
    MaxLoads,     \* bound: pages loaded
    MaxBreaks     \* bound: connections broken

ASSUME ApplicationAssumption ==
    /\ IsFiniteSet(Tab)
    /\ None \notin [port : Port, listens : BOOLEAN, http : BOOLEAN]
    /\ {MaxStarts, MaxLoads, MaxBreaks} \subseteq Nat

VARIABLES
    httpServer,   \* Application::httpServer_: its WebSocket port, and what listens
    detector,     \* the source detector is started
    tab,          \* what each tab shows, from which server, and whether it is connected
    handlers,     \* how many handlers there are for each row
    clients,      \* how many rows of the table are alike
    starts, loads, breaks,
    most,         \* history: the most handlers there ever were for a row
    stoppedWith   \* history: the rows whose handlers a stop has destroyed

vars == <<httpServer, detector, tab, handlers, clients, starts, loads, breaks, most, stoppedWith>>

\* What a row shows.
Row == Address \X Handler
Listening(server) == server # None /\ server.listens
Blank == [row |-> None, port |-> None, open |-> FALSE]
isRunning == httpServer # None

Init ==
    /\ httpServer = None /\ detector = FALSE
    /\ tab = [t \in Tab |-> Blank]
    /\ handlers = [r \in Row |-> 0] /\ clients = [r \in Row |-> 0]
    /\ starts = 0 /\ loads = 0 /\ breaks = 0
    /\ most = [r \in Row |-> 0] /\ stoppedWith = {}

-----------------------------------------------------------------------------
\* The rows are kept sorted, so those that are alike are neighbours.
handlerStarted(r) == clients' = [clients EXCEPT ![r] = @ + 1]

\* The loop goes on after an erase, one index further: of rows that are alike
\* every other one goes.
handlerStopped(r) == clients' = [clients EXCEPT ![r] = @ \div 2]

\* Start, with the sACN interface present (without it nothing happens): the
\* WebSocket server gets any free port; when it does not listen, the HTTP
\* server is not started, nor when its own port is taken, and the program is
\* running all the same.
Start ==
    /\ ~isRunning /\ starts < MaxStarts
    /\ \E port \in Port, listens \in BOOLEAN, http \in BOOLEAN :
          /\ http => listens
          /\ httpServer' = [port |-> port, listens |-> listens, http |-> http]
    /\ detector' = TRUE
    /\ starts' = starts + 1
    /\ UNCHANGED <<tab, handlers, clients, loads, breaks, most, stoppedWith>>

\* Mutant: the detector is left running.
StopKeepsDetector ==
    /\ isRunning
    /\ httpServer' = None
    /\ handlers' = [r \in Row |-> 0]
    /\ tab' = [t \in Tab |-> [tab[t] EXCEPT !.open = FALSE]]
    /\ stoppedWith' = stoppedWith \cup {r \in Row : handlers[r] > 0}
    /\ UNCHANGED <<detector, clients, starts, loads, breaks, most>>

\* Stop, or the window is closed.  The server is deleted before the next event
\* and its handlers with it, which nobody is told.
Stop ==
    /\ isRunning
    /\ httpServer' = None /\ detector' = FALSE
    /\ handlers' = [r \in Row |-> 0]
    /\ tab' = [t \in Tab |-> [tab[t] EXCEPT !.open = FALSE]]
    /\ stoppedWith' = stoppedWith \cup {r \in Row : handlers[r] > 0}
    /\ UNCHANGED <<clients, starts, loads, breaks, most>>

-----------------------------------------------------------------------------
\* A page is loaded and told the port of the WebSocket server (wsRoot).
Load(t) ==
    /\ isRunning /\ httpServer.http /\ ~tab[t].open /\ loads < MaxLoads
    /\ \E r \in Row :
          tab' = [tab EXCEPT ![t] = [row |-> r, port |-> httpServer.port, open |-> FALSE]]
    /\ loads' = loads + 1
    /\ UNCHANGED <<httpServer, detector, handlers, clients, starts, breaks, most, stoppedWith>>

\* Mutant: one handler for each row.
ConnectOnce(t) ==
    LET r == tab[t].row IN
    /\ r # None /\ ~tab[t].open /\ handlers[r] = 0
    /\ Listening(httpServer) /\ httpServer.port = tab[t].port
    /\ tab' = [tab EXCEPT ![t].open = TRUE]
    /\ handlers' = [handlers EXCEPT ![r] = @ + 1]
    /\ handlerStarted(r)
    /\ most' = [most EXCEPT ![r] = IF handlers'[r] > @ THEN handlers'[r] ELSE @]
    /\ UNCHANGED <<httpServer, detector, starts, loads, breaks, stoppedWith>>

\* The page (re)connects, always to the port it was told: onWsNewConnection.
\* (A client that asks for a path no function has gets no handler and no row,
\* and is closed: that branch changes nothing here.)
Connect(t) ==
    LET r == tab[t].row IN
    /\ r # None /\ ~tab[t].open
    /\ Listening(httpServer) /\ httpServer.port = tab[t].port
    /\ tab' = [tab EXCEPT ![t].open = TRUE]
    /\ handlers' = [handlers EXCEPT ![r] = @ + 1]
    /\ handlerStarted(r)
    /\ most' = [most EXCEPT ![r] = IF handlers'[r] > @ THEN handlers'[r] ELSE @]
    /\ UNCHANGED <<httpServer, detector, starts, loads, breaks, stoppedWith>>

\* The connection breaks for the page; its handler has yet to notice.
Break(t) ==
    /\ tab[t].open /\ breaks < MaxBreaks
    /\ tab' = [tab EXCEPT ![t].open = FALSE]
    /\ breaks' = breaks + 1
    /\ UNCHANGED <<httpServer, detector, handlers, clients, starts, loads, most, stoppedWith>>

\* Mutant: the handler goes without its signal.
DisconnectedSilently(r) ==
    /\ handlers[r] > Cardinality({t \in Tab : tab[t].open /\ tab[t].row = r})
    /\ handlers' = [handlers EXCEPT ![r] = @ - 1]
    /\ UNCHANGED <<httpServer, detector, tab, clients, starts, loads, breaks, most, stoppedWith>>

\* onDisconnected of a handler that has lost its page.
Disconnected(r) ==
    /\ handlers[r] > Cardinality({t \in Tab : tab[t].open /\ tab[t].row = r})
    /\ handlers' = [handlers EXCEPT ![r] = @ - 1]
    /\ handlerStopped(r)
    /\ UNCHANGED <<httpServer, detector, tab, starts, loads, breaks, most, stoppedWith>>

Next ==
    \/ Start \/ Stop
    \/ \E t \in Tab : Load(t) \/ Connect(t) \/ Break(t)
    \/ \E r \in Row : Disconnected(r)

Spec == Init /\ [][Next]_vars

\* A page retries for ever, and the system ends a dead connection some time.
FairSpec ==
    /\ Spec
    /\ \A t \in Tab : WF_vars(Connect(t))
    /\ \A r \in Row : WF_vars(Disconnected(r))

-----------------------------------------------------------------------------
\* The shape of every variable; the detector runs with the server.
TypeOK ==
    /\ httpServer \in [port : Port, listens : BOOLEAN, http : BOOLEAN] \cup {None}
    /\ detector \in BOOLEAN /\ detector = isRunning
    /\ tab \in [Tab -> [row : Row \cup {None}, port : Port \cup {None}, open : BOOLEAN]]
    /\ handlers \in [Row -> Nat] /\ clients \in [Row -> Nat]
    /\ most \in [Row -> Nat] /\ stoppedWith \subseteq Row
    /\ starts \in 0..MaxStarts /\ loads \in 0..MaxLoads /\ breaks \in 0..MaxBreaks

\* "If the same device has multiple pages open, each page will be listed"
\* (doc/getting-started.md).  Not so: of three pages alike, the first to be
\* closed takes two rows along.
PagesOpen(r) == {t \in Tab : tab[t].open /\ tab[t].row = r}
EveryPageListed == \A r \in Row : Cardinality(PagesOpen(r)) <= clients[r]

\* The table shows the handlers there are, each once: claimed while no more
\* than two handlers were ever alike (EveryPageListed fails with three), and of
\* rows that no stop of the server has left behind.
TableIsTrue ==
    \A r \in Row : (most[r] <= 2 /\ r \notin stoppedWith) => clients[r] = handlers[r]

\* A page that was loaded from the running server connects, however often its
\* connection breaks, or the server is stopped first, or it is left.  (A page
\* of an earlier server never does, unless the port happens to be the same.)
PageConnects ==
    \A t \in Tab, p \in Port :
       (tab[t].port = p /\ Listening(httpServer) /\ httpServer.port = p)
          ~> (tab[t].open \/ tab[t].port # p \/ ~isRunning)
=============================================================================
