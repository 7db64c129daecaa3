----------------------------- MODULE NodeStack ------------------------------
(***************************************************************************)
(* The node as a container of services (node/node.go), its RPC servers     *)
(* (node/rpcstack.go) and the administrative calls that start and stop     *)
(* them while the node runs (node/api.go).                                 *)
(*                                                                         *)
(* Goroutines: one that calls Start, the Closers that call Close, and the  *)
(* Admins that serve administrative calls.  A section that holds a mutex   *)
(* and waits for nobody is one step.                                       *)
(***************************************************************************)
EXTENDS Integers, Sequences, Absent

CONSTANTS Services,    \* number of registered lifecycles; each opens a database
          Closers, Admins,
          AdminPorts,  \* the ports that administrative calls name
          Routes,      \* how the calls come: "inproc", "http"
          MaxAdmin     \* bound: administrative calls

Servers == {"http", "ws"}
Procs == Closers \cup Admins \cup {"start"}

\* What a goroutine has still to do, as words.
Words == {"shutdown", "inproc", "ipc", "http_addr", "enable_rpc", "ws_addr", "enable_ws", "start",
          "start_http", "start_ws", "stopWS", "stop_http", "stop_ws", "stop_ipc", "stop_inproc",
          "unlock", "services", "stop_services", "close_databases", "release"}

\* A goroutine's job: its words, the port and the route of a call, the server it is at.
JobRecord == [todo : Seq(Words), port : {None} \cup AdminPorts, route : {None} \cup Routes,
              on : {None} \cup Servers]

ASSUME NodeAssumption ==
  /\ Services \in Nat /\ AdminPorts \subseteq Nat \ {0}
  /\ Closers \cap Admins = {} /\ "start" \notin Closers \cup Admins
  /\ None \notin Procs /\ None \notin {1, 2} \cup AdminPorts /\ None \notin JobRecord

VARIABLES config,     \* [http, ws]: the configured ports, None for a server that is off
          state,      \* Node.state
          startStopLock, nodeLock,   \* who holds them, or None
          proc,       \* goroutine -> None or what it has still to do
          running,    \* lifecycles that are started
          tracked,    \* Node.databases: the open databases
          closes,     \* lifecycle -> how often its database was closed
          dirLocked,  \* the lock of the instance directory
          stopped,    \* the channel stop is closed
          inproc, ipc,
          srv,        \* server -> [mu, port, listener, rpc, ws]
          adminCalls,
          late        \* history: a start call overlapped the end of the RPC servers, or two
                      \* calls configured and stopped a server at a time

nodeVars == <<config, state, startStopLock, nodeLock, proc, running, tracked, closes, dirLocked,
              stopped, inproc, ipc, srv, adminCalls, late>>

Off == [mu |-> None, port |-> None, listener |-> None, rpc |-> FALSE, ws |-> FALSE]

\* New: the instance directory is locked, and the services are constructed: each
\* registers itself and opens its database.
NodeInit ==
  /\ config \in [http : {None, 1}, ws : {None, 1, 2}]
  /\ state = "initializing" /\ startStopLock = None /\ nodeLock = None
  /\ proc = [p \in Procs |-> None]
  /\ running = {} /\ tracked = 1..Services /\ closes = [i \in 1..Services |-> 0]
  /\ dirLocked = TRUE /\ stopped = FALSE /\ inproc = "new" /\ ipc = FALSE
  /\ srv = [s \in Servers |-> Off] /\ adminCalls = 0 /\ late = FALSE

------------------------------------------------------------------------------
(* The operations of one httpServer, as new values of its record. *)

\* Mutant: the address changes under a running server.
CanListen_Always(h, port) == TRUE

\* setListenAddr is refused while the server runs elsewhere.
CanListen(h, port) == h.listener # None => port = h.port

\* Mutant: a server that fails to start keeps its handlers.
StartFails_Keeps(h) == h

\* A listener that cannot be opened disables both handlers; the address stays.
StartFails(h) == [h EXCEPT !.rpc = FALSE, !.ws = FALSE]

\* start: the outcomes for the server s.
Started(s) ==
  LET h == srv[s]
  IN  IF h.port = None \/ h.listener # None THEN {h}
      ELSE {StartFails(h)} \cup
           {[h EXCEPT !.listener = p] : p \in {h.port} \ {srv[t].listener : t \in Servers \ {s}}}

\* doStop reads the HTTP handler twice: the WebSocket handler goes only along with it.
Dropped(h) == IF h.rpc THEN [h EXCEPT !.rpc = FALSE, !.ws = FALSE] ELSE h

\* Mutant: the mutex is not released.
ShutDown_KeepsMu(h) == [h EXCEPT !.port = None, !.listener = None]

\* The rest of doStop, once the connections are idle.
ShutDown(h) == [h EXCEPT !.port = None, !.listener = None, !.mu = None]

\* wsServerForPort.
wsServerForPort(port) == IF config.http = None \/ srv["http"].port = port THEN "http" ELSE "ws"

\* Shutdown waits for the requests that the server is serving.
Serving(s) == s = "http" /\ \E a \in Admins : proc[a] # None /\ proc[a].route = "http"

------------------------------------------------------------------------------
(* A goroutine's steps: todo is the sequence of what it has still to do. *)

Job(todo) == [todo |-> todo, port |-> None, route |-> None, on |-> None]

Now(p, what) == proc[p] # None /\ proc[p].todo # <<>> /\ Head(proc[p].todo) = what

Continue(p, todo) == proc' = [proc EXCEPT ![p] = IF todo = <<>> THEN None ELSE [@ EXCEPT !.todo = todo]]

Advance(p) == Continue(p, Tail(proc[p].todo))

NodeState == <<state, startStopLock, running, tracked, closes, dirLocked, stopped>>
Rpc == <<inproc, ipc, srv>>

\* Mutant: the WebSocket server is forgotten.
stopRPC_NoWS == <<"stop_http", "stop_ipc", "stop_inproc">>

stopRPC == <<"stop_http", "stop_ws", "stop_ipc", "stop_inproc">>

\* Start, under both locks.
StartBegins ==
  /\ startStopLock = None /\ nodeLock = None /\ state = "initializing" /\ proc["start"] = None
  /\ state' = "running" /\ startStopLock' = "start" /\ nodeLock' = "start"
  /\ proc' = [proc EXCEPT !["start"] = Job(<<"inproc", "ipc">>
       \o (IF config.http = None THEN <<>> ELSE <<"http_addr", "enable_rpc">>)
       \o (IF config.ws = None THEN <<>> ELSE <<"ws_addr", "enable_ws">>)
       \o <<"start_http", "start_ws", "unlock", "services">>)]
  /\ UNCHANGED <<config, running, tracked, closes, dirLocked, stopped, Rpc, adminCalls, late>>

\* startNetworking stops what it has started, and Start closes the node.
StartFailed == Continue("start", stopRPC \o <<"unlock", "close_databases", "release">>)

StartInProc ==
  /\ Now("start", "inproc") /\ Advance("start")
  /\ inproc' = "registered"
  /\ UNCHANGED <<config, NodeState, nodeLock, ipc, srv, adminCalls, late>>

StartIPC ==
  /\ Now("start", "ipc")
  /\ \/ ipc' = TRUE /\ Advance("start")
     \/ ipc' = FALSE /\ StartFailed
  /\ UNCHANGED <<config, NodeState, nodeLock, inproc, srv, adminCalls, late>>

\* The server and the port that a step of Start or of a call is about.
Target(p) ==
  IF p = "start" THEN IF Now(p, "ws_addr") THEN wsServerForPort(config.ws) ELSE "http"
  ELSE IF Now(p, "ws_addr") THEN wsServerForPort(proc[p].port) ELSE "http"

Port(p) == IF p # "start" THEN proc[p].port ELSE IF Now(p, "ws_addr") THEN config.ws ELSE config.http

\* Mutant: a call that fails returns with the lock.
Failed_NoUnlock(p) == IF p = "start" THEN StartFailed ELSE Continue(p, <<>>)

\* An error of a step: Start gives up, a call returns.
Failed(p) == IF p = "start" THEN StartFailed ELSE Continue(p, <<"unlock">>)

SetListenAddr(p) ==
  /\ Now(p, "http_addr") \/ Now(p, "ws_addr")
  /\ LET s == Target(p)
     IN  /\ srv[s].mu = None
         /\ IF CanListen(srv[s], Port(p))
            THEN /\ srv' = [srv EXCEPT ![s].port = Port(p)]
                 /\ proc' = [proc EXCEPT ![p].on = s, ![p].todo = Tail(@)]
            ELSE Failed(p) /\ UNCHANGED srv
  /\ UNCHANGED <<config, NodeState, nodeLock, inproc, ipc, adminCalls, late>>

\* enableRPC and enableWS are refused when the handler is there already.
Enable(p) ==
  /\ Now(p, "enable_rpc") \/ Now(p, "enable_ws")
  /\ LET s == proc[p].on
     IN  /\ srv[s].mu = None
         /\ IF Now(p, "enable_rpc")
            THEN IF srv[s].rpc THEN Failed(p) /\ UNCHANGED srv
                 ELSE Advance(p) /\ srv' = [srv EXCEPT ![s].rpc = TRUE]
            ELSE IF srv[s].ws THEN Failed(p) /\ UNCHANGED srv
                 ELSE Advance(p) /\ srv' = [srv EXCEPT ![s].ws = TRUE]
  /\ UNCHANGED <<config, NodeState, nodeLock, inproc, ipc, adminCalls, late>>

StartServer(p) ==
  /\ Now(p, "start_http") \/ Now(p, "start_ws") \/ Now(p, "start")
  /\ LET s == IF Now(p, "start") THEN proc[p].on ELSE IF Now(p, "start_http") THEN "http" ELSE "ws"
     IN  /\ srv[s].mu = None
         /\ \E h \in Started(s) :
              /\ srv' = [srv EXCEPT ![s] = h]
              /\ IF srv[s].port # None /\ h.listener = None THEN Failed(p) ELSE Advance(p)
  /\ UNCHANGED <<config, NodeState, nodeLock, inproc, ipc, adminCalls, late>>

\* Mutant: the lock is not released.
Unlock_Keeps(p) ==
  /\ Now(p, "unlock") /\ Advance(p)
  /\ UNCHANGED <<config, NodeState, nodeLock, Rpc, adminCalls, late>>

Unlock(p) ==
  /\ Now(p, "unlock") /\ Advance(p)
  /\ nodeLock' = None
  /\ UNCHANGED <<config, NodeState, Rpc, adminCalls, late>>

\* The lifecycles start one after the other; a failure stops the ones that are started.
StartService ==
  /\ Now("start", "services")
  /\ IF running = 1..Services
     THEN Advance("start") /\ startStopLock' = None /\ UNCHANGED running
     ELSE /\ UNCHANGED startStopLock
          /\ \/ /\ \E next \in 1..Services : running = 1..(next - 1) /\ running' = 1..next
                /\ UNCHANGED proc
             \/ Continue("start", stopRPC \o <<"stop_services", "close_databases", "release">>)
                /\ UNCHANGED running
  /\ UNCHANGED <<config, state, nodeLock, tracked, closes, dirLocked, stopped, Rpc, adminCalls, late>>

------------------------------------------------------------------------------
(* The end of the servers and of the node. *)

\* A server is stopped while somebody is configuring one.
Overlaps == nodeLock \in Admins

\* stop takes the server's mutex, drops the handlers and waits for the requests.
BeginStop(p, s) ==
  /\ srv[s].mu = None
  /\ IF srv[s].listener = None THEN Advance(p) /\ UNCHANGED srv
     ELSE /\ srv' = [srv EXCEPT ![s] = [Dropped(@) EXCEPT !.mu = p]]
          /\ proc' = [proc EXCEPT ![p].on = s, ![p].todo = <<"shutdown">> \o Tail(@)]

StopServer(p) ==
  /\ \/ Now(p, "stop_http") /\ BeginStop(p, "http")
     \/ Now(p, "stop_ws") /\ BeginStop(p, "ws")
  /\ late' = (late \/ Overlaps)
  /\ UNCHANGED <<config, NodeState, nodeLock, inproc, ipc, adminCalls>>

\* stopWS: the server goes on when it serves HTTP too.
StopWSHandler(p) ==
  /\ Now(p, "stopWS") /\ srv["http"].mu = None
  /\ LET h == srv["http"]
     IN  IF h.ws /\ ~h.rpc /\ h.listener # None
         THEN /\ srv' = [srv EXCEPT !["http"] = [h EXCEPT !.ws = FALSE, !.mu = p]]
              /\ proc' = [proc EXCEPT ![p].on = "http", ![p].todo = <<"shutdown">> \o Tail(@)]
         ELSE srv' = [srv EXCEPT !["http"].ws = FALSE] /\ Advance(p)
  /\ late' = (late \/ Overlaps)
  /\ UNCHANGED <<config, NodeState, nodeLock, inproc, ipc, adminCalls>>

Shutdown(p) ==
  /\ Now(p, "shutdown") /\ ~Serving(proc[p].on)
  /\ srv' = [srv EXCEPT ![proc[p].on] = ShutDown(@)]
  /\ Advance(p)
  /\ UNCHANGED <<config, NodeState, nodeLock, inproc, ipc, adminCalls, late>>

StopOther(p) ==
  /\ \/ Now(p, "stop_ipc") /\ ipc' = FALSE /\ UNCHANGED inproc
     \/ Now(p, "stop_inproc") /\ inproc' = "stopped" /\ UNCHANGED ipc
  /\ Advance(p)
  /\ UNCHANGED <<config, NodeState, nodeLock, srv, adminCalls, late>>

\* Mutant: the lifecycles are stopped in the order in which they were started.
NextToStop_First == CHOOSE i \in running : \A j \in running : j >= i

\* stopServices goes through the lifecycles in reverse order.
NextToStop == CHOOSE i \in running : \A j \in running : j <= i

\* Mutant: a database that its service has closed stays in the map.
Untrack_Keeps(i) == tracked

\* closeTrackingDB.Close takes the database out of the node's map.
Untrack(i) == tracked \ {i}

\* The lifecycle that stops closes its database, or leaves that to the node.
StopService(p) ==
  /\ Now(p, "stop_services")
  /\ IF running = {} THEN Advance(p) /\ UNCHANGED <<running, tracked, closes>>
     ELSE /\ running' = running \ {NextToStop} /\ UNCHANGED proc
          /\ \/ /\ nodeLock = None
                /\ tracked' = Untrack(NextToStop) /\ closes' = [closes EXCEPT ![NextToStop] = @ + 1]
             \/ UNCHANGED <<tracked, closes>>
  /\ UNCHANGED <<config, state, startStopLock, nodeLock, dirLocked, stopped, Rpc, adminCalls, late>>

\* The first part of doClose, under the lock.
CloseDatabases(p) ==
  /\ Now(p, "close_databases") /\ nodeLock = None
  /\ state' = "closed" /\ tracked' = {}
  /\ closes' = [i \in 1..Services |-> IF i \in tracked THEN closes[i] + 1 ELSE closes[i]]
  /\ Advance(p)
  /\ UNCHANGED <<config, startStopLock, nodeLock, running, dirLocked, stopped, Rpc, adminCalls, late>>

\* The rest: the account manager is closed, the directory released, Wait unblocked.
Release(p) ==
  /\ Now(p, "release")
  /\ dirLocked' = FALSE /\ stopped' = TRUE /\ startStopLock' = None
  /\ Advance(p)
  /\ UNCHANGED <<config, state, nodeLock, running, tracked, closes, Rpc, adminCalls, late>>

\* Close, by the state that it reads; of a closed node it returns at once.
CloseTodo ==
  IF state = "running" THEN stopRPC \o <<"stop_services", "close_databases", "release">>
  ELSE <<"close_databases", "release">>

CloseBegins(c) ==
  /\ proc[c] = None /\ startStopLock = None /\ nodeLock = None /\ state # "closed"
  /\ startStopLock' = c
  /\ proc' = [proc EXCEPT ![c] = Job(CloseTodo)]
  /\ UNCHANGED <<config, state, nodeLock, running, tracked, closes, dirLocked, stopped, Rpc, adminCalls, late>>

------------------------------------------------------------------------------
(* Administrative calls. *)

Reachable(route) ==
  IF route = "http" THEN srv["http"].listener # None /\ srv["http"].rpc ELSE inproc = "registered" \/ ipc

Ending == state = "closed" \/ \E p \in Closers \cup {"start"} :
            proc[p] # None /\ \E i \in 1..Len(proc[p].todo) : proc[p].todo[i] = "close_databases"

\* StartRPC and StartWS hold the node's lock; they do not look at its state.
AdminStarts(a) ==
  /\ nodeLock = None
  /\ \E port \in AdminPorts, route \in Routes,
        todo \in {<<"http_addr", "enable_rpc", "start", "unlock">>, <<"ws_addr", "enable_ws", "start", "unlock">>} :
       /\ Reachable(route)
       /\ proc' = [proc EXCEPT ![a] = [Job(todo) EXCEPT !.port = port, !.route = route]]
  /\ nodeLock' = a /\ late' = (late \/ Ending)
  /\ UNCHANGED <<config, NodeState, Rpc>>

\* StopRPC and StopWS take no lock of the node.
AdminStops(a) ==
  /\ \E route \in Routes, todo \in {<<"stop_http">>, <<"stopWS", "stop_ws">>} :
       /\ Reachable(route)
       /\ proc' = [proc EXCEPT ![a] = [Job(todo) EXCEPT !.route = route]]
  /\ UNCHANGED <<config, NodeState, nodeLock, Rpc, late>>

Admin(a) ==
  /\ proc[a] = None /\ adminCalls < MaxAdmin /\ adminCalls' = adminCalls + 1
  /\ AdminStarts(a) \/ AdminStops(a)

------------------------------------------------------------------------------

Step(p) ==
  \/ SetListenAddr(p) \/ Enable(p) \/ StartServer(p) \/ Unlock(p)
  \/ StopServer(p) \/ StopWSHandler(p) \/ Shutdown(p) \/ StopOther(p)
  \/ StopService(p) \/ CloseDatabases(p) \/ Release(p)

StartStep == StartInProc \/ StartIPC \/ StartService \/ Step("start")

NodeNext ==
  \/ StartBegins \/ StartStep
  \/ \E c \in Closers : CloseBegins(c) \/ Step(c)
  \/ \E a \in Admins : Admin(a) \/ Step(a)

\* The goroutines go on; nobody has to start or to close the node, or to call.
NodeFairness ==
  /\ WF_nodeVars(StartStep)
  /\ \A p \in Closers \cup Admins : SF_nodeVars(Step(p))

NodeSpec == NodeInit /\ [][NodeNext]_nodeVars /\ NodeFairness

------------------------------------------------------------------------------
(* Properties. *)

\* The shape of the state, and a mutex is held by a goroutine that has still to
\* release it.
NodeTypeOK ==
  /\ config \in [http : {None, 1}, ws : {None, 1, 2}]
  /\ state \in {"initializing", "running", "closed"}
  /\ startStopLock \in {None, "start"} \cup Closers /\ nodeLock \in {None, "start"} \cup Admins
  /\ running \subseteq 1..Services /\ tracked \subseteq 1..Services
  /\ inproc \in {"new", "registered", "stopped"} /\ ipc \in BOOLEAN
  /\ srv \in [Servers -> [mu : {None} \cup Procs, port : {None, 1, 2} \cup AdminPorts,
                          listener : {None, 1, 2} \cup AdminPorts, rpc : BOOLEAN, ws : BOOLEAN]]
  /\ \A p \in {startStopLock, nodeLock} \cup {srv[s].mu : s \in Servers} : p # None => proc[p] # None

\* A server that listens does so at the address that setListenAddr recorded, which
\* listenAddr and wsServerForPort go by.
ListensAtEndpoint == \A s \in Servers : srv[s].listener # None => srv[s].port = srv[s].listener

\* While nobody configures a server, an HTTP handler is installed only on one that
\* runs, so that StartRPC is not refused for good, whatever failed to start before.
HandlerMeansRunning ==
  nodeLock = None /\ ~late => \A s \in Servers : srv[s].rpc => srv[s].listener # None

\* A closed node has stopped its lifecycles and its RPC servers, unless a call to start a
\* server overlapped with Close.
ClosedServesNothing ==
  stopped => /\ running = {} /\ inproc # "registered" /\ ~ipc
             /\ ~late => \A s \in Servers : srv[s].listener = None

\* The databases are closed exactly once, by the service or by the node, and all of them
\* before the instance directory is released for another process.
DatabasesClosedOnce ==
  /\ \A i \in 1..Services : closes[i] <= 1
  /\ ~dirLocked => \A i \in 1..Services : closes[i] = 1

\* The last lifecycle to start is the first to stop, and only the Start or the Close that
\* holds the lock stops it.
StopsInReverse ==
  [][\A i \in running \ running' : startStopLock # None /\ \A j \in running : j <= i]_nodeVars

\* Close returns, and Wait with it: startStopLock is released again and again.
CloseReturns == \A c \in Closers : proc[c] # None ~> stopped

\* A call to stop a server returns, whoever else starts and stops servers.
CallsReturn == \A a \in Admins : proc[a] # None ~> proc[a] = None

\* Servers, handlers, lifecycles and databases are what the node's state says.
NodeConsistent ==
  /\ NodeTypeOK
  /\ ListensAtEndpoint /\ HandlerMeansRunning
  /\ ClosedServesNothing /\ DatabasesClosedOnce
=============================================================================
