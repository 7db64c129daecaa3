--------------------------- MODULE NodeStackProofs ---------------------------
(***************************************************************************)
(* The end of a node: the servers and the lifecycles are stopped, the      *)
(* databases are closed.  With NodeStartProofs, every step of the node     *)
(* keeps the invariant.                                                    *)
(***************************************************************************)
EXTENDS NodeStartProofs

------------------------------------------------------------------------------
(* The steps that stop a node, and the ones that begin a job. *)

\* A server that does not run needs no stop; stopWS leaves a server on that serves HTTP.
LEMMA StoppedKeeps ==
  ASSUME NodeInv, NEW p \in Procs, NEW w \in {"stop_http", "stop_ws", "stopWS"}, Now(p, w), Advance(p),
         w = "stop_http" => srv["http"].listener = None, w = "stop_ws" => srv["ws"].listener = None,
         srv' = srv \/ srv' = [srv EXCEPT !["http"].ws = FALSE], w = "stopWS" \/ srv' = srv,
         late' = (late \/ Overlaps), UNCHANGED <<config, NodeState, nodeLock, inproc, ipc>>
  PROVE  NodeInv'
<1>0. /\ Shape /\ Jobs /\ JobWords /\ Held /\ OnServer /\ StopDrops /\ ListensAtEndpoint /\ Fresh
      /\ WillStart /\ Ended /\ Over /\ Unstarted /\ Lifecycles
  BY Zenon DEF NodeInv
<1>1. /\ p \in Procs /\ w \in Left(p) /\ "shutdown" \notin Left(p) /\ proc[p] # None
      /\ w = "stop_ws" => "stop_http" \notin Left(p)
      /\ Left(p) \cap (Configuring \cup Calling \cup {"services"}) = {}
      /\ p \in Admins => Left(p) \subseteq Stopping
      /\ p \in Closers => Left(p) \subseteq Closing /\ "release" \in Left(p)
      /\ p = "start" => Left(p) \subseteq Closing \cup {"unlock"} /\ "release" \in Left(p)
      /\ w = "stopWS" => p \in Admins
  BY StopAt, Zenon
<1>2. /\ Moves(p, Left(p) \ {w})
      /\ Left(p) \ {w} # {} => proc'[p].on = proc[p].on /\ proc'[p].port = proc[p].port
  BY <1>0, <1>1, Advanced, Zenon
<1>3. UNCHANGED <<config, state, startStopLock, running, tracked, closes, dirLocked, stopped, nodeLock, inproc, ipc>>
  BY Zenon DEF NodeState
<1>4. /\ Left(p)' = Left(p) \ {w} /\ Jobs'
      /\ \A q \in Procs : q # p => Left(q)' = Left(q) /\ proc'[q] = proc[q]
      /\ \A c \in Closers : c # p => Left(c)' = Left(c) /\ proc'[c] = proc[c]
      /\ \A a \in Admins : a # p => Left(a)' = Left(a) /\ proc'[a] = proc[a]
      /\ p # "start" => Left("start")' = Left("start") /\ proc'["start"] = proc["start"]
      /\ "start" \notin Closers /\ "start" \notin Admins /\ Closers \cap Admins = {} /\ None \notin Procs
  BY <1>1, <1>2, Others, Zenon DEF Moves
<1>5. late' \in BOOLEAN /\ (late => late') /\ (~late' => ~late /\ nodeLock \notin Admins)
  BY Zenon DEF Overlaps
<1>6. /\ srv' \in [Servers -> ServerRecord]
      /\ \A t \in Servers : /\ srv'[t].mu = srv[t].mu /\ srv'[t].listener = srv[t].listener /\ srv'[t].port = srv[t].port
                            /\ srv'[t].rpc = srv[t].rpc /\ (srv'[t].ws => srv[t].ws)
  <2>1. srv \in [Servers -> ServerRecord]
    BY <1>0, Zenon DEF Shape, ServerRecord
  <2>2. CASE srv' = srv
    BY <2>1, <2>2, Zenon
  <2>3. CASE srv' = [srv EXCEPT !["http"].ws = FALSE]
    <3>1. "http" \in Servers
      BY Zenon DEF Servers
    <3>2. PICK h : h = [srv["http"] EXCEPT !.ws = FALSE]
      BY Zenon
    <3>3. /\ h \in ServerRecord /\ h.mu = srv["http"].mu /\ h.listener = srv["http"].listener
          /\ h.port = srv["http"].port /\ h.rpc = srv["http"].rpc /\ ~h.ws
      BY <2>1, <3>1, <3>2, Zenon DEF ServerRecord
    <3>4. srv' = [srv EXCEPT !["http"] = h]
      BY <2>3, <3>2, Zenon
    <3>5. /\ srv' \in [Servers -> ServerRecord] /\ srv'["http"] = h
          /\ \A t \in Servers : t # "http" => srv'[t] = srv[t]
      BY <1>0, <3>1, <3>3, <3>4, OneServer, Zenon
    <3> QED
      BY <3>3, <3>5, Zenon
  <2> QED
    BY <2>2, <2>3, Zenon
<1>7. \A q \in Procs, v \in {"enable_rpc", "enable_ws", "http_addr", "ws_addr", "start", "start_http", "services",
                           "shutdown", "unlock", "release", "ipc"} : v \in Left(q)' <=> v \in Left(q)
  BY <1>4, Zenon
<1>8. "start" \in Procs /\ Admins \subseteq Procs /\ Closers \subseteq Procs
  BY Zenon DEF Procs
<1>9. \A a \in Admins : "start" \in Left(a) => Left(a)' = Left(a) /\ proc'[a] = proc[a]
  BY <1>1, <1>4, Zenon DEF Calling
<1>10. Shape'
  BY <1>0, <1>1, <1>3, <1>4, <1>5, <1>6, <1>7, <1>8 DEF Shape, ServerRecord
<1>11. Jobs'
  BY <1>1, <1>3, <1>4, <1>5, <1>6, <1>7, <1>8, Zenon
<1>12. JobWords'
  BY <1>0, <1>1, <1>3, <1>4, <1>5, <1>6, <1>7, <1>8 DEF JobWords, Closing, Configuring, Calling
<1>13. Held'
  <2>1. \A q \in Closers \cup {"start"} : Left(q)' = {} <=> Left(q) = {}
    BY <1>1, <1>4
  <2>2. \A q \in Procs : "shutdown" \in Left(q) => proc'[q].on = proc[q].on
    BY <1>1, <1>4, Zenon
  <2>3. (\A q \in Closers \cup {"start"} : Left(q) # {} <=> startStopLock = q)'
    BY <1>0, <1>3, <2>1, Zenon DEF Held
  <2>4. (\A q \in Procs : "unlock" \in Left(q) <=> nodeLock = q)'
    BY <1>0, <1>3, <1>7, Zenon DEF Held
  <2>5. (\A q \in Procs, s \in Servers : srv[s].mu = q <=> "shutdown" \in Left(q) /\ proc[q].on = s)'
    BY <1>0, <1>6, <1>7, <2>2 DEF Held
  <2>6. (\A q \in Procs : "shutdown" \in Left(q) => proc[q].on \in Servers)'
    BY <1>0, <1>7, <2>2, Zenon DEF Held
  <2> QED
    BY <2>3, <2>4, <2>5, <2>6, Zenon DEF Held
<1>14. OnServer'
  <2>1. \A q \in Admins \cup {"start"} : "enable_rpc" \in Left(q) \/ "enable_ws" \in Left(q) => proc'[q] = proc[q]
    BY <1>1, <1>4, Zenon DEF Calling
  <2>2. \A a \in Admins : "unlock" \in Left(a) => proc'[a] = proc[a]
    BY <1>1, <1>4 DEF Stopping
  <2> QED
    BY <1>0, <1>3, <1>7, <1>8, <1>9, <2>1, <2>2 DEF OnServer
<1>15. Fresh'
  BY <1>0, <1>6, <1>7, <1>8 DEF Fresh
<1>16. WillStart'
  <2>1. ASSUME ~late', NEW t \in Servers, srv'[t].rpc, srv'[t].listener = None
        PROVE  /\ srv'[t].port # None
               /\ \/ t = "http" /\ "start_http" \in Left("start")'
                  \/ \E a \in Admins : "start" \in Left(a)' /\ proc'[a].on = t /\ Left(a)' \subseteq {"start", "unlock"}
    <3>1. srv[t].rpc /\ srv[t].listener = None /\ ~late
      BY <1>5, <1>6, <2>1, Zenon
    <3>2. /\ srv[t].port # None
          /\ \/ t = "http" /\ "start_http" \in Left("start")
             \/ \E a \in Admins : "start" \in Left(a) /\ proc[a].on = t /\ Left(a) \subseteq {"start", "unlock"}
      BY <1>0, <3>1, Zenon DEF WillStart
    <3> QED
      BY <1>6, <1>7, <1>8, <1>9, <3>2
  <2>2. ASSUME ~late', NEW q \in Admins \cup {"start"}, "enable_rpc" \in Left(q)', "http_addr" \notin Left(q)'
        PROVE  srv'["http"].port # None /\ srv'["http"].mu = None
    <3>1. "enable_rpc" \in Left(q) /\ "http_addr" \notin Left(q) /\ ~late
      BY <1>5, <1>7, <1>8, <2>2, Zenon
    <3>2. srv["http"].port # None /\ srv["http"].mu = None /\ "http" \in Servers
      BY <1>0, <3>1, Zenon DEF WillStart, Servers
    <3> QED
      BY <1>6, <3>2, Zenon
  <2> QED
    BY <2>1, <2>2, Zenon DEF WillStart
<1>17. Ended'
  <2> SUFFICES ASSUME NEW q \in Closers \cup {"start"}, "release" \in Left(q)'
               PROVE  /\ "stop_http" \in Left(q)' => "stop_ws" \in Left(q)'
                      /\ "stop_services" \notin Left(q)' => running = {}
                      /\ "stop_inproc" \notin Left(q)' => inproc # "registered"
                      /\ "stop_ipc" \notin Left(q)' => ~ipc
                      /\ "close_databases" \notin Left(q)' => state = "closed"
                      /\ ~late' =>
                           /\ "stop_http" \notin Left(q)' => nodeLock \notin Admins
                           /\ "stop_http" \notin Left(q)' /\ srv'["http"].mu # q => srv'["http"].listener = None
                           /\ "stop_ws" \notin Left(q)' /\ srv'["ws"].mu # q => srv'["ws"].listener = None
    BY <1>3 DEF Ended
  <2>1. /\ srv'["http"].mu = srv["http"].mu /\ srv'["http"].listener = srv["http"].listener
        /\ srv'["ws"].mu = srv["ws"].mu /\ srv'["ws"].listener = srv["ws"].listener
    BY <1>6, Zenon DEF Servers
  <2>2. CASE q # p
    <3>1. Left(q)' = Left(q)
      BY <1>4, <1>8, <2>2, Zenon
    <3> QED
      BY <1>0, <1>5, <2>1, <3>1, Zenon DEF Ended
  <2>3. CASE q = p
    <3>1. w # "stopWS"
      BY <1>1, <1>4, <2>3, Zenon
    <3> QED
      BY <1>0, <1>1, <1>4, <1>5, <2>1, <2>3, <3>1, Zenon DEF Ended
  <2> QED
    BY <2>2, <2>3, Zenon
<1>18. Unstarted'
  <2>1. state # "initializing"
    <3>1. state = "initializing" => w \notin Left(p)
      BY <1>0, <1>8, Zenon DEF Unstarted, Procs
    <3> QED
      BY <1>1, <3>1, Zenon
  <2> QED
    BY <1>3, <2>1, Zenon DEF Unstarted
<1> USE <1>0, <1>1, <1>3, <1>4, <1>5, <1>6, <1>7, <1>8
<1>19. StopDrops'
  BY DEF StopDrops
<1>20. ListensAtEndpoint'
  BY DEF ListensAtEndpoint
<1>21. Over'
  BY DEF Over
<1>22. Lifecycles'
  BY DEF Lifecycles
<1> QED
  BY <1>10, <1>11, <1>12, <1>13, <1>14, <1>15, <1>16, <1>17, <1>18, <1>19, <1>20, <1>21, <1>22, Zenon DEF NodeInv

\* A server that runs is stopped: its handlers go first, then its requests are awaited.
LEMMA StopBeginsKeeps ==
  ASSUME NodeInv, NEW p \in Procs, NEW w \in {"stop_http", "stop_ws", "stopWS"}, Now(p, w),
         NEW s, s = IF w = "stop_ws" THEN "ws" ELSE "http", srv[s].mu = None, srv[s].listener # None,
         NEW h \in ServerRecord, h.mu = p, ~h.rpc, h.port = srv[s].port, h.listener = srv[s].listener,
         srv' = [srv EXCEPT ![s] = h], Begins(p, s),
         late' = (late \/ Overlaps), UNCHANGED <<config, NodeState, nodeLock, inproc, ipc>>
  PROVE  NodeInv'
<1>0. /\ Shape /\ Jobs /\ JobWords /\ Held /\ OnServer /\ StopDrops /\ ListensAtEndpoint /\ Fresh
      /\ WillStart /\ Ended /\ Over /\ Unstarted /\ Lifecycles
  BY Zenon DEF NodeInv
<1>1. /\ p \in Procs /\ w \in Left(p) /\ "shutdown" \notin Left(p) /\ proc[p] # None
      /\ w = "stop_ws" => "stop_http" \notin Left(p)
      /\ Left(p) \cap (Configuring \cup Calling \cup {"services"}) = {}
      /\ p \in Admins => Left(p) \subseteq Stopping
      /\ p \in Closers => Left(p) \subseteq Closing /\ "release" \in Left(p)
      /\ p = "start" => Left(p) \subseteq Closing \cup {"unlock"} /\ "release" \in Left(p)
      /\ w = "stopWS" => p \in Admins
  BY StopAt
<1>2. s \in Servers /\ s \in {"http", "ws"} /\ (w = "stop_ws" <=> s = "ws")
  BY Zenon DEF Servers
<1>3. Moves(p, (Left(p) \ {w}) \cup {"shutdown"}) /\ proc'[p].on = s
  <2>1. Jobs /\ w # "shutdown" /\ s \in Servers
    BY <1>0, <1>2, Zenon
  <2> QED
    BY <2>1, Begun, Zenon
<1>4. UNCHANGED <<config, state, startStopLock, running, tracked, closes, dirLocked, stopped, nodeLock, inproc, ipc>>
  BY Zenon DEF NodeState
<1>5. /\ Left(p)' = (Left(p) \ {w}) \cup {"shutdown"} /\ Jobs'
      /\ \A q \in Procs : q # p => Left(q)' = Left(q) /\ proc'[q] = proc[q]
      /\ \A c \in Closers : c # p => Left(c)' = Left(c) /\ proc'[c] = proc[c]
      /\ \A a \in Admins : a # p => Left(a)' = Left(a) /\ proc'[a] = proc[a]
      /\ p # "start" => Left("start")' = Left("start") /\ proc'["start"] = proc["start"]
      /\ "start" \notin Closers /\ "start" \notin Admins /\ Closers \cap Admins = {} /\ None \notin Procs
  BY <1>1, <1>3, Others, Zenon DEF Moves
<1>6. late' \in BOOLEAN /\ (late => late') /\ (~late' => ~late /\ nodeLock \notin Admins)
  BY Zenon DEF Overlaps
<1>7. /\ srv' \in [Servers -> ServerRecord] /\ srv'[s].mu = p /\ ~srv'[s].rpc
      /\ \A t \in Servers : /\ srv'[t].listener = srv[t].listener /\ srv'[t].port = srv[t].port
                            /\ t # s => srv'[t] = srv[t]
  <2>1. /\ srv' \in [Servers -> ServerRecord] /\ srv'[s] = h
        /\ \A t \in Servers : t # s => srv'[t] = srv[t]
    BY <1>0, <1>2, OneServer, Zenon
  <2> QED
    BY <2>1, Zenon
<1>8. \A q \in Procs, v \in {"enable_rpc", "enable_ws", "http_addr", "ws_addr", "start", "start_http", "services",
                           "unlock", "release", "ipc"} : v \in Left(q)' <=> v \in Left(q)
  BY <1>5, Zenon
<1>9. "start" \in Procs /\ Admins \subseteq Procs /\ Closers \subseteq Procs
  BY Zenon DEF Procs
<1>10. \A a \in Admins : "start" \in Left(a) => Left(a)' = Left(a) /\ proc'[a] = proc[a]
  BY <1>1, <1>5, Zenon DEF Calling
<1>11. "start_http" \notin Left("start") /\ "enable_rpc" \notin Left("start") /\ "ipc" \notin Left("start")
      /\ "enable_ws" \notin Left("start")
  <2>1. "start_http" \notin Left("start")
    BY <1>0, <1>2, Zenon DEF Fresh
  <2> QED
    BY <1>0, <2>1 DEF JobWords, Configuring, Closing
<1>12. Shape'
  BY <1>0, <1>1, <1>2, <1>4, <1>5, <1>6, <1>7, <1>8, <1>9 DEF Shape, ServerRecord
<1>13. Jobs'
  BY <1>1, <1>2, <1>4, <1>5, <1>6, <1>7, <1>8, <1>9, Zenon
<1>14. JobWords'
  BY <1>0, <1>1, <1>2, <1>4, <1>5, <1>6, <1>7, <1>8, <1>9 DEF JobWords, Closing, Configuring, Calling, Stopping
<1>15. Held'
  <2>1. \A q \in Closers \cup {"start"} : Left(q)' = {} <=> Left(q) = {}
    BY <1>1, <1>5
  <2>2. (\A q \in Closers \cup {"start"} : Left(q) # {} <=> startStopLock = q)'
    BY <1>0, <1>4, <2>1 DEF Held
  <2>3. (\A q \in Procs : "unlock" \in Left(q) <=> nodeLock = q)'
    BY <1>0, <1>4, <1>8 DEF Held
  <2>4. ASSUME NEW q \in Procs, NEW t \in Servers
        PROVE  srv'[t].mu = q <=> "shutdown" \in Left(q)' /\ proc'[q].on = t
    <3>1. CASE q = p
      <4>1. srv[t].mu # p
        BY <1>0, <1>1, Zenon DEF Held
      <4> QED
        BY <1>3, <1>5, <1>7, <3>1, <4>1, Zenon
    <3>2. CASE q # p
      <4>1. srv[s].mu # q
        BY <1>5, Zenon
      <4>2. ~("shutdown" \in Left(q) /\ proc[q].on = s)
        BY <1>0, <1>2, <4>1 DEF Held
      <4>3. srv[t].mu = q <=> "shutdown" \in Left(q) /\ proc[q].on = t
        BY <1>0 DEF Held
      <4> QED
        BY <1>5, <1>7, <3>2, <4>2, <4>3
    <3> QED
      BY <3>1, <3>2, Zenon
  <2>5. (\A q \in Procs : "shutdown" \in Left(q) => proc[q].on \in Servers)'
    <3>1. ASSUME NEW q \in Procs, "shutdown" \in Left(q)'
          PROVE  proc'[q].on \in Servers
      <4>1. CASE q = p
        BY <1>2, <1>3, <4>1, Zenon
      <4>2. CASE q # p
        BY <1>0, <1>5, <3>1, <4>2 DEF Held
      <4> QED
        BY <4>1, <4>2, Zenon
    <3> QED
      BY <3>1, Zenon
  <2> QED
    BY <2>2, <2>3, <2>4, <2>5, Zenon DEF Held
<1>16. OnServer'
  <2>1. \A q \in Admins \cup {"start"} : "enable_rpc" \in Left(q) \/ "enable_ws" \in Left(q) => proc'[q] = proc[q]
    BY <1>1, <1>5, Zenon DEF Calling
  <2>2. \A a \in Admins : "unlock" \in Left(a) => proc'[a] = proc[a]
    BY <1>1, <1>5, Zenon DEF Stopping
  <2> QED
    BY <1>0, <1>4, <1>8, <1>9, <1>10, <2>1, <2>2 DEF OnServer
<1>17. StopDrops'
  <2>1. ASSUME NEW t \in Servers, srv'[t].mu # None
        PROVE  ~srv'[t].rpc
    <3>1. CASE t = s
      BY <1>7, <3>1, Zenon
    <3>2. CASE t # s
      BY <1>0, <1>7, <2>1, <3>2, Zenon DEF StopDrops
    <3> QED
      BY <3>1, <3>2, Zenon
  <2> QED
    BY <2>1, Zenon DEF StopDrops
<1>18. Fresh'
  BY <1>8, <1>9, <1>11, Zenon DEF Fresh
<1>19. WillStart'
  <2>1. ASSUME ~late', NEW t \in Servers, srv'[t].rpc, srv'[t].listener = None
        PROVE  /\ srv'[t].port # None
               /\ \E a \in Admins : "start" \in Left(a)' /\ proc'[a].on = t /\ Left(a)' \subseteq {"start", "unlock"}
    <3>1. t # s /\ srv[t].rpc /\ srv[t].listener = None /\ ~late
      BY <1>6, <1>7, <2>1, Zenon
    <3>2. /\ srv[t].port # None
          /\ \E a \in Admins : "start" \in Left(a) /\ proc[a].on = t /\ Left(a) \subseteq {"start", "unlock"}
      BY <1>0, <1>11, <3>1, Zenon DEF WillStart
    <3> QED
      BY <1>7, <1>10, <3>2
  <2>2. ASSUME ~late', NEW q \in Admins \cup {"start"}, "enable_rpc" \in Left(q)', "http_addr" \notin Left(q)'
        PROVE  FALSE
    <3>1. "enable_rpc" \in Left(q)
      BY <1>8, <1>9, <2>2, Zenon
    <3>2. q \in Admins
      BY <1>11, <3>1, Zenon
    <3>3. "unlock" \in Left(q)
      BY <1>0, <3>1, <3>2, Zenon DEF JobWords, Stopping
    <3>4. nodeLock = q
      BY <1>0, <1>9, <3>2, <3>3, Zenon DEF Held
    <3> QED
      BY <1>6, <2>2, <3>2, <3>4, Zenon
  <2> QED
    BY <2>1, <2>2, Zenon DEF WillStart
<1>20. Ended'
  <2> SUFFICES ASSUME NEW q \in Closers \cup {"start"}, "release" \in Left(q)'
               PROVE  /\ "stop_http" \in Left(q)' => "stop_ws" \in Left(q)'
                      /\ "stop_services" \notin Left(q)' => running = {}
                      /\ "stop_inproc" \notin Left(q)' => inproc # "registered"
                      /\ "stop_ipc" \notin Left(q)' => ~ipc
                      /\ "close_databases" \notin Left(q)' => state = "closed"
                      /\ ~late' =>
                           /\ "stop_http" \notin Left(q)' => nodeLock \notin Admins
                           /\ "stop_http" \notin Left(q)' /\ srv'["http"].mu # q => srv'["http"].listener = None
                           /\ "stop_ws" \notin Left(q)' /\ srv'["ws"].mu # q => srv'["ws"].listener = None
    BY <1>4 DEF Ended
  <2>1. /\ srv'["http"].listener = srv["http"].listener /\ srv'["ws"].listener = srv["ws"].listener
        /\ s # "http" => srv'["http"].mu = srv["http"].mu
        /\ s # "ws" => srv'["ws"].mu = srv["ws"].mu
    BY <1>7, Zenon DEF Servers
  <2>2. CASE q # p
    <3>1. Left(q)' = Left(q) /\ q # None
      BY <1>5, <1>9, <2>2
    <3>2. ~late => ("stop_http" \notin Left(q) => s # "http") /\ ("stop_ws" \notin Left(q) => s # "ws")
      BY <1>0, <3>1, Zenon DEF Ended
    <3> QED
      BY <1>0, <1>6, <2>1, <3>1, <3>2, Zenon DEF Ended
  <2>3. CASE q = p
    <3>1. w # "stopWS" /\ "release" \in Left(p)
      BY <1>1, <1>5, <2>3, Zenon
    <3>2. \A v : v # "shutdown" => (v \in Left(p)' <=> v \in Left(p) /\ v # w)
      BY <1>5, Zenon
    <3>3. srv'[s].mu = p
      BY <1>7, Zenon
    <3> QED
      BY <1>0, <1>1, <1>2, <1>6, <2>1, <2>3, <3>1, <3>2, <3>3 DEF Ended
  <2> QED
    BY <2>2, <2>3, Zenon
<1>21. Over'
  <2>1. state = "closed" => Left("start")' \subseteq {"release"}
    <3>1. state = "closed" => Left("start") \subseteq {"release"}
      BY <1>0, Zenon DEF Over
    <3>2. state = "closed" => p # "start"
      BY <1>1, <3>1, Zenon
    <3> QED
      BY <1>5, <3>1, <3>2, Zenon
  <2> QED
    BY <1>0, <1>4, <1>6, <1>7, <2>1 DEF Over
<1>22. Unstarted'
  <2>1. state # "initializing"
    BY <1>0, <1>2 DEF Unstarted, Off
  <2> QED
    BY <1>4, <2>1, Zenon DEF Unstarted
<1> USE <1>0, <1>1, <1>2, <1>4, <1>5, <1>6, <1>7, <1>8, <1>9
<1>23. ListensAtEndpoint'
  BY DEF ListensAtEndpoint
<1>24. Lifecycles'
  BY DEF Lifecycles
<1> QED
  BY <1>12, <1>13, <1>14, <1>15, <1>16, <1>17, <1>18, <1>19, <1>20, <1>21, <1>22, <1>23, <1>24, Zenon DEF NodeInv

\* The requests are served, and the server is down.
LEMMA ShutdownKeeps ==
  ASSUME NodeInv, NEW p \in Procs, NEW w, w = "shutdown", Now(p, w), Advance(p), NEW s, s = proc[p].on,
         srv' = [srv EXCEPT ![s] = ShutDown(@)], UNCHANGED <<config, NodeState, nodeLock, inproc, ipc, late>>
  PROVE  NodeInv'
<1>0. /\ Shape /\ Jobs /\ JobWords /\ Held /\ OnServer /\ StopDrops /\ ListensAtEndpoint /\ Fresh
      /\ WillStart /\ Ended /\ Over /\ Unstarted /\ Lifecycles
  BY Zenon DEF NodeInv
<1>1. /\ "shutdown" \in Left(p) /\ s \in Servers /\ srv[s].mu = p /\ None \notin Procs
  <2>1. "shutdown" \in Left(p)
    BY <1>0, AtWord, Zenon
  <2> QED
    BY <1>0, <2>1, NodeAssumption, Zenon DEF Held
<1>2. /\ Moves(p, Left(p) \ {w})
      /\ Left(p) \ {w} # {} => proc'[p].on = proc[p].on /\ proc'[p].port = proc[p].port
  BY <1>0, Advanced, Zenon
<1>3. UNCHANGED <<config, state, startStopLock, running, tracked, closes,
         dirLocked, stopped, nodeLock, inproc, ipc, late>>
  BY Zenon DEF NodeState
<1>4. /\ Left(p)' = Left(p) \ {"shutdown"} /\ Jobs'
      /\ \A q \in Procs : q # p => Left(q)' = Left(q) /\ proc'[q] = proc[q]
      /\ \A c \in Closers : c # p => Left(c)' = Left(c) /\ proc'[c] = proc[c]
      /\ \A a \in Admins : a # p => Left(a)' = Left(a) /\ proc'[a] = proc[a]
      /\ p # "start" => Left("start")' = Left("start") /\ proc'["start"] = proc["start"]
      /\ "start" \notin Closers /\ "start" \notin Admins /\ Closers \cap Admins = {} /\ None \notin Procs
  BY <1>2, Others, Zenon DEF Moves
<1>5. /\ srv' \in [Servers -> ServerRecord] /\ srv'[s].mu = None /\ srv'[s].listener = None /\ srv'[s].rpc = srv[s].rpc
      /\ \A t \in Servers : t # s => srv'[t] = srv[t]
      /\ ~srv[s].rpc
  <2>1. srv[s] \in ServerRecord
    BY <1>0, <1>1, Zenon DEF Shape, ServerRecord
  <2>2. PICK h : h = ShutDown(srv[s])
    BY Zenon
  <2>3. h \in ServerRecord /\ h.mu = None /\ h.listener = None /\ h.rpc = srv[s].rpc
    BY <2>1, <2>2, Zenon DEF ShutDown, ServerRecord
  <2>4. srv' = [srv EXCEPT ![s] = h]
    BY <2>2, Zenon
  <2>5. /\ srv' \in [Servers -> ServerRecord] /\ srv'[s] = h
        /\ \A t \in Servers : t # s => srv'[t] = srv[t]
    BY <1>0, <1>1, <2>3, <2>4, OneServer, Zenon
  <2>6. ~srv[s].rpc
    BY <1>0, <1>1, Zenon DEF StopDrops
  <2> QED
    BY <2>3, <2>5, <2>6, Zenon
<1>6. \A q \in Procs : \A v : v # "shutdown" => (v \in Left(q)' <=> v \in Left(q))
  BY <1>4, Zenon
<1>7. "start" \in Procs /\ Admins \subseteq Procs /\ Closers \subseteq Procs
  BY Zenon DEF Procs
<1>8. /\ p \in Admins => Left(p) \subseteq Stopping
      /\ p \in Closers => Left(p) \subseteq Closing /\ "release" \in Left(p)
      /\ p = "start" => Left(p) \subseteq Closing \cup {"unlock"} /\ "release" \in Left(p)
  <2>1. p \in Admins => Left(p) \subseteq Stopping
    BY <1>0, <1>1, Zenon DEF JobWords, Calling
  <2>2. p \in Closers => Left(p) \subseteq Closing /\ "release" \in Left(p)
    BY <1>0, <1>1, Zenon DEF JobWords
  <2>3. p = "start" => Left(p) \subseteq Closing \cup {"unlock"} /\ "release" \in Left(p)
    BY <1>0, <1>1 DEF JobWords, Configuring
  <2> QED
    BY <2>1, <2>2, <2>3, Zenon
<1>9. \A a \in Admins : "start" \in Left(a) \/ "unlock" \in Left(a) => Left(a)' = Left(a) /\ proc'[a] = proc[a]
  BY <1>4, <1>8, Zenon DEF Stopping
<1>10. \A q \in Admins \cup {"start"} : "enable_rpc" \in Left(q) \/ "enable_ws" \in Left(q) => proc'[q] = proc[q]
  BY <1>4, <1>8 DEF Stopping, Closing
<1>11. Shape'
  BY <1>0, <1>1, <1>3, <1>4, <1>5, <1>6, <1>7 DEF Shape, ServerRecord
<1>12. Jobs'
  BY <1>1, <1>3, <1>4, <1>5, <1>6, <1>7, Zenon
<1>13. JobWords'
  BY <1>0, <1>4, <1>7, <1>8 DEF JobWords, Configuring, Closing, Stopping, Calling
<1>14. Held'
  <2>1. \A q \in Closers \cup {"start"} : Left(q)' = {} <=> Left(q) = {}
    BY <1>4, <1>7, <1>8
  <2>2. (\A q \in Closers \cup {"start"} : Left(q) # {} <=> startStopLock = q)'
    BY <1>0, <1>3, <2>1, Zenon DEF Held
  <2>3. (\A q \in Procs : "unlock" \in Left(q) <=> nodeLock = q)'
    BY <1>0, <1>3, <1>6, Zenon DEF Held
  <2>4. ASSUME NEW q \in Procs, NEW t \in Servers
        PROVE  srv'[t].mu = q <=> "shutdown" \in Left(q)' /\ proc'[q].on = t
    <3>1. srv[t].mu = q <=> "shutdown" \in Left(q) /\ proc[q].on = t
      BY <1>0, Zenon DEF Held
    <3>2. CASE q = p
      BY <1>1, <1>4, <1>5, <3>1, <3>2
    <3>3. CASE q # p
      <4>1. ~("shutdown" \in Left(q) /\ proc[q].on = s)
        BY <1>0, <1>1, <3>3, Zenon DEF Held
      <4> QED
        BY <1>1, <1>4, <1>5, <3>1, <3>3, <4>1
    <3> QED
      BY <3>2, <3>3, Zenon
  <2>5. ASSUME NEW q \in Procs, "shutdown" \in Left(q)'
        PROVE  proc'[q].on \in Servers
    <3>1. q # p
      BY <1>4, <2>5, Zenon
    <3> QED
      BY <1>0, <1>4, <2>5, <3>1 DEF Held
  <2> QED
    BY <2>2, <2>3, <2>4, <2>5, Zenon DEF Held
<1>15. OnServer'
  BY <1>0, <1>3, <1>6, <1>7, <1>9, <1>10, Zenon DEF OnServer
<1>16. StopDrops'
  <2>1. ASSUME NEW t \in Servers, srv'[t].mu # None
        PROVE  ~srv'[t].rpc
    BY <1>0, <1>5, <2>1, Zenon DEF StopDrops
  <2> QED
    BY <2>1, Zenon DEF StopDrops
<1>17. ListensAtEndpoint'
  <2>1. ASSUME NEW t \in Servers, srv'[t].listener # None
        PROVE  srv'[t].port = srv'[t].listener
    BY <1>0, <1>5, <2>1, Zenon DEF ListensAtEndpoint
  <2> QED
    BY <2>1, Zenon DEF ListensAtEndpoint
<1>18. Fresh'
  <2>1. "start_http" \notin Left("start")
    BY <1>0, <1>1, Zenon DEF Fresh
  <2>2. "enable_rpc" \notin Left("start") /\ "ipc" \notin Left("start") /\ "enable_ws" \notin Left("start")
    BY <1>0, <2>1 DEF JobWords, Configuring, Closing
  <2> QED
    BY <1>6, <1>7, <2>1, <2>2, Zenon DEF Fresh
<1>19. WillStart'
  <2>1. ASSUME ~late, NEW t \in Servers, srv'[t].rpc, srv'[t].listener = None
        PROVE  /\ srv'[t].port # None
               /\ \/ t = "http" /\ "start_http" \in Left("start")'
                  \/ \E a \in Admins : "start" \in Left(a)' /\ proc'[a].on = t /\ Left(a)' \subseteq {"start", "unlock"}
    <3>1. t # s /\ srv'[t] = srv[t]
      BY <1>5, <2>1, Zenon
    <3>2. /\ srv[t].port # None
          /\ \/ t = "http" /\ "start_http" \in Left("start")
             \/ \E a \in Admins : "start" \in Left(a) /\ proc[a].on = t /\ Left(a) \subseteq {"start", "unlock"}
      BY <1>0, <2>1, <3>1, Zenon DEF WillStart
    <3> QED
      BY <1>6, <1>7, <1>9, <3>1, <3>2, Zenon
  <2>2. ASSUME ~late, NEW q \in Admins \cup {"start"}, "enable_rpc" \in Left(q)', "http_addr" \notin Left(q)'
        PROVE  srv'["http"].port # None /\ srv'["http"].mu = None
    <3>1. "enable_rpc" \in Left(q) /\ "http_addr" \notin Left(q)
      BY <1>6, <1>7, <2>2, Zenon
    <3>2. srv["http"].port # None /\ srv["http"].mu = None /\ "http" \in Servers
      BY <1>0, <2>2, <3>1, Zenon DEF WillStart, Servers
    <3>3. s # "http"
      BY <1>1, <3>2, Zenon
    <3> QED
      BY <1>5, <3>2, <3>3, Zenon
  <2>3. late' = late
    BY <1>3, Zenon
  <2> QED
    BY <2>1, <2>2, <2>3 DEF WillStart
<1>20. Ended'
  <2> SUFFICES ASSUME NEW q \in Closers \cup {"start"}, "release" \in Left(q)'
               PROVE  /\ "stop_http" \in Left(q)' => "stop_ws" \in Left(q)'
                      /\ "stop_services" \notin Left(q)' => running = {}
                      /\ "stop_inproc" \notin Left(q)' => inproc # "registered"
                      /\ "stop_ipc" \notin Left(q)' => ~ipc
                      /\ "close_databases" \notin Left(q)' => state = "closed"
                      /\ ~late =>
                           /\ "stop_http" \notin Left(q)' => nodeLock \notin Admins
                           /\ "stop_http" \notin Left(q)' /\ srv'["http"].mu # q => srv'["http"].listener = None
                           /\ "stop_ws" \notin Left(q)' /\ srv'["ws"].mu # q => srv'["ws"].listener = None
    BY <1>3 DEF Ended
  <2>1. /\ srv'["http"].listener # None => srv'["http"] = srv["http"]
        /\ srv'["ws"].listener # None => srv'["ws"] = srv["ws"]
    BY <1>5, Zenon DEF Servers
  <2>2. \A v : v # "shutdown" => (v \in Left(q)' <=> v \in Left(q))
    BY <1>6, <1>7, Zenon
  <2> QED
    BY <1>0, <2>1, <2>2, Zenon DEF Ended
<1>21. Over'
  <2>1. state = "closed" => Left("start")' \subseteq {"release"}
    BY <1>0, <1>4, Zenon DEF Over
  <2>2. \A t \in Servers : srv'[t].listener # None => srv[t].listener = srv'[t].listener
    BY <1>5, Zenon
  <2> QED
    BY <1>0, <1>3, <2>1, <2>2 DEF Over
<1>22. Unstarted'
  <2>1. state # "initializing"
    <3>1. state = "initializing" => srv[s].mu = None
      BY <1>0, <1>1 DEF Unstarted, Off
    <3> QED
      BY <1>1, <3>1, Zenon
  <2> QED
    BY <1>3, <2>1, Zenon DEF Unstarted
<1> USE <1>0, <1>1, <1>3, <1>4, <1>5, <1>6, <1>7
<1>23. Lifecycles'
  BY Zenon DEF Lifecycles
<1> QED
  BY <1>11, <1>12, <1>13, <1>14, <1>15, <1>16, <1>17, <1>18, <1>19, <1>20, <1>21, <1>22, <1>23, Zenon DEF NodeInv

\* stopIPC, and the end of the in-process handler.
LEMMA StopOtherKeeps ==
  ASSUME NodeInv, NEW p \in Procs, NEW w \in {"stop_ipc", "stop_inproc"}, Now(p, w), Advance(p),
         ipc' = (ipc /\ w # "stop_ipc"), inproc' = IF w = "stop_inproc" THEN "stopped" ELSE inproc,
         UNCHANGED <<config, NodeState, nodeLock, srv, late>>
  PROVE  NodeInv'
<1>0. /\ Shape /\ Jobs /\ JobWords /\ Held /\ OnServer /\ StopDrops /\ ListensAtEndpoint /\ Fresh
      /\ WillStart /\ Ended /\ Over /\ Unstarted /\ Lifecycles
  BY Zenon DEF NodeInv
<1>1. /\ p \in Procs /\ w \in Left(p) /\ startStopLock = p /\ p \notin Admins /\ None \notin Procs /\ "shutdown" \notin Left(p)
      /\ p \in Closers \cup {"start"} /\ \A q \in Closers \cup {"start"} : q # p => Left(q) = {}
      /\ "release" \in Left(p) /\ "stop_http" \notin Left(p) /\ "stop_ws" \notin Left(p)
      /\ Left(p) \subseteq Closing \cup {"unlock"}
      /\ Left("start") \subseteq Closing \cup {"unlock"}
      /\ p \in Closers => Left(p) \subseteq Closing
  BY EndAt DEF Ends
<1>2. /\ Moves(p, Left(p) \ {w})
      /\ Left(p) \ {w} # {} => proc'[p].on = proc[p].on /\ proc'[p].port = proc[p].port
  BY <1>0, <1>1, Advanced, Zenon
<1>3. UNCHANGED <<config, state, startStopLock, running, tracked, closes,
         dirLocked, stopped, nodeLock, srv, late>>
  BY Zenon DEF NodeState
<1>4. /\ Left(p)' = Left(p) \ {w} /\ Jobs'
      /\ \A q \in Procs : q # p => Left(q)' = Left(q) /\ proc'[q] = proc[q]
      /\ \A c \in Closers : c # p => Left(c)' = Left(c) /\ proc'[c] = proc[c]
      /\ \A a \in Admins : a # p => Left(a)' = Left(a) /\ proc'[a] = proc[a]
      /\ p # "start" => Left("start")' = Left("start") /\ proc'["start"] = proc["start"]
      /\ "start" \notin Closers /\ "start" \notin Admins /\ Closers \cap Admins = {} /\ None \notin Procs
  BY <1>1, <1>2, Others, Zenon DEF Moves
<1>5. Jobs'
  BY <1>1, <1>3, <1>4, Zenon
<1>6. JobWords'
  BY <1>0, <1>1, <1>3, <1>4 DEF JobWords, Closing, Configuring
<1>7. Held'
  <2>1. /\ Left(p) \ {w} = {} <=> Left(p) = {}
        /\ "unlock" \in Left(p) \ {w} <=> "unlock" \in Left(p)
        /\ "shutdown" \notin Left(p) \ {w} /\ "shutdown" \notin Left(p)
    BY <1>1
  <2> QED
    BY <1>0, <1>1, <1>2, <1>3, <1>3, <2>1, HeldKept, Zenon
<1>8. OnServer'
  BY <1>0, <1>1, <1>3, <1>4 DEF OnServer, Closing
<1>9. Fresh'
  BY <1>0, <1>1, <1>3, <1>4 DEF Fresh, Closing
<1>10. Ended'
  <2>1. \A q \in Closers \cup {"start"} : q # p => Left(q)' = {}
    BY <1>1, <1>4, Zenon
  <2>2. \A v : v # w => (v \in Left(p)' <=> v \in Left(p))
    BY <1>4, Zenon
  <2>3. w = "stop_ipc" => ~ipc'
    BY Zenon
  <2>4. w = "stop_inproc" => inproc' # "registered"
    BY Zenon
  <2>5. (ipc' => ipc) /\ (inproc' = "registered" => inproc = "registered")
    BY Zenon
  <2> QED
    BY <1>0, <1>1, <1>3, <2>1, <2>2, <2>3, <2>4, <2>5 DEF Ended
<1>11. Over'
  <2>1. state = "closed" => Left("start")' \subseteq {"release"}
    BY <1>0, <1>1, <1>4, Zenon DEF Over
  <2>2. (ipc' => ipc) /\ (inproc' = "registered" => inproc = "registered")
    OBVIOUS
  <2> QED
    BY <1>0, <1>3, <2>1, <2>2 DEF Over
<1>12. Unstarted'
  <2>1. state # "initializing"
    BY <1>0, <1>1, Zenon DEF Unstarted
  <2> QED
    BY <1>3, <2>1, Zenon DEF Unstarted
<1>13. Lifecycles'
  BY <1>0, <1>1, <1>3, <1>4, Zenon DEF Lifecycles, Closing
<1> USE <1>0, <1>1, <1>3, <1>4
<1>14. Shape'
  BY DEF Shape
<1>15. StopDrops'
  BY Zenon DEF StopDrops
<1>16. ListensAtEndpoint'
  BY Zenon DEF ListensAtEndpoint
<1>17. WillStart'
  BY DEF WillStart
<1> QED
  BY <1>5, <1>6, <1>7, <1>8, <1>9, <1>10, <1>11, <1>12, <1>13, <1>14, <1>15, <1>16, <1>17, Zenon DEF NodeInv

\* All lifecycles are stopped.
LEMMA ServicesStoppedKeeps ==
  ASSUME NodeInv, NEW p \in Procs, NEW w, w = "stop_services", Now(p, w), Advance(p), running = {},
         UNCHANGED <<config, NodeState, nodeLock, Rpc, late>>
  PROVE  NodeInv'
<1>0. /\ Shape /\ Jobs /\ JobWords /\ Held /\ OnServer /\ StopDrops /\ ListensAtEndpoint /\ Fresh
      /\ WillStart /\ Ended /\ Over /\ Unstarted /\ Lifecycles
  BY Zenon DEF NodeInv
<1>1. /\ p \in Procs /\ w \in Left(p) /\ startStopLock = p /\ p \notin Admins /\ None \notin Procs /\ "shutdown" \notin Left(p)
      /\ p \in Closers \cup {"start"} /\ \A q \in Closers \cup {"start"} : q # p => Left(q) = {}
      /\ "release" \in Left(p) /\ "stop_http" \notin Left(p) /\ "stop_ws" \notin Left(p)
      /\ Left(p) \subseteq Closing \cup {"unlock"}
      /\ Left("start") \subseteq Closing \cup {"unlock"}
      /\ p \in Closers => Left(p) \subseteq Closing
      /\ \A v \in Left(p) : v # w => Rank(w) < Rank(v)
  BY EndAt, Zenon DEF Ends
<1>2. /\ Moves(p, Left(p) \ {w})
      /\ Left(p) \ {w} # {} => proc'[p].on = proc[p].on /\ proc'[p].port = proc[p].port
  BY <1>0, <1>1, Advanced, Zenon
<1>3. UNCHANGED <<config, state, startStopLock, running, tracked, closes,
         dirLocked, stopped, nodeLock, inproc, ipc, srv, late>>
  BY Zenon DEF NodeState, Rpc
<1>4. /\ Left(p)' = Left(p) \ {w} /\ Jobs'
      /\ \A q \in Procs : q # p => Left(q)' = Left(q) /\ proc'[q] = proc[q]
      /\ \A c \in Closers : c # p => Left(c)' = Left(c) /\ proc'[c] = proc[c]
      /\ \A a \in Admins : a # p => Left(a)' = Left(a) /\ proc'[a] = proc[a]
      /\ p # "start" => Left("start")' = Left("start") /\ proc'["start"] = proc["start"]
      /\ "start" \notin Closers /\ "start" \notin Admins /\ Closers \cap Admins = {} /\ None \notin Procs
  BY <1>1, <1>2, Others, Zenon DEF Moves
<1>5. Jobs'
  BY <1>1, <1>3, <1>4, Zenon
<1>6. JobWords'
  BY <1>0, <1>1, <1>3, <1>4 DEF JobWords, Closing, Configuring
<1>7. Held'
  <2>1. /\ Left(p) \ {w} = {} <=> Left(p) = {}
        /\ "unlock" \in Left(p) \ {w} <=> "unlock" \in Left(p)
        /\ "shutdown" \notin Left(p) \ {w} /\ "shutdown" \notin Left(p)
    BY <1>1
  <2> QED
    BY <1>0, <1>1, <1>2, <1>3, <1>3, <2>1, HeldKept, Zenon
<1>8. OnServer'
  BY <1>0, <1>1, <1>3, <1>4 DEF OnServer, Closing
<1>9. Fresh'
  BY <1>0, <1>1, <1>3, <1>4 DEF Fresh, Closing
<1>10. Ended'
  <2>1. \A q \in Closers \cup {"start"} : q # p => Left(q)' = {}
    BY <1>1, <1>4, Zenon
  <2>2. \A v : v # w => (v \in Left(p)' <=> v \in Left(p))
    BY <1>4, Zenon
  <2> QED
    BY <1>0, <1>1, <1>3, <2>1, <2>2 DEF Ended
<1>11. Lifecycles'
  BY <1>0, <1>1, <1>3, <1>4, Zenon DEF Lifecycles, Closing
<1> USE <1>0, <1>1, <1>3, <1>4
<1>12. Shape'
  BY DEF Shape
<1>13. StopDrops'
  BY Zenon DEF StopDrops
<1>14. ListensAtEndpoint'
  BY Zenon DEF ListensAtEndpoint
<1>15. WillStart'
  BY DEF WillStart
<1>16. Over'
  BY DEF Over
<1>17. Unstarted'
  BY Zenon DEF Unstarted
<1> QED
  BY <1>5, <1>6, <1>7, <1>8, <1>9, <1>10, <1>11, <1>12, <1>13, <1>14, <1>15, <1>16, <1>17, Zenon DEF NodeInv

\* The last lifecycle that runs is stopped; it closes its database or leaves that to the node.
LEMMA ServiceStopsKeeps ==
  ASSUME NodeInv, NEW p \in Procs, NEW w, w = "stop_services", Now(p, w), running # {},
         running' = running \ {NextToStop}, proc' = proc,
         \/ tracked' = tracked \ {NextToStop} /\ closes' = [closes EXCEPT ![NextToStop] = @ + 1]
         \/ UNCHANGED <<tracked, closes>>,
         UNCHANGED <<config, state, startStopLock, nodeLock, dirLocked, stopped, Rpc, late>>
  PROVE  NodeInv'
<1>0. /\ Shape /\ Jobs /\ JobWords /\ Held /\ OnServer /\ StopDrops /\ ListensAtEndpoint /\ Fresh
      /\ WillStart /\ Ended /\ Over /\ Unstarted /\ Lifecycles
  BY Zenon DEF NodeInv
<1>1. /\ p \in Procs /\ w \in Left(p) /\ startStopLock = p /\ p \notin Admins /\ None \notin Procs /\ "shutdown" \notin Left(p)
      /\ p \in Closers \cup {"start"} /\ \A q \in Closers \cup {"start"} : q # p => Left(q) = {}
      /\ "release" \in Left(p) /\ "stop_http" \notin Left(p) /\ "stop_ws" \notin Left(p)
      /\ Left(p) \subseteq Closing \cup {"unlock"}
      /\ Left("start") \subseteq Closing \cup {"unlock"}
      /\ p \in Closers => Left(p) \subseteq Closing
      /\ \A v \in Left(p) : v # w => Rank(w) < Rank(v)
  BY EndAt, Zenon DEF Ends
<1>2. \A q : Left(q)' = Left(q)
  BY Zenon DEF Left
<1>3. UNCHANGED <<config, state, startStopLock, nodeLock, dirLocked, stopped, inproc, ipc, srv, late>>
  BY Zenon DEF Rpc
<1>4. Jobs'
  BY <1>0, Zenon DEF Jobs
<1>5. state # "closed" /\ state # "initializing" /\ "services" \notin Left("start") /\ "unlock" \notin Left("start")
  BY <1>0, <1>1, Zenon DEF Over, Unstarted, Lifecycles, Closing
<1>6. Jobs'
  BY <1>4, Zenon
<1>7. Held'
  BY <1>0, <1>2, <1>3, Zenon DEF Held
<1>8. OnServer'
  BY <1>0, <1>2, <1>3, Zenon DEF OnServer
<1>9. WillStart'
  BY <1>0, <1>2, <1>3 DEF WillStart
<1>10. Ended'
  <2>1. running' = {} \/ "stop_services" \in Left(p)
    BY <1>1, Zenon
  <2>2. \A q \in Closers \cup {"start"} : q # p => Left(q) = {}
    BY <1>1, Zenon
  <2> QED
    BY <1>0, <1>1, <1>2, <1>3, <2>1, <2>2 DEF Ended
<1>11. Over'
  BY <1>0, <1>3, <1>5 DEF Over
<1>12. Unstarted'
  BY <1>3, <1>5, Zenon DEF Unstarted
<1>13. Lifecycles'
  <2>1. PICK k \in 0..Services : running = 1..k
    BY <1>0, Zenon DEF Lifecycles
  <2>2. k \in Nat /\ k >= 1 /\ k \in running /\ \A j \in running : j <= k
    BY <2>1, NodeAssumption
  <2>3. NextToStop = k
    <3>1. NextToStop \in running /\ \A j \in running : j <= NextToStop
      BY <2>2, Zenon DEF NextToStop
    <3> QED
      BY <2>1, <2>2, <3>1
  <2>4. running' = 1..(k - 1) /\ k - 1 \in 0..Services
    BY <2>1, <2>2, <2>3, NodeAssumption
  <2>5. running \subseteq tracked /\ tracked \subseteq 1..Services
    BY <1>0, Zenon DEF Lifecycles
  <2>6. closes = [i \in 1..Services |-> IF i \in tracked THEN 0 ELSE 1]
    BY <1>0, Zenon DEF Lifecycles
  <2>7. running' \subseteq tracked' /\ tracked' \subseteq 1..Services
    BY <2>2, <2>4, <2>5, <2>1, <2>3, Zenon
  <2>8. closes' = [i \in 1..Services |-> IF i \in tracked' THEN 0 ELSE 1]
    <3>1. CASE tracked' = tracked \ {k} /\ closes' = [closes EXCEPT ![k] = @ + 1]
      <4>1. k \in tracked /\ k \in 1..Services
        BY <2>2, <2>5, Zenon
      <4>2. closes \in [1..Services -> {0, 1}] /\ closes[k] = 0
        BY <2>6, <4>1, Zenon
      <4>3. closes' = [i \in 1..Services |-> IF i = k THEN 1 ELSE closes[i]]
        <5>1. closes[k] + 1 = 1
          BY <4>2
        <5>2. closes' = [closes EXCEPT ![k] = 1]
          BY <3>1, <5>1, Zenon
        <5> QED
          BY <4>1, <4>2, <5>2, Zenon
      <4>4. \A i \in 1..Services : closes[i] = IF i \in tracked THEN 0 ELSE 1
        BY <2>6, Zenon
      <4>5. \A i \in 1..Services : (IF i = k THEN 1 ELSE closes[i]) = (IF i \in tracked' THEN 0 ELSE 1)
        BY <3>1, <4>1, <4>4, Zenon
      <4> QED
        BY <4>3, <4>5, Zenon
    <3>2. CASE UNCHANGED <<tracked, closes>>
      BY <2>6, <3>2, Zenon
    <3> QED
      BY <2>3, <3>1, <3>2, Zenon
  <2>9. "services" \notin Left("start")' /\ "unlock" \notin Left("start")'
    BY <1>2, <1>5, Zenon
  <2> QED
    BY <2>4, <2>7, <2>8, <2>9, Zenon DEF Lifecycles
<1> USE <1>0, <1>1, <1>2, <1>3, <1>4
<1>14. Shape'
  BY DEF Shape
<1>15. JobWords'
  BY Zenon DEF JobWords
<1>16. StopDrops'
  BY Zenon DEF StopDrops
<1>17. ListensAtEndpoint'
  BY Zenon DEF ListensAtEndpoint
<1>18. Fresh'
  BY Zenon DEF Fresh
<1> QED
  BY <1>6, <1>7, <1>8, <1>9, <1>10, <1>11, <1>12, <1>13, <1>14, <1>15, <1>16, <1>17, <1>18, Zenon DEF NodeInv

\* The databases that are still open are closed.
LEMMA CloseDatabasesKeeps ==
  ASSUME NodeInv, NEW p \in Procs, NEW w, w = "close_databases", Now(p, w), Advance(p), nodeLock = None,
         state' = "closed", tracked' = {},
         closes' = [i \in 1..Services |-> IF i \in tracked THEN closes[i] + 1 ELSE closes[i]],
         UNCHANGED <<config, startStopLock, nodeLock, running, dirLocked, stopped, Rpc, late>>
  PROVE  NodeInv'
<1>0. /\ Shape /\ Jobs /\ JobWords /\ Held /\ OnServer /\ StopDrops /\ ListensAtEndpoint /\ Fresh
      /\ WillStart /\ Ended /\ Over /\ Unstarted /\ Lifecycles
  BY Zenon DEF NodeInv
<1>1. /\ p \in Procs /\ w \in Left(p) /\ startStopLock = p /\ p \notin Admins /\ None \notin Procs /\ "shutdown" \notin Left(p)
      /\ p \in Closers \cup {"start"} /\ \A q \in Closers \cup {"start"} : q # p => Left(q) = {}
      /\ "release" \in Left(p) /\ "stop_http" \notin Left(p) /\ "stop_ws" \notin Left(p)
      /\ Left(p) \subseteq Closing \cup {"unlock"}
      /\ Left("start") \subseteq Closing \cup {"unlock"}
      /\ p \in Closers => Left(p) \subseteq Closing
      /\ \A v \in Left(p) : v # w => Rank(w) < Rank(v)
  BY EndAt, Zenon DEF Ends
<1>2. /\ Moves(p, Left(p) \ {w})
      /\ Left(p) \ {w} # {} => proc'[p].on = proc[p].on /\ proc'[p].port = proc[p].port
  BY <1>0, <1>1, Advanced, Zenon
<1>3. UNCHANGED <<config, startStopLock, nodeLock, running, dirLocked, stopped, inproc, ipc, srv, late>>
  BY Zenon DEF Rpc
<1>4. /\ Left(p)' = Left(p) \ {w} /\ Jobs'
      /\ \A q \in Procs : q # p => Left(q)' = Left(q) /\ proc'[q] = proc[q]
      /\ \A c \in Closers : c # p => Left(c)' = Left(c) /\ proc'[c] = proc[c]
      /\ \A a \in Admins : a # p => Left(a)' = Left(a) /\ proc'[a] = proc[a]
      /\ p # "start" => Left("start")' = Left("start") /\ proc'["start"] = proc["start"]
      /\ "start" \notin Closers /\ "start" \notin Admins /\ Closers \cap Admins = {} /\ None \notin Procs
  BY <1>1, <1>2, Others, Zenon DEF Moves
<1>5. Left(p) = {"close_databases", "release"}
  <2>1. ASSUME NEW v \in Left(p), v \notin {"close_databases", "release"}
        PROVE  FALSE
    <3>1. v \in Closing \cup {"unlock"} /\ Rank("close_databases") < Rank(v)
      BY <1>1, <2>1, Zenon
    <3>2. /\ Rank("shutdown") = 0 /\ Rank("stop_http") = 10 /\ Rank("stop_ws") = 11 /\ Rank("stop_ipc") = 12
          /\ Rank("stop_inproc") = 13 /\ Rank("unlock") = 14 /\ Rank("stop_services") = 16
          /\ Rank("close_databases") = 17
      BY Zenon DEF Rank
    <3> QED
      BY <2>1, <3>1, <3>2 DEF Closing
  <2> QED
    BY <1>1, <2>1, Zenon
<1>6. /\ running = {} /\ inproc # "registered" /\ ~ipc
      /\ ~late => \A s \in Servers : srv[s].listener = None
  <2>1. srv["http"].mu # p /\ srv["ws"].mu # p
    BY <1>0, <1>1, Zenon DEF Held, Servers
  <2> QED
    BY <1>0, <1>1, <1>5, <2>1, Zenon DEF Ended, Servers
<1>7. Jobs'
  BY <1>1, <1>3, <1>4, <1>5, <1>6, Zenon
<1>8. JobWords'
  BY <1>0, <1>1, <1>3, <1>4, <1>5, <1>6 DEF JobWords, Closing, Configuring
<1>9. Held'
  <2>1. /\ Left(p) \ {w} = {} <=> Left(p) = {}
        /\ "unlock" \in Left(p) \ {w} <=> "unlock" \in Left(p)
        /\ "shutdown" \notin Left(p) \ {w} /\ "shutdown" \notin Left(p)
    BY <1>1
  <2> QED
    BY <1>0, <1>1, <1>2, <1>3, <1>3, <2>1, HeldKept, Zenon
<1>10. OnServer'
  BY <1>0, <1>1, <1>3, <1>4, <1>5, <1>6 DEF OnServer, Closing
<1>11. Fresh'
  BY <1>0, <1>1, <1>3, <1>4, <1>5, <1>6 DEF Fresh, Closing
<1>12. Ended'
  <2>1. \A q \in Closers \cup {"start"} : q # p => Left(q)' = {}
    BY <1>1, <1>4, Zenon
  <2>2. nodeLock \notin Admins
    BY <1>4, Zenon DEF Procs
  <2>3. "stop_http" \notin Left(p)'
    BY <1>4, <1>5, Zenon
  <2>4. "http" \in Servers /\ "ws" \in Servers
    BY Zenon DEF Servers
  <2> QED
    BY <1>3, <1>6, <2>1, <2>2, <2>3, <2>4 DEF Ended
<1>13. Over'
  <2>1. Left("start")' \subseteq {"release"}
    BY <1>1, <1>4, <1>5
  <2>2. nodeLock \notin Admins
    BY <1>4 DEF Procs
  <2> QED
    BY <1>3, <1>6, <2>1, <2>2 DEF Over
<1>14. Unstarted'
  BY Zenon DEF Unstarted
<1>15. Lifecycles'
  <2>1. closes' = [i \in 1..Services |-> IF i \in tracked' THEN 0 ELSE 1]
    BY <1>0 DEF Lifecycles
  <2>2. \E k \in 0..Services : running' = 1..k
    BY <1>0, <1>3, Zenon DEF Lifecycles
  <2>3. "services" \notin Left("start")' /\ "unlock" \notin Left("start")'
    BY <1>1, <1>4, <1>5
  <2> QED
    BY <1>3, <1>6, <2>1, <2>2, <2>3, Zenon DEF Lifecycles
<1> USE <1>0, <1>1, <1>3, <1>4, <1>5, <1>6
<1>16. Shape'
  BY DEF Shape
<1>17. StopDrops'
  BY Zenon DEF StopDrops
<1>18. ListensAtEndpoint'
  BY Zenon DEF ListensAtEndpoint
<1>19. WillStart'
  BY DEF WillStart
<1> QED
  BY <1>7, <1>8, <1>9, <1>10, <1>11, <1>12, <1>13, <1>14, <1>15, <1>16, <1>17, <1>18, <1>19, Zenon DEF NodeInv

\* The directory is released, and Wait returns.
LEMMA ReleaseKeeps ==
  ASSUME NodeInv, NEW p \in Procs, NEW w, w = "release", Now(p, w), Advance(p),
         dirLocked' = FALSE, stopped' = TRUE, startStopLock' = None,
         UNCHANGED <<config, state, nodeLock, running, tracked, closes, Rpc, late>>
  PROVE  NodeInv'
<1>0. /\ Shape /\ Jobs /\ JobWords /\ Held /\ OnServer /\ StopDrops /\ ListensAtEndpoint /\ Fresh
      /\ WillStart /\ Ended /\ Over /\ Unstarted /\ Lifecycles
  BY Zenon DEF NodeInv
<1>1. /\ p \in Procs /\ w \in Left(p) /\ startStopLock = p /\ p \notin Admins /\ None \notin Procs /\ "shutdown" \notin Left(p)
      /\ p \in Closers \cup {"start"} /\ \A q \in Closers \cup {"start"} : q # p => Left(q) = {}
      /\ "release" \in Left(p) /\ "stop_http" \notin Left(p) /\ "stop_ws" \notin Left(p)
      /\ Left(p) \subseteq Closing \cup {"unlock"}
      /\ Left("start") \subseteq Closing \cup {"unlock"}
      /\ p \in Closers => Left(p) \subseteq Closing
      /\ \A v \in Left(p) : v # w => Rank(w) < Rank(v)
  BY EndAt, Zenon DEF Ends
<1>2. Moves(p, Left(p) \ {w})
  BY <1>0, <1>1, Advanced, Zenon
<1>3. UNCHANGED <<config, state, nodeLock, running, tracked, closes, inproc, ipc, srv, late>>
  BY Zenon DEF Rpc
<1>4. Left(p) = {"release"}
  <2>1. ASSUME NEW v \in Left(p), v # "release"
        PROVE  FALSE
    <3>1. v \in Closing \cup {"unlock"} /\ Rank("release") < Rank(v)
      BY <1>1, <2>1, Zenon
    <3>2. /\ Rank("shutdown") = 0 /\ Rank("stop_http") = 10 /\ Rank("stop_ws") = 11 /\ Rank("stop_ipc") = 12
          /\ Rank("stop_inproc") = 13 /\ Rank("unlock") = 14 /\ Rank("stop_services") = 16
          /\ Rank("close_databases") = 17 /\ Rank("release") = 18
      BY Zenon DEF Rank
    <3> QED
      BY <2>1, <3>1, <3>2 DEF Closing
  <2> QED
    BY <1>1, <2>1, Zenon
<1>5. /\ Left(p)' = {} /\ Jobs'
      /\ \A q \in Procs : q # p => Left(q)' = Left(q) /\ proc'[q] = proc[q]
      /\ \A c \in Closers : c # p => Left(c)' = Left(c) /\ proc'[c] = proc[c]
      /\ \A a \in Admins : a # p => Left(a)' = Left(a) /\ proc'[a] = proc[a]
      /\ p # "start" => Left("start")' = Left("start") /\ proc'["start"] = proc["start"]
      /\ "start" \notin Closers /\ "start" \notin Admins /\ Closers \cap Admins = {} /\ None \notin Procs
  BY <1>1, <1>2, <1>4, Others, Zenon DEF Moves
<1>6. state = "closed"
  BY <1>0, <1>1, <1>4, Zenon DEF Ended
<1>7. \A q \in Closers \cup {"start"} : Left(q)' = {} /\ q # None
  BY <1>1, <1>5, Zenon DEF Procs
<1>8. Jobs'
  BY <1>1, <1>3, <1>4, <1>5, <1>6, <1>7, Zenon
<1>9. Held'
  <2>1. (\A q \in Procs : "unlock" \in Left(q) <=> nodeLock = q)'
    BY <1>0, <1>3, <1>4, <1>5 DEF Held
  <2>2. (\A q \in Procs, s \in Servers : srv[s].mu = q <=> "shutdown" \in Left(q) /\ proc[q].on = s)'
    BY <1>0, <1>3, <1>4, <1>5 DEF Held
  <2>3. (\A q \in Procs : "shutdown" \in Left(q) => proc[q].on \in Servers)'
    BY <1>0, <1>5 DEF Held
  <2> QED
    BY <1>7, <2>1, <2>2, <2>3, Zenon DEF Held
<1>10. Fresh'
  BY <1>0, <1>1, <1>3, <1>4, <1>5, <1>6, <1>7, Zenon DEF Fresh, Closing
<1>11. Ended'
  BY <1>7, Zenon DEF Ended
<1> USE <1>0, <1>1, <1>3, <1>4, <1>5, <1>6, <1>7
<1>12. Shape'
  BY DEF Shape
<1>13. JobWords'
  BY DEF JobWords
<1>14. OnServer'
  BY DEF OnServer
<1>15. StopDrops'
  BY Zenon DEF StopDrops
<1>16. ListensAtEndpoint'
  BY Zenon DEF ListensAtEndpoint
<1>17. WillStart'
  BY DEF WillStart
<1>18. Over'
  BY DEF Over
<1>19. Unstarted'
  BY Zenon DEF Unstarted
<1>20. Lifecycles'
  BY Zenon DEF Lifecycles
<1> QED
  BY <1>8, <1>9, <1>10, <1>11, <1>12, <1>13, <1>14, <1>15, <1>16, <1>17, <1>18, <1>19, <1>20, Zenon DEF NodeInv

\* Close of a node that is not closed.
LEMMA CloseBeginsKeeps ==
  ASSUME NodeInv, NEW c \in Closers, CloseBegins(c)
  PROVE  NodeInv'
<1>0. /\ Shape /\ Jobs /\ JobWords /\ Held /\ OnServer /\ StopDrops /\ ListensAtEndpoint /\ Fresh
      /\ WillStart /\ Ended /\ Over /\ Unstarted /\ Lifecycles
  BY Zenon DEF NodeInv
<1>1. /\ proc[c] = None /\ startStopLock = None /\ nodeLock = None /\ state # "closed" /\ startStopLock' = c
      /\ UNCHANGED <<config, state, nodeLock, running, tracked, closes, dirLocked, stopped, inproc, ipc, srv, late>>
  BY Zenon DEF CloseBegins, Rpc
<1>2. c \in Procs /\ Left(c) = {} /\ None \notin Procs /\ "start" \in Procs
  BY <1>1, NodeAssumption, Zenon DEF Procs, Left
<1>3. PICK L : /\ L = IF state = "running" THEN EndWords \cup {"stop_services"} ELSE {"close_databases", "release"}
               /\ Moves(c, L)
  <2>1. PICK s : s = CloseTodo
    BY Zenon
  <2>2. /\ s \in Seq(Words) /\ s # <<>> /\ Sorted(s)
        /\ WordsOf(s) = IF state = "running" THEN EndWords \cup {"stop_services"} ELSE {"close_databases", "release"}
    <3>1. CASE state = "running"
      BY <2>1, <3>1, Endings, Zenon DEF CloseTodo
    <3>2. CASE state # "running"
      <4>1. "close_databases" \in Words /\ "release" \in Words
        BY Zenon DEF Words
      <4>2. Rank("close_databases") < Rank("release")
        BY DEF Rank
      <4>3. s = <<"close_databases", "release">>
        BY <2>1, <3>2, Zenon DEF CloseTodo
      <4> QED
        BY <3>2, <4>1, <4>2, <4>3, ListTwo, Zenon
    <3> QED
      BY <3>1, <3>2, Zenon
  <2>3. PICK j : j = Job(s)
    BY Zenon
  <2>4. j \in JobRecord /\ j.todo = s
    BY <2>2, <2>3, Zenon DEF Job, JobRecord
  <2>5. proc' = [proc EXCEPT ![c] = j]
    BY <2>1, <2>3, Zenon DEF CloseBegins
  <2>6. Moves(c, WordsOf(s))
    BY <1>0, <1>2, <2>2, <2>4, <2>5, JobSet, Zenon
  <2> QED
    BY <2>2, <2>6, Zenon
<1>4. /\ Left(c)' = L /\ Jobs'
      /\ \A d \in Closers : d # c => Left(d)' = Left(d) /\ proc'[d] = proc[d]
      /\ \A b \in Admins : Left(b)' = Left(b) /\ proc'[b] = proc[b]
      /\ Left("start")' = Left("start") /\ proc'["start"] = proc["start"]
      /\ "start" \notin Closers /\ "start" \notin Admins /\ Closers \cap Admins = {} /\ None \notin Procs
      /\ \A q \in Procs : q # c => Left(q)' = Left(q) /\ proc'[q] = proc[q]
  BY <1>2, <1>3, Others, NodeAssumption DEF Moves
<1>5. /\ "release" \in L /\ "shutdown" \notin L /\ "unlock" \notin L /\ L \subseteq Closing
  BY <1>3, Zenon DEF EndWords, Closing
<1>6. \A q \in Closers \cup {"start"} : Left(q) = {} /\ (q # c => Left(q)' = {})
  <2>1. \A q \in Closers \cup {"start"} : Left(q) = {}
    BY <1>0, <1>1, <1>2 DEF Held, Procs
  <2> QED
    BY <1>4, <2>1, Zenon
<1>7. Shape'
  BY <1>0, <1>1, Zenon DEF Shape
<1>8. Jobs'
  BY <1>1, <1>2, <1>4, <1>5, <1>6, Zenon
<1>9. Held'
  <2>1. (\A q \in Closers \cup {"start"} : Left(q) # {} <=> startStopLock = q)'
    BY <1>1, <1>4, <1>5, <1>6, Zenon
  <2>2. \A q \in Procs : ("unlock" \in Left(q)' <=> "unlock" \in Left(q)) /\ ("shutdown" \in Left(q)' <=> "shutdown" \in Left(q))
    BY <1>2, <1>4, <1>5, Zenon
  <2>3. \A q \in Procs : "shutdown" \in Left(q) => proc'[q] = proc[q]
    BY <1>2, <1>4, Zenon
  <2>4. (\A q \in Procs : "unlock" \in Left(q) <=> nodeLock = q)'
    BY <1>0, <1>1, <2>2, Zenon DEF Held
  <2>5. (\A q \in Procs, s \in Servers : srv[s].mu = q <=> "shutdown" \in Left(q) /\ proc[q].on = s)'
    BY <1>0, <1>1, <2>2, <2>3 DEF Held
  <2>6. (\A q \in Procs : "shutdown" \in Left(q) => proc[q].on \in Servers)'
    BY <1>0, <2>2, <2>3, Zenon DEF Held
  <2> QED
    BY <2>1, <2>4, <2>5, <2>6, Zenon DEF Held
<1>10. Ended'
  <2>1. CASE state = "running"
    <3>1. /\ "stop_http" \in Left(c)' /\ "stop_ws" \in Left(c)' /\ "stop_services" \in Left(c)' /\ "stop_ipc" \in Left(c)'
          /\ "stop_inproc" \in Left(c)' /\ "close_databases" \in Left(c)'
      BY <1>3, <1>4, <2>1, Zenon DEF EndWords
    <3> QED
      BY <1>6, <3>1, Zenon DEF Ended
  <2>2. CASE state = "initializing"
    <3>1. "close_databases" \in Left(c)' /\ "stop_http" \notin Left(c)'
      BY <1>3, <1>4, <2>2
    <3>2. running' = {} /\ inproc' # "registered" /\ ~ipc' /\ nodeLock' \notin Admins
      BY <1>0, <1>1, <1>2, <2>2, Zenon DEF Unstarted, Procs
    <3>3. srv'["http"].listener = None /\ srv'["ws"].listener = None
      BY <1>0, <1>1, <2>2 DEF Unstarted, Off, Servers
    <3> QED
      BY <1>6, <3>1, <3>2, <3>3, Zenon DEF Ended
  <2> QED
    BY <1>0, <1>1, <2>1, <2>2, Zenon DEF Shape
<1>11. Unstarted'
  <2>1. ASSUME state = "initializing"
        PROVE  \A d \in Closers : Left(d)' \subseteq {"close_databases", "release"}
    BY <1>3, <1>4, <1>6, <2>1, Zenon
  <2> QED
    BY <1>0, <1>1, <1>4, <2>1, Zenon DEF Unstarted
<1> USE <1>0, <1>1, <1>2, <1>4, <1>5, <1>6
<1>12. JobWords'
  BY DEF JobWords
<1>13. OnServer'
  BY DEF OnServer
<1>14. StopDrops'
  BY Zenon DEF StopDrops
<1>15. ListensAtEndpoint'
  BY Zenon DEF ListensAtEndpoint
<1>16. Fresh'
  BY Zenon DEF Fresh
<1>17. WillStart'
  BY DEF WillStart
<1>18. Over'
  BY Zenon DEF Over
<1>19. Lifecycles'
  BY Zenon DEF Lifecycles
<1> QED
  BY <1>7, <1>8, <1>9, <1>10, <1>11, <1>12, <1>13, <1>14, <1>15, <1>16, <1>17, <1>18, <1>19, Zenon DEF NodeInv

\* StopRPC and StopWS are called.
LEMMA CallStopsKeeps ==
  ASSUME NodeInv, NEW a \in Admins, proc[a] = None, AdminStops(a)
  PROVE  NodeInv'
<1>0. /\ Shape /\ Jobs /\ JobWords /\ Held /\ OnServer /\ StopDrops /\ ListensAtEndpoint /\ Fresh
      /\ WillStart /\ Ended /\ Over /\ Unstarted /\ Lifecycles
  BY Zenon DEF NodeInv
<1>1. UNCHANGED <<config, state, startStopLock, running, tracked, closes, dirLocked, stopped, nodeLock, inproc, ipc, srv, late>>
  BY Zenon DEF AdminStops, NodeState, Rpc
<1>2. a \in Procs /\ Left(a) = {} /\ None \notin Procs /\ "start" \in Procs /\ Admins \subseteq Procs /\ Closers \subseteq Procs
  BY NodeAssumption, Zenon DEF Procs, Left
<1>3. PICK L : L \in {{"stop_http"}, {"stopWS", "stop_ws"}} /\ Moves(a, L)
  <2>1. PICK route \in Routes, todo \in {<<"stop_http">>, <<"stopWS", "stop_ws">>} :
          proc' = [proc EXCEPT ![a] = [Job(todo) EXCEPT !.route = route]]
    BY Zenon DEF AdminStops
  <2>2. /\ todo \in Seq(Words) /\ todo # <<>> /\ Sorted(todo)
        /\ WordsOf(todo) \in {{"stop_http"}, {"stopWS", "stop_ws"}}
    <3>1. "stop_http" \in Words /\ "stopWS" \in Words /\ "stop_ws" \in Words
      BY Zenon DEF Words
    <3>2. Rank("stopWS") < Rank("stop_ws")
      BY DEF Rank
    <3>3. CASE todo = <<"stop_http">>
      BY <3>1, <3>3, ListOne, Zenon
    <3>4. CASE todo = <<"stopWS", "stop_ws">>
      BY <3>1, <3>2, <3>4, ListTwo, Zenon
    <3> QED
      BY <3>3, <3>4, Zenon
  <2>3. PICK j : j = [Job(todo) EXCEPT !.route = route]
    BY Zenon
  <2>4. j \in JobRecord /\ j.todo = todo
    BY <2>2, <2>3, Zenon DEF Job, JobRecord
  <2>5. Moves(a, WordsOf(todo))
    <3>1. proc' = [proc EXCEPT ![a] = j]
      BY <2>1, <2>3, Zenon
    <3>2. Jobs /\ a \in Procs
      BY <1>0, <1>2, Zenon
    <3> QED
      BY <2>2, <2>4, <3>1, <3>2, JobSet, Zenon
  <2> QED
    BY <2>2, <2>5, Zenon
<1>4. /\ Left(a)' = L /\ Jobs'
      /\ \A c \in Closers : Left(c)' = Left(c) /\ proc'[c] = proc[c]
      /\ \A b \in Admins : b # a => Left(b)' = Left(b) /\ proc'[b] = proc[b]
      /\ Left("start")' = Left("start") /\ proc'["start"] = proc["start"]
      /\ "start" \notin Closers /\ "start" \notin Admins /\ Closers \cap Admins = {} /\ None \notin Procs
  BY <1>2, <1>3, Others, NodeAssumption, Zenon
<1>5. /\ L \subseteq Stopping /\ L # {} /\ "shutdown" \notin L /\ "unlock" \notin L /\ "start" \notin L
      /\ "enable_rpc" \notin L /\ "enable_ws" \notin L
  BY <1>3, Zenon DEF Stopping
<1>6. state # "initializing"
  <2>1. PICK route \in Routes : Reachable(route)
    BY Zenon DEF AdminStops
  <2>2. state = "initializing" => srv["http"].listener = None /\ inproc # "registered" /\ ~ipc
    BY <1>0 DEF Unstarted, Off, Servers
  <2> QED
    BY <2>1, <2>2, Zenon DEF Reachable
<1>7. \A q \in Procs : q # a => Left(q)' = Left(q) /\ proc'[q] = proc[q]
  BY <1>3, Zenon DEF Moves
<1>8. Jobs'
  BY <1>1, <1>2, <1>4, <1>5, <1>6, Zenon
<1>9. Held'
  <2>1. (\A q \in Closers \cup {"start"} : Left(q) # {} <=> startStopLock = q)'
    BY <1>0, <1>1, <1>4, Zenon DEF Held
  <2>2. (\A q \in Procs : "unlock" \in Left(q) <=> nodeLock = q)'
    BY <1>0, <1>1, <1>2, <1>4, <1>5, <1>7 DEF Held
  <2>3. (\A q \in Procs, s \in Servers : srv[s].mu = q <=> "shutdown" \in Left(q) /\ proc[q].on = s)'
    BY <1>0, <1>1, <1>2, <1>4, <1>5, <1>7 DEF Held
  <2>4. (\A q \in Procs : "shutdown" \in Left(q) => proc[q].on \in Servers)'
    BY <1>0, <1>4, <1>5, <1>7 DEF Held
  <2> QED
    BY <2>1, <2>2, <2>3, <2>4, Zenon DEF Held
<1>10. Ended'
  <2>1. \A p \in Closers \cup {"start"} : Left(p)' = Left(p)
    BY <1>4, Zenon
  <2> QED
    BY <1>0, <1>1, <2>1, EndedKept, Zenon
<1> USE <1>0, <1>1, <1>2, <1>4, <1>5, <1>6
<1>11. Shape'
  BY DEF Shape
<1>12. JobWords'
  BY DEF JobWords
<1>13. OnServer'
  BY DEF OnServer
<1>14. StopDrops'
  BY Zenon DEF StopDrops
<1>15. ListensAtEndpoint'
  BY Zenon DEF ListensAtEndpoint
<1>16. Fresh'
  BY Zenon DEF Fresh
<1>17. WillStart'
  BY DEF WillStart
<1>18. Over'
  BY Zenon DEF Over
<1>19. Unstarted'
  BY Zenon DEF Unstarted
<1>20. Lifecycles'
  BY Zenon DEF Lifecycles
<1> QED
  BY <1>8, <1>9, <1>10, <1>11, <1>12, <1>13, <1>14, <1>15, <1>16, <1>17, <1>18, <1>19, <1>20, Zenon DEF NodeInv

\* StartRPC and StartWS are called.
LEMMA CallStartsKeeps ==
  ASSUME NodeInv, NEW a \in Admins, proc[a] = None, AdminStarts(a)
  PROVE  NodeInv'
<1>0. /\ Shape /\ Jobs /\ JobWords /\ Held /\ OnServer /\ StopDrops /\ ListensAtEndpoint /\ Fresh
      /\ WillStart /\ Ended /\ Over /\ Unstarted /\ Lifecycles
  BY DEF NodeInv
<1>1. /\ nodeLock = None /\ nodeLock' = a /\ late' = (late \/ Ending)
      /\ UNCHANGED <<config, state, startStopLock, running, tracked, closes, dirLocked, stopped, inproc, ipc, srv>>
  BY Zenon DEF AdminStarts, NodeState, Rpc
<1>2. a \in Procs /\ Left(a) = {} /\ None \notin Procs /\ "start" \in Procs /\ Admins \subseteq Procs /\ Closers \subseteq Procs
  BY NodeAssumption DEF Procs, Left
<1>3. PICK L : /\ L \in {{"http_addr", "enable_rpc", "start", "unlock"}, {"ws_addr", "enable_ws", "start", "unlock"}}
               /\ Moves(a, L) /\ proc'[a].port \in AdminPorts
  <2>1. PICK port \in AdminPorts, route \in Routes,
             todo \in {<<"http_addr", "enable_rpc", "start", "unlock">>, <<"ws_addr", "enable_ws", "start", "unlock">>} :
          proc' = [proc EXCEPT ![a] = [Job(todo) EXCEPT !.port = port, !.route = route]]
    BY Zenon DEF AdminStarts
  <2>2. /\ todo \in Seq(Words) /\ todo # <<>> /\ Sorted(todo)
        /\ WordsOf(todo) \in {{"http_addr", "enable_rpc", "start", "unlock"}, {"ws_addr", "enable_ws", "start", "unlock"}}
    <3>1. /\ "http_addr" \in Words /\ "enable_rpc" \in Words /\ "start" \in Words /\ "unlock" \in Words
          /\ "ws_addr" \in Words /\ "enable_ws" \in Words
      BY Zenon DEF Words
    <3>2. /\ Rank("http_addr") = 3 /\ Rank("enable_rpc") = 4 /\ Rank("ws_addr") = 5 /\ Rank("enable_ws") = 6
          /\ Rank("start") = 7 /\ Rank("unlock") = 14
      BY Zenon DEF Rank
    <3>3. CASE todo = <<"http_addr", "enable_rpc", "start", "unlock">>
      BY <3>1, <3>2, <3>3, ListFour
    <3>4. CASE todo = <<"ws_addr", "enable_ws", "start", "unlock">>
      BY <3>1, <3>2, <3>4, ListFour
    <3> QED
      BY <3>3, <3>4, Zenon
  <2>3. PICK j : j = [Job(todo) EXCEPT !.port = port, !.route = route]
    BY Zenon
  <2>4. j \in JobRecord /\ j.todo = todo /\ j.port = port
    BY <2>2, <2>3, Zenon DEF Job, JobRecord
  <2>5. Moves(a, WordsOf(todo)) /\ proc'[a] = j
    <3>1. proc' = [proc EXCEPT ![a] = j]
      BY <2>1, <2>3, Zenon
    <3>2. Jobs /\ a \in Procs
      BY <1>0, <1>2, Zenon
    <3> QED
      BY <2>2, <2>4, <3>1, <3>2, JobSet, Zenon
  <2> QED
    BY <2>2, <2>4, <2>5, Zenon
<1>4. /\ Left(a)' = L /\ Jobs'
      /\ \A c \in Closers : Left(c)' = Left(c) /\ proc'[c] = proc[c]
      /\ \A b \in Admins : b # a => Left(b)' = Left(b) /\ proc'[b] = proc[b]
      /\ Left("start")' = Left("start") /\ proc'["start"] = proc["start"]
      /\ "start" \notin Closers /\ "start" \notin Admins /\ Closers \cap Admins = {} /\ None \notin Procs
  BY <1>2, <1>3, Others, NodeAssumption
<1>5. /\ "start" \in L /\ "unlock" \in L /\ L \subseteq Calling \cup {"unlock"} /\ "shutdown" \notin L
      /\ "enable_rpc" \in L => "ws_addr" \notin L /\ "enable_ws" \notin L /\ "http_addr" \in L
      /\ "enable_ws" \in L => "ws_addr" \in L
      /\ "http_addr" \in L \/ "ws_addr" \in L
  BY <1>3, Zenon DEF Calling
<1>6. state # "initializing"
  <2>1. PICK route \in Routes : Reachable(route)
    BY Zenon DEF AdminStarts
  <2>2. state = "initializing" => srv["http"].listener = None /\ inproc # "registered" /\ ~ipc
    BY <1>0 DEF Unstarted, Off, Servers
  <2> QED
    BY <2>1, <2>2 DEF Reachable
<1>7. \A q \in Procs : q # a => Left(q)' = Left(q) /\ proc'[q] = proc[q]
  BY <1>3, Zenon DEF Moves
<1>8. ~late' => /\ ~late /\ state # "closed"
                 /\ \A q \in Closers \cup {"start"} : "release" \notin Left(q)
  <2>1. ASSUME NEW q \in Closers \cup {"start"}, "close_databases" \in Left(q)
        PROVE  Ending
    BY <2>1, Zenon DEF Ending, Left, WordsOf
  <2>2. ASSUME NEW q \in Closers \cup {"start"}, "release" \in Left(q), "close_databases" \notin Left(q)
        PROVE  state = "closed"
    BY <1>0, <2>2, Zenon DEF Ended
  <2>3. state = "closed" => Ending
    BY Zenon DEF Ending
  <2> QED
    BY <1>1, <2>1, <2>2, <2>3, Zenon
<1>9. /\ \A b \in Admins : "unlock" \notin Left(b) /\ "start" \notin Left(b) /\ Left(b) \subseteq Stopping
      /\ "unlock" \notin Left("start") /\ Left("start") \cap Configuring = {}
  <2>1. \A q \in Procs : "unlock" \notin Left(q)
    BY <1>0, <1>1, <1>2 DEF Held
  <2> QED
    BY <1>0, <1>2, <2>1 DEF JobWords, Stopping, Configuring, Closing
<1>10. Jobs'
  BY <1>1, <1>2, <1>4, <1>5, <1>6, <1>8, Zenon
<1>11. JobWords'
  <2>1. /\ \A c \in Closers : Left(c)' # {} => Left(c)' \subseteq Closing /\ "release" \in Left(c)'
        /\ \A b \in Admins : b # a => Left(b)' \subseteq Stopping
    BY <1>0, <1>4, <1>9, Zenon DEF JobWords
  <2> QED
    BY <1>0, <1>4, <1>5, <2>1 DEF JobWords
<1>12. Held'
  <2>1. (\A q \in Closers \cup {"start"} : Left(q) # {} <=> startStopLock = q)'
    BY <1>0, <1>1, <1>4, Zenon DEF Held
  <2>2. \A q \in Procs : "unlock" \notin Left(q)
    BY <1>0, <1>1, <1>2 DEF Held
  <2>3. (\A q \in Procs : "unlock" \in Left(q) <=> nodeLock = q)'
    BY <1>1, <1>4, <1>5, <1>7, <2>2, Zenon
  <2>4. (\A q \in Procs, s \in Servers : srv[s].mu = q <=> "shutdown" \in Left(q) /\ proc[q].on = s)'
    BY <1>0, <1>1, <1>2, <1>4, <1>5, <1>7 DEF Held
  <2>5. (\A q \in Procs : "shutdown" \in Left(q) => proc[q].on \in Servers)'
    BY <1>0, <1>4, <1>5, <1>7 DEF Held
  <2> QED
    BY <2>1, <2>3, <2>4, <2>5 DEF Held
<1>13. OnServer'
  <2>1. \A b \in Admins : b # a => /\ "enable_rpc" \notin Left(b)' /\ "enable_ws" \notin Left(b)'
                                   /\ "start" \notin Left(b)' /\ "unlock" \notin Left(b)'
    BY <1>4, <1>9 DEF Stopping
  <2>2. "enable_rpc" \notin Left("start")' /\ "enable_ws" \notin Left("start")'
    BY <1>4, <1>9, Zenon DEF Configuring
  <2>3. ("http_addr" \in Left("start") => config.http # None)' /\ ("ws_addr" \in Left("start") => config.ws # None)'
    BY <1>0, <1>1, <1>4, Zenon DEF OnServer
  <2>4. /\ "enable_rpc" \in Left(a)' => "http_addr" \in Left(a)'
        /\ "enable_ws" \in Left(a)' => "ws_addr" \in Left(a)'
        /\ "http_addr" \in Left(a)' \/ "ws_addr" \in Left(a)'
    BY <1>4, <1>5, Zenon
  <2> QED
    BY <1>3, <2>1, <2>2, <2>3, <2>4, Zenon DEF OnServer
<1>14. WillStart'
  <2>1. ASSUME ~late', NEW t \in Servers, srv'[t].rpc, srv'[t].listener = None
        PROVE  FALSE
    BY <1>0, <1>1, <1>8, <1>9, <2>1, Zenon DEF WillStart, Configuring
  <2>2. \A q \in Admins \cup {"start"} : "enable_rpc" \in Left(q)' => "http_addr" \in Left(q)'
    BY <1>4, <1>5, <1>9 DEF Stopping, Configuring
  <2> QED
    BY <2>1, <2>2, Zenon DEF WillStart
<1>15. Ended'
  <2>1. \A p \in Closers \cup {"start"} : Left(p)' = Left(p)
    BY <1>4
  <2>2. CASE late'
    BY <1>0, <1>1, <2>1, <2>2, Zenon DEF Ended
  <2>3. CASE ~late'
    BY <1>8, <2>1, <2>3, Zenon DEF Ended
  <2> QED
    BY <2>2, <2>3, Zenon
<1> USE <1>0, <1>1, <1>2, <1>4, <1>5, <1>6, <1>8
<1>16. Shape'
  BY Zenon DEF Shape
<1>17. StopDrops'
  BY Zenon DEF StopDrops
<1>18. ListensAtEndpoint'
  BY Zenon DEF ListensAtEndpoint
<1>19. Fresh'
  BY Zenon DEF Fresh
<1>20. Over'
  BY Zenon DEF Over
<1>21. Unstarted'
  BY Zenon DEF Unstarted
<1>22. Lifecycles'
  BY Zenon DEF Lifecycles
<1> QED
  BY <1>10, <1>11, <1>12, <1>13, <1>14, <1>15, <1>16, <1>17, <1>18, <1>19, <1>20, <1>21, <1>22, Zenon DEF NodeInv

\* Start of a node that nobody has started.
LEMMA StartBeginsKeeps ==
  ASSUME NodeInv, StartBegins
  PROVE  NodeInv'
<1>0. /\ Shape /\ Jobs /\ JobWords /\ Held /\ OnServer /\ StopDrops /\ ListensAtEndpoint /\ Fresh
      /\ WillStart /\ Ended /\ Over /\ Unstarted /\ Lifecycles
  BY Zenon DEF NodeInv
<1>1. /\ startStopLock = None /\ nodeLock = None /\ state = "initializing" /\ proc["start"] = None
      /\ state' = "running" /\ startStopLock' = "start" /\ nodeLock' = "start"
      /\ UNCHANGED <<config, running, tracked, closes, dirLocked, stopped, inproc, ipc, srv, late>>
  BY Zenon DEF StartBegins, Rpc
<1>2. PICK L : /\ Moves("start", L) /\ L \subseteq Configuring \cup {"unlock", "services"}
               /\ {"start_http", "unlock", "services"} \subseteq L
               /\ "http_addr" \in L => config.http # None
               /\ "ws_addr" \in L => config.ws # None
               /\ "enable_rpc" \in L => "http_addr" \in L
               /\ "enable_ws" \in L => "ws_addr" \in L
  <2>1. PICK A, B : /\ A = IF config.http = None THEN <<>> ELSE <<"http_addr", "enable_rpc">>
                    /\ B = IF config.ws = None THEN <<>> ELSE <<"ws_addr", "enable_ws">>
    BY Zenon
  <2>2. PICK s : s = ((<<"inproc", "ipc">> \o A) \o B) \o <<"start_http", "start_ws", "unlock", "services">>
    BY Zenon
  <2>3. PICK j : j = Job(s)
    BY Zenon
  <2>4. proc' = [proc EXCEPT !["start"] = j]
    BY <2>1, <2>2, <2>3, Zenon DEF StartBegins
  <2>5. /\ s \in Seq(Words) /\ s # <<>> /\ Sorted(s)
        /\ WordsOf(s) = {"inproc", "ipc", "start_http", "start_ws", "unlock", "services"}
             \cup (IF config.http = None THEN {} ELSE {"http_addr", "enable_rpc"})
             \cup (IF config.ws = None THEN {} ELSE {"ws_addr", "enable_ws"})
    BY <2>1, <2>2, StartTodo, Zenon
  <2>6. j \in JobRecord /\ j.todo = s
    BY <2>3, <2>5, Zenon DEF Job, JobRecord
  <2>7. "start" \in Procs
    BY Zenon DEF Procs
  <2>8. Moves("start", WordsOf(s))
    BY <1>0, <2>4, <2>5, <2>6, <2>7, JobSet, Zenon
  <2>9. /\ WordsOf(s) \subseteq Configuring \cup {"unlock", "services"}
        /\ {"start_http", "unlock", "services"} \subseteq WordsOf(s)
        /\ "http_addr" \in WordsOf(s) => config.http # None
        /\ "ws_addr" \in WordsOf(s) => config.ws # None
        /\ "enable_rpc" \in WordsOf(s) => "http_addr" \in WordsOf(s)
        /\ "enable_ws" \in WordsOf(s) => "ws_addr" \in WordsOf(s)
    BY <2>5, Zenon DEF Configuring
  <2> QED
    BY <2>8, <2>9, Zenon
<1>3. "start" \in Procs /\ Admins \subseteq Procs /\ Closers \subseteq Procs
  BY Zenon DEF Procs
<1>4. /\ Left("start")' = L /\ Jobs' /\ "start" \in Procs
      /\ \A c \in Closers : Left(c)' = Left(c) /\ proc'[c] = proc[c]
      /\ \A a \in Admins : Left(a)' = Left(a) /\ proc'[a] = proc[a]
      /\ "start" \notin Closers /\ "start" \notin Admins /\ None \notin Procs
  BY <1>2, <1>3, Others, Zenon
<1>5. /\ \A c \in Closers : Left(c) = {} /\ c # "start"
      /\ \A a \in Admins : Left(a) = {} /\ a # "start"
  BY <1>0, <1>1, <1>3, <1>4 DEF Held, Unstarted
<1>6. /\ \A s \in Servers : srv[s].mu = None /\ srv[s].listener = None /\ ~srv[s].rpc /\ ~srv[s].ws
      /\ running = {} /\ tracked = 1..Services
  BY <1>0, <1>1 DEF Unstarted, Off
<1>7. /\ "release" \notin L /\ "shutdown" \notin L /\ "unlock" \in L /\ "services" \in L /\ "start_http" \in L
  BY <1>2, Zenon DEF Configuring
<1>8. /\ \A c \in Closers : Left(c)' = {}
      /\ \A a \in Admins : Left(a)' = {}
  BY <1>4, <1>5, Zenon
<1>9. Jobs'
  BY <1>1, <1>2, <1>3, <1>4, <1>6, <1>7, <1>8, Zenon
<1>10. Held'
  <2>1. (\A q \in Closers \cup {"start"} : Left(q) # {} <=> startStopLock = q)'
    BY <1>1, <1>4, <1>5, <1>7, <1>8, Zenon
  <2>2. (\A q \in Procs : "unlock" \in Left(q) <=> nodeLock = q)'
    BY <1>1, <1>4, <1>5, <1>7, <1>8, Zenon DEF Procs
  <2>3. \A q \in Procs : "shutdown" \notin Left(q)'
    BY <1>4, <1>7, <1>8, Zenon DEF Procs
  <2>4. \A s \in Servers : srv'[s].mu \notin Procs
    BY <1>1, <1>4, <1>6, Zenon
  <2> QED
    BY <2>1, <2>2, <2>3, <2>4, Zenon DEF Held
<1>11. OnServer'
  BY <1>1, <1>2, <1>4, <1>8, Zenon DEF OnServer
<1>12. WillStart'
  <2>1. \A p \in Admins \cup {"start"} : "enable_rpc" \in Left(p)' => "http_addr" \in Left(p)'
    BY <1>2, <1>4, <1>8, Zenon
  <2> QED
    BY <1>1, <1>6, <2>1, Zenon DEF WillStart
<1>13. Ended'
  BY <1>4, <1>7, <1>8, Zenon DEF Ended
<1>14. Over'
  BY <1>0, <1>1, Zenon DEF Over
<1>15. Unstarted'
  BY <1>1, Zenon DEF Unstarted
<1> USE <1>0, <1>1, <1>2, <1>3, <1>4, <1>6, <1>7, <1>8
<1>16. Shape'
  BY Zenon DEF Shape
<1>17. JobWords'
  BY Zenon DEF JobWords
<1>18. StopDrops'
  BY Zenon DEF StopDrops
<1>19. ListensAtEndpoint'
  BY Zenon DEF ListensAtEndpoint
<1>20. Fresh'
  BY Zenon DEF Fresh
<1>21. Lifecycles'
  BY Zenon DEF Lifecycles
<1> QED
  BY <1>9, <1>10, <1>11, <1>12, <1>13, <1>14, <1>15, <1>16, <1>17, <1>18, <1>19, <1>20, <1>21, Zenon DEF NodeInv

\* A new node.
LEMMA NodeInitially == NodeInit => NodeInv
<1> SUFFICES ASSUME NodeInit
             PROVE  NodeInv
  BY Zenon
<1>1. \A p \in Procs : proc[p] = None /\ Left(p) = {}
  BY Zenon DEF NodeInit, Left
<1>2. /\ config \in [http : {None, 1}, ws : {None, 1, 2}] /\ state = "initializing" /\ startStopLock = None
      /\ nodeLock = None /\ running = {} /\ tracked = 1..Services /\ dirLocked = TRUE /\ stopped = FALSE
      /\ inproc = "new" /\ ipc = FALSE /\ late = FALSE
  BY Zenon DEF NodeInit
<1>3. "start" \in Procs /\ Closers \subseteq Procs /\ Admins \subseteq Procs /\ None \notin Procs
  BY NodeAssumption, Zenon DEF Procs
<1>4. /\ srv \in [Servers -> ServerRecord]
      /\ \A s \in Servers : /\ srv[s] = Off /\ srv[s].mu = None /\ srv[s].port = None /\ srv[s].listener = None
                            /\ ~srv[s].rpc /\ ~srv[s].ws
  <2>1. Off \in ServerRecord /\ Off.mu = None /\ Off.port = None /\ Off.listener = None /\ ~Off.rpc /\ ~Off.ws
    BY Zenon DEF Off, ServerRecord
  <2> QED
    BY <2>1, Zenon DEF NodeInit
<1>5. Shape
  BY <1>2, <1>4, Zenon DEF Shape, ServerRecord
<1>6. Jobs
  BY <1>1, Zenon DEF Jobs, NodeInit
<1>7. JobWords
  BY <1>1, <1>3, Zenon DEF JobWords
<1>8. Held
  BY <1>1, <1>2, <1>3, <1>4 DEF Held
<1>9. OnServer
  BY <1>1, <1>3, Zenon DEF OnServer
<1>10. StopDrops /\ ListensAtEndpoint
  BY <1>4, Zenon DEF StopDrops, ListensAtEndpoint
<1>11. Fresh
  BY <1>1, <1>3, Zenon DEF Fresh
<1>12. WillStart
  BY <1>1, <1>3, <1>4, Zenon DEF WillStart
<1>13. Ended
  BY <1>1, <1>3, Zenon DEF Ended
<1>14. Over
  BY <1>2, Zenon DEF Over
<1>15. Unstarted
  BY <1>1, <1>2, <1>3, <1>4, Zenon DEF Unstarted
<1>16. Lifecycles
  <2>1. running = 1..0 /\ 0 \in 0..Services
    BY <1>2, NodeAssumption
  <2>2. closes = [i \in 1..Services |-> IF i \in tracked THEN 0 ELSE 1]
    BY <1>2, Zenon DEF NodeInit
  <2> QED
    BY <1>1, <1>2, <1>3, <2>1, <2>2, Zenon DEF Lifecycles
<1> QED
  BY <1>5, <1>6, <1>7, <1>8, <1>9, <1>10, <1>11, <1>12, <1>13, <1>14, <1>15, <1>16, Zenon DEF NodeInv

------------------------------------------------------------------------------
(* The actions, from their parts. *)

\* A server is stopped.
LEMMA StopServerStep ==
  ASSUME NodeInv, NEW p \in Procs, StopServer(p)
  PROVE  NodeInv'
<1>1. PICK w \in {"stop_http", "stop_ws"} : Now(p, w) /\ BeginStop(p, IF w = "stop_ws" THEN "ws" ELSE "http")
  BY Zenon DEF StopServer
<1>2. PICK s : s = IF w = "stop_ws" THEN "ws" ELSE "http"
  BY Zenon
<1>3. s \in Servers /\ BeginStop(p, s) /\ w \in {"stop_http", "stop_ws", "stopWS"}
  BY <1>1, <1>2, Zenon DEF Servers
<1>4. late' = (late \/ Overlaps) /\ UNCHANGED <<config, NodeState, nodeLock, inproc, ipc>>
  BY Zenon DEF StopServer
<1>5. CASE srv[s].listener = None
  <2>1. Advance(p) /\ srv' = srv
    BY <1>3, <1>5, Zenon DEF BeginStop
  <2>2. (w = "stop_http" => srv["http"].listener = None) /\ (w = "stop_ws" => srv["ws"].listener = None)
    BY <1>2, <1>5, Zenon
  <2> QED
    BY <1>1, <1>3, <1>4, <2>1, <2>2, StoppedKeeps, Zenon
<1>6. CASE srv[s].listener # None
  <2>1. PICK h : h = [Dropped(srv[s]) EXCEPT !.mu = p]
    BY Zenon
  <2>2. srv[s].mu = None /\ srv' = [srv EXCEPT ![s] = h] /\ Begins(p, s)
    BY <1>3, <1>6, <2>1, Zenon DEF BeginStop, Begins
  <2>3. srv[s] \in ServerRecord
    BY <1>3, Zenon DEF NodeInv, Shape, ServerRecord
  <2>4. h \in ServerRecord /\ h.mu = p /\ ~h.rpc /\ h.port = srv[s].port /\ h.listener = srv[s].listener
    <3>1. CASE srv[s].rpc
      <4>1. Dropped(srv[s]) = [srv[s] EXCEPT !.rpc = FALSE, !.ws = FALSE]
        BY <3>1, Zenon DEF Dropped
      <4> QED
        BY <2>1, <2>3, <4>1, Zenon DEF ServerRecord
    <3>2. CASE ~srv[s].rpc
      <4>1. Dropped(srv[s]) = srv[s]
        BY <3>2, Zenon DEF Dropped
      <4> QED
        BY <2>1, <2>3, <3>2, <4>1, Zenon DEF ServerRecord
    <3> QED
      BY <3>1, <3>2, Zenon
  <2>5. Now(p, w)
    BY <1>1, Zenon
  <2> QED
    BY <1>2, <1>3, <1>4, <1>6, <2>2, <2>4, <2>5, StopBeginsKeeps, Zenon
<1> QED
  BY <1>5, <1>6, Zenon

\* stopWS.
LEMMA StopWSHandlerStep ==
  ASSUME NodeInv, NEW p \in Procs, StopWSHandler(p)
  PROVE  NodeInv'
<1>1. /\ Now(p, "stopWS") /\ srv["http"].mu = None
      /\ late' = (late \/ Overlaps) /\ UNCHANGED <<config, NodeState, nodeLock, inproc, ipc>>
  BY Zenon DEF StopWSHandler
<1>2. PICK w, s : w = "stopWS" /\ s = "http"
  BY Zenon
<1>3. s = (IF w = "stop_ws" THEN "ws" ELSE "http") /\ s \in Servers /\ w \in {"stop_http", "stop_ws", "stopWS"} /\ Now(p, w)
  BY <1>1, <1>2, Zenon DEF Servers
<1>4. CASE srv["http"].ws /\ ~srv["http"].rpc /\ srv["http"].listener # None
  <2>1. PICK h : h = [srv[s] EXCEPT !.ws = FALSE, !.mu = p]
    BY Zenon
  <2>2. srv[s].mu = None /\ srv' = [srv EXCEPT ![s] = h] /\ Begins(p, s)
    BY <1>1, <1>2, <1>4, <2>1, Zenon DEF StopWSHandler, Begins
  <2>3. srv[s] \in ServerRecord
    BY <1>3, Zenon DEF NodeInv, Shape, ServerRecord
  <2>4. h \in ServerRecord /\ h.mu = p /\ ~h.rpc /\ h.port = srv[s].port /\ h.listener = srv[s].listener
    BY <1>2, <1>4, <2>1, <2>3, Zenon DEF ServerRecord
  <2>5. srv[s].listener # None
    BY <1>2, <1>4, Zenon
  <2> QED
    BY <1>1, <1>3, <2>2, <2>4, <2>5, StopBeginsKeeps, Zenon
<1>5. CASE ~(srv["http"].ws /\ ~srv["http"].rpc /\ srv["http"].listener # None)
  <2>1. srv' = [srv EXCEPT !["http"].ws = FALSE] /\ Advance(p)
    BY <1>5, Zenon DEF StopWSHandler
  <2>2. w # "stop_http" /\ w # "stop_ws" /\ w = "stopWS"
    BY <1>2, Zenon
  <2> QED
    BY <1>1, <1>3, <2>1, <2>2, StoppedKeeps, Zenon
<1> QED
  BY <1>4, <1>5, Zenon

\* The rest of doStop.
LEMMA ShutdownStep ==
  ASSUME NodeInv, NEW p \in Procs, Shutdown(p)
  PROVE  NodeInv'
<1>1. PICK w, s : w = "shutdown" /\ s = proc[p].on
  BY Zenon
<1>2. /\ Now(p, w) /\ Advance(p) /\ srv' = [srv EXCEPT ![s] = ShutDown(@)]
      /\ UNCHANGED <<config, NodeState, nodeLock, inproc, ipc, late>>
  BY <1>1, Zenon DEF Shutdown
<1> QED
  BY <1>1, <1>2, ShutdownKeeps, Zenon

\* The end of the inter-process and the in-process endpoints.
LEMMA StopOtherStep ==
  ASSUME NodeInv, NEW p \in Procs, StopOther(p)
  PROVE  NodeInv'
<1>1. PICK w \in {"stop_ipc", "stop_inproc"} :
        /\ Now(p, w)
        /\ \/ w = "stop_ipc" /\ ipc' = FALSE /\ UNCHANGED inproc
           \/ w = "stop_inproc" /\ inproc' = "stopped" /\ UNCHANGED ipc
  BY Zenon DEF StopOther
<1>2. Advance(p) /\ UNCHANGED <<config, NodeState, nodeLock, srv, late>>
  BY Zenon DEF StopOther
<1>3. ipc \in BOOLEAN
  BY Zenon DEF NodeInv, Shape
<1>4. ipc' = (ipc /\ w # "stop_ipc") /\ inproc' = IF w = "stop_inproc" THEN "stopped" ELSE inproc
  <2>1. CASE w = "stop_ipc"
    BY <1>1, <1>3, <2>1, Zenon
  <2>2. CASE w = "stop_inproc"
    BY <1>1, <1>3, <2>2, Zenon
  <2> QED
    BY <2>1, <2>2, Zenon
<1> QED
  BY <1>1, <1>2, <1>4, StopOtherKeeps, Zenon

\* The end of a lifecycle.
LEMMA StopServiceStep ==
  ASSUME NodeInv, NEW p \in Procs, StopService(p)
  PROVE  NodeInv'
<1>1. PICK w : w = "stop_services"
  BY Zenon
<1>2. Now(p, w) /\ UNCHANGED <<config, state, startStopLock, nodeLock, dirLocked, stopped, Rpc, late>>
  BY <1>1, Zenon DEF StopService
<1>3. CASE running = {}
  <2>1. Advance(p) /\ UNCHANGED <<config, NodeState, nodeLock, Rpc, late>>
    BY <1>2, <1>3, Zenon DEF StopService, NodeState
  <2> QED
    BY <1>1, <1>2, <1>3, <2>1, ServicesStoppedKeeps, Zenon
<1>4. CASE running # {}
  <2>1. running' = running \ {NextToStop} /\ proc' = proc
    BY <1>4, Zenon DEF StopService
  <2>2. \/ tracked' = tracked \ {NextToStop} /\ closes' = [closes EXCEPT ![NextToStop] = @ + 1]
        \/ UNCHANGED <<tracked, closes>>
    BY <1>4, Zenon DEF StopService, Untrack
  <2> QED
    BY <1>1, <1>2, <1>4, <2>1, <2>2, ServiceStopsKeeps, Zenon
<1> QED
  BY <1>3, <1>4, Zenon

\* The two parts of doClose.
LEMMA DoCloseStep ==
  ASSUME NodeInv, NEW p \in Procs, CloseDatabases(p) \/ Release(p)
  PROVE  NodeInv'
<1>1. CASE CloseDatabases(p)
  <2>1. PICK w : w = "close_databases"
    BY Zenon
  <2>2. /\ Now(p, w) /\ Advance(p) /\ nodeLock = None /\ state' = "closed" /\ tracked' = {}
        /\ closes' = [i \in 1..Services |-> IF i \in tracked THEN closes[i] + 1 ELSE closes[i]]
        /\ UNCHANGED <<config, startStopLock, nodeLock, running, dirLocked, stopped, Rpc, late>>
    BY <1>1, <2>1, Zenon DEF CloseDatabases
  <2> QED
    BY <2>1, <2>2, CloseDatabasesKeeps, Zenon
<1>2. CASE Release(p)
  <2>1. PICK w : w = "release"
    BY Zenon
  <2>2. /\ Now(p, w) /\ Advance(p) /\ dirLocked' = FALSE /\ stopped' = TRUE /\ startStopLock' = None
        /\ UNCHANGED <<config, state, nodeLock, running, tracked, closes, Rpc, late>>
    BY <1>2, <2>1, Zenon DEF Release
  <2> QED
    BY <2>1, <2>2, ReleaseKeeps, Zenon
<1> QED
  BY <1>1, <1>2, Zenon

\* The steps that every goroutine takes.
LEMMA StepKeeps ==
  ASSUME NodeInv, NEW p \in Procs, Step(p)
  PROVE  NodeInv'
<1>1. CASE SetListenAddr(p)
  BY <1>1, SetListenAddrStep, Zenon
<1>2. CASE Enable(p)
  BY <1>2, EnableStep
<1>3. CASE StartServer(p)
  BY <1>3, StartServerStep
<1>4. CASE Unlock(p)
  BY <1>4, UnlockStep
<1>5. CASE StopServer(p)
  BY <1>5, StopServerStep
<1>6. CASE StopWSHandler(p)
  BY <1>6, StopWSHandlerStep
<1>7. CASE Shutdown(p)
  BY <1>7, ShutdownStep
<1>8. CASE StopOther(p)
  BY <1>8, StopOtherStep
<1>9. CASE StopService(p)
  BY <1>9, StopServiceStep
<1>10. CASE CloseDatabases(p) \/ Release(p)
  BY <1>10, DoCloseStep, Zenon
<1> QED
  BY <1>1, <1>2, <1>3, <1>4, <1>5, <1>6, <1>7, <1>8, <1>9, <1>10, Zenon DEF Step

\* Nothing changes.
LEMMA NodeStutters ==
  ASSUME NodeInv, UNCHANGED nodeVars
  PROVE  NodeInv'
<1>1. /\ Shape /\ Jobs /\ JobWords /\ Held /\ OnServer /\ StopDrops /\ ListensAtEndpoint /\ Fresh
      /\ WillStart /\ Ended /\ Over /\ Unstarted /\ Lifecycles
  BY Zenon DEF NodeInv
<1>2. Shape' /\ Jobs' /\ StopDrops' /\ ListensAtEndpoint'
  BY <1>1 DEF nodeVars, Shape, Jobs, StopDrops, ListensAtEndpoint
<1>3. JobWords'
  BY <1>1, Zenon DEF nodeVars, JobWords, Left
<1>4. Held' /\ OnServer'
  BY <1>1, Zenon DEF nodeVars, Held, OnServer, Left
<1>5. Fresh' /\ WillStart'
  BY <1>1, Zenon DEF nodeVars, Fresh, WillStart, Left
<1>6. Ended' /\ Over'
  BY <1>1 DEF nodeVars, Ended, Over, Left
<1>7. Unstarted' /\ Lifecycles'
  BY <1>1, Zenon DEF nodeVars, Unstarted, Lifecycles, Left
<1> QED
  BY <1>2, <1>3, <1>4, <1>5, <1>6, <1>7, Zenon DEF NodeInv

\* The invariant is inductive.
LEMMA NodeStep == NodeInv /\ [NodeNext]_nodeVars => NodeInv'
<1> SUFFICES ASSUME NodeInv, [NodeNext]_nodeVars
             PROVE  NodeInv'
  BY Zenon
<1>1. CASE StartBegins
  BY <1>1, StartBeginsKeeps, Zenon
<1>2. CASE StartInProc
  BY <1>2, StartInProcKeeps
<1>3. CASE StartIPC
  BY <1>3, StartIPCStep
<1>4. CASE StartService
  BY <1>4, StartServiceStep
<1>5. ASSUME NEW p \in Procs, Step(p)
      PROVE  NodeInv'
  BY <1>5, StepKeeps, Zenon
<1>6. ASSUME NEW c \in Closers, CloseBegins(c)
      PROVE  NodeInv'
  BY <1>6, CloseBeginsKeeps, Zenon
<1>7. ASSUME NEW a \in Admins, Admin(a)
      PROVE  NodeInv'
  BY <1>7, CallStartsKeeps, CallStopsKeeps, Zenon DEF Admin
<1>8. CASE UNCHANGED nodeVars
  BY <1>8, NodeStutters, Zenon
<1> QED
  BY <1>1, <1>2, <1>3, <1>4, <1>5, <1>6, <1>7, <1>8, Zenon DEF NodeNext, StartStep, Procs

------------------------------------------------------------------------------
(* What follows from it. *)

\* A mutex is held by a goroutine at work.
LEMMA HoldersWork ==
  ASSUME NodeInv
  PROVE  \A p \in {startStopLock, nodeLock} \cup {srv[s].mu : s \in Servers} : p # None => proc[p] # None
<1>1. ASSUME startStopLock # None
      PROVE  proc[startStopLock] # None
  BY <1>1, Zenon DEF NodeInv, Shape, Held, Left
<1>2. ASSUME nodeLock # None
      PROVE  proc[nodeLock] # None
  <2>1. nodeLock \in Procs
    BY <1>2, Zenon DEF NodeInv, Shape, Procs
  <2> QED
    BY <2>1, Zenon DEF NodeInv, Held, Left
<1>3. ASSUME NEW s \in Servers, srv[s].mu # None
      PROVE  proc[srv[s].mu] # None
  <2>1. srv[s].mu \in Procs
    BY <1>3, Zenon DEF NodeInv, Shape
  <2>2. "shutdown" \in Left(srv[s].mu)
    BY <2>1, Zenon DEF NodeInv, Held
  <2> QED
    BY <2>2, Zenon DEF Left
<1> QED
  BY <1>1, <1>2, <1>3

\* While nobody holds the node's lock, nobody is about to start a server.
LEMMA HandlersRun ==
  ASSUME NodeInv
  PROVE  HandlerMeansRunning
<1> SUFFICES ASSUME nodeLock = None, ~late, NEW s \in Servers, srv[s].rpc, srv[s].listener = None
             PROVE  FALSE
  BY Zenon DEF HandlerMeansRunning
<1>1. \A p \in Procs : "unlock" \notin Left(p)
  BY NodeAssumption, Zenon DEF NodeInv, Held
<1>2. "start_http" \notin Left("start")
  <2>1. "start" \in Procs
    BY Zenon DEF Procs
  <2> QED
    BY <1>1, <2>1, Zenon DEF NodeInv, JobWords, Configuring, Closing
<1>3. ASSUME NEW a \in Admins
      PROVE  "start" \notin Left(a)
  <2>1. a \in Procs
    BY Zenon DEF Procs
  <2> QED
    BY <1>1, <2>1 DEF NodeInv, JobWords, Stopping
<1> QED
  BY <1>2, <1>3, Zenon DEF NodeInv, WillStart

\* The invariant says what the node promises.
LEMMA NodeInvImplies == NodeInv => NodeConsistent
<1> SUFFICES ASSUME NodeInv
             PROVE  NodeConsistent
  BY Zenon
<1>1. NodeTypeOK
  <2>1. running \subseteq 1..Services /\ tracked \subseteq 1..Services
    BY Zenon DEF NodeInv, Lifecycles
  <2> QED
    BY <2>1, HoldersWork, Zenon DEF NodeInv, Shape, NodeTypeOK
<1>2. ClosedServesNothing
  BY Zenon DEF NodeInv, Over, ClosedServesNothing
<1>3. DatabasesClosedOnce
  <2>1. closes = [i \in 1..Services |-> IF i \in tracked THEN 0 ELSE 1]
    BY Zenon DEF NodeInv, Lifecycles
  <2>2. ~dirLocked => tracked = {}
    BY Zenon DEF NodeInv, Over
  <2> QED
    BY <2>1, <2>2 DEF DatabasesClosedOnce
<1> QED
  BY <1>1, <1>2, <1>3, HandlersRun, Zenon DEF NodeInv, NodeConsistent

\* A lifecycle is stopped by the goroutine that holds startStopLock, the last one first.
LEMMA OneStops ==
  ASSUME NodeInv, NEW p \in Procs, StopService(p), NEW i \in running \ running'
  PROVE  startStopLock # None /\ \A j \in running : j <= i
<1>1. "stop_services" \in Left(p)
  BY AtWord, Zenon DEF NodeInv, StopService
<1>2. p \notin Admins
  BY <1>1, Zenon DEF NodeInv, JobWords, Stopping, Calling
<1>3. startStopLock = p /\ p # None
  BY <1>1, <1>2, NodeAssumption DEF NodeInv, Held, Procs
<1>4. i = NextToStop
  BY Zenon DEF StopService
<1>5. PICK k \in 0..Services : running = 1..k
  BY Zenon DEF NodeInv, Lifecycles
<1>6. k \in running /\ \A j \in running : j <= k
  BY <1>5, NodeAssumption
<1>7. \A j \in running : j <= NextToStop
  BY <1>6, Zenon DEF NextToStop
<1> QED
  BY <1>3, <1>4, <1>7, Zenon

\* No other step stops a lifecycle.
LEMMA OthersKeepRunning ==
  ASSUME [NodeNext]_nodeVars, \A p \in Procs : ~StopService(p)
  PROVE  running \subseteq running'
<1>1. ASSUME NEW p \in Procs, Step(p)
      PROVE  running' = running
  <2>1. CASE SetListenAddr(p) \/ Enable(p) \/ StartServer(p) \/ Unlock(p)
    BY <2>1, Zenon DEF SetListenAddr, Enable, StartServer, Unlock, NodeState
  <2>2. CASE StopServer(p) \/ StopWSHandler(p) \/ Shutdown(p) \/ StopOther(p)
    BY <2>2, Zenon DEF StopServer, StopWSHandler, Shutdown, StopOther, NodeState
  <2>3. CASE CloseDatabases(p) \/ Release(p)
    BY <2>3, Zenon DEF CloseDatabases, Release
  <2> QED
    BY <1>1, <2>1, <2>2, <2>3, Zenon DEF Step
<1>2. CASE StartBegins
  BY <1>2, Zenon DEF StartBegins
<1>3. CASE StartInProc \/ StartIPC
  BY <1>3, Zenon DEF StartInProc, StartIPC, NodeState
<1>4. CASE StartService
  BY <1>4 DEF StartService
<1>5. ASSUME NEW c \in Closers, CloseBegins(c)
      PROVE  running' = running
  BY <1>5, Zenon DEF CloseBegins
<1>6. ASSUME NEW a \in Admins, Admin(a)
      PROVE  running' = running
  BY <1>6, Zenon DEF Admin, AdminStarts, AdminStops, NodeState
<1>7. CASE UNCHANGED nodeVars
  BY <1>7, Zenon DEF nodeVars
<1> QED
  BY <1>1, <1>2, <1>3, <1>4, <1>5, <1>6, <1>7, Zenon DEF NodeNext, StartStep, Procs

\* Whatever Start, Close and the administrative calls do to each other, and whatever fails to start:
\* a mutex is held by a goroutine at work; a server listens at the address that setListenAddr
\* recorded; an HTTP handler is on a server that runs; a closed node serves nothing and has closed
\* every database exactly once (node.go, rpcstack.go, api.go).
THEOREM NodeIsConsistent == NodeSpec => []NodeConsistent
BY NodeInitially, NodeStep, NodeInvImplies, PTL DEF NodeSpec

\* stopServices: the lifecycles stop in the reverse of the order in which they were started, under
\* startStopLock, whether Close stops them or a Start that fails.
THEOREM LifecyclesStopInReverse == NodeSpec => StopsInReverse
<1>1. NodeInv /\ [NodeNext]_nodeVars =>
        [\A i \in running \ running' : startStopLock # None /\ \A j \in running : j <= i]_nodeVars
  <2> SUFFICES ASSUME NodeInv, [NodeNext]_nodeVars, NEW i \in running \ running'
               PROVE  startStopLock # None /\ \A j \in running : j <= i
    BY Zenon
  <2>1. PICK p \in Procs : StopService(p)
    BY OthersKeepRunning, Zenon
  <2> QED
    BY <2>1, OneStops, Zenon
<1> QED
  BY <1>1, NodeInitially, NodeStep, PTL DEF NodeSpec, StopsInReverse
==============================================================================
