--------------------------- MODULE NodeStartProofs ---------------------------
(***************************************************************************)
(* The lifecycle of a node, for any number of services, goroutines that    *)
(* call Close and administrative calls, every port and every route.        *)
(***************************************************************************)
EXTENDS NodeStack, TLAPS

\* The order in which a goroutine comes to its words.
Rank(w) ==
  CASE w = "shutdown" -> 0 [] w = "inproc" -> 1 [] w = "ipc" -> 2
    [] w = "http_addr" -> 3 [] w = "enable_rpc" -> 4 [] w = "ws_addr" -> 5 [] w = "enable_ws" -> 6
    [] w \in {"start", "start_http"} -> 7 [] w = "start_ws" -> 8 [] w = "stopWS" -> 9
    [] w = "stop_http" -> 10 [] w = "stop_ws" -> 11 [] w = "stop_ipc" -> 12 [] w = "stop_inproc" -> 13
    [] w = "unlock" -> 14 [] w = "services" -> 15 [] w = "stop_services" -> 16
    [] w = "close_databases" -> 17 [] w = "release" -> 18

Sorted(s) == \A i, j \in 1..Len(s) : i < j => Rank(s[i]) < Rank(s[j])

\* The words of a job, and those that a goroutine has left.
WordsOf(s) == {s[i] : i \in 1..Len(s)}

Left(p) == IF proc[p] = None THEN {} ELSE WordsOf(proc[p].todo)

Configuring == {"inproc", "ipc", "http_addr", "enable_rpc", "ws_addr", "enable_ws", "start_http", "start_ws"}
Calling == {"http_addr", "enable_rpc", "ws_addr", "enable_ws", "start"}
Closing == {"shutdown", "stop_http", "stop_ws", "stop_ipc", "stop_inproc", "stop_services",
            "close_databases", "release"}
Stopping == {"shutdown", "stopWS", "stop_http", "stop_ws"}

------------------------------------------------------------------------------
(* The inductive invariant. *)

\* The types of the variables.
Shape ==
  /\ config \in [http : {None, 1}, ws : {None, 1, 2}]
  /\ state \in {"initializing", "running", "closed"}
  /\ startStopLock \in {None, "start"} \cup Closers /\ nodeLock \in {None, "start"} \cup Admins
  /\ inproc \in {"new", "registered", "stopped"} /\ ipc \in BOOLEAN
  /\ srv \in [Servers -> [mu : {None} \cup Procs, port : {None, 1, 2} \cup AdminPorts,
                          listener : {None, 1, 2} \cup AdminPorts, rpc : BOOLEAN, ws : BOOLEAN]]

\* A goroutine at work has words left, in their order.
Jobs ==
  /\ proc \in [Procs -> {None} \cup JobRecord]
  /\ \A p \in Procs : proc[p] # None => proc[p].todo # <<>> /\ Sorted(proc[p].todo)

\* Close has all of its end before it; Start has the services before it or, once it has failed, the
\* end; a call configures a server under the lock or stops one.
JobWords ==
  /\ \A c \in Closers : Left(c) # {} => Left(c) \subseteq Closing /\ "release" \in Left(c)
  /\ \/ Left("start") = {}
     \/ /\ Left("start") \subseteq Configuring \cup {"unlock", "services"}
        /\ "services" \in Left("start")
        /\ Left("start") \cap Configuring # {} => "unlock" \in Left("start")
        /\ Left("start") \cap (Configuring \ {"start_ws"}) # {} => "start_http" \in Left("start")
     \/ Left("start") \subseteq Closing \cup {"unlock"} /\ "release" \in Left("start")
  /\ \A a \in Admins :
       \/ Left(a) \subseteq Stopping
       \/ /\ Left(a) \subseteq Calling \cup {"unlock"} /\ "unlock" \in Left(a)
          /\ Left(a) \cap Calling # {} => "start" \in Left(a)
          /\ "enable_rpc" \in Left(a) => "ws_addr" \notin Left(a) /\ "enable_ws" \notin Left(a)

\* A mutex is held by the goroutine that has still to release it.
Held ==
  /\ \A p \in Closers \cup {"start"} : Left(p) # {} <=> startStopLock = p
  /\ \A p \in Procs : "unlock" \in Left(p) <=> nodeLock = p
  /\ \A p \in Procs, s \in Servers : srv[s].mu = p <=> "shutdown" \in Left(p) /\ proc[p].on = s
  /\ \A p \in Procs : "shutdown" \in Left(p) => proc[p].on \in Servers

\* The server and the port that a goroutine configures.
OnServer ==
  /\ \A p \in Admins \cup {"start"} :
       /\ "enable_rpc" \in Left(p) /\ "http_addr" \notin Left(p) => proc[p].on = "http"
       /\ "enable_ws" \in Left(p) /\ "ws_addr" \notin Left(p) => proc[p].on \in Servers
  /\ \A a \in Admins :
       /\ "start" \in Left(a) /\ "http_addr" \notin Left(a) /\ "ws_addr" \notin Left(a) => proc[a].on \in Servers
       /\ "unlock" \in Left(a) => proc[a].port \in AdminPorts
  /\ "http_addr" \in Left("start") => config.http # None
  /\ "ws_addr" \in Left("start") => config.ws # None

\* A server that is being stopped has lost its HTTP handler.
StopDrops == \A s \in Servers : srv[s].mu # None => ~srv[s].rpc

\* While Start configures the servers they are as New has left them, but for what it has set.
Fresh ==
  /\ "start_http" \in Left("start") => \A s \in Servers : srv[s].listener = None /\ srv[s].mu = None
  /\ "enable_rpc" \in Left("start") \/ "ipc" \in Left("start") => \A s \in Servers : ~srv[s].rpc
  /\ "enable_ws" \in Left("start") => \A s \in Servers : ~srv[s].ws

\* Whoever has installed a handler will start the server.
WillStart ==
  ~late =>
    /\ \A s \in Servers : srv[s].rpc /\ srv[s].listener = None =>
         /\ srv[s].port # None
         /\ \/ s = "http" /\ "start_http" \in Left("start")
            \/ \E a \in Admins : /\ "start" \in Left(a) /\ proc[a].on = s
                                 /\ Left(a) \subseteq {"start", "unlock"}
    /\ \A p \in Admins \cup {"start"} :
         "enable_rpc" \in Left(p) /\ "http_addr" \notin Left(p) =>
           srv["http"].port # None /\ srv["http"].mu = None

\* What the goroutine that ends the node has behind it.
Ended ==
  \A p \in Closers \cup {"start"} : "release" \in Left(p) =>
    /\ "stop_http" \in Left(p) => "stop_ws" \in Left(p)
    /\ "stop_services" \notin Left(p) => running = {}
    /\ "stop_inproc" \notin Left(p) => inproc # "registered"
    /\ "stop_ipc" \notin Left(p) => ~ipc
    /\ "close_databases" \notin Left(p) => state = "closed"
    /\ ~late =>
         /\ "stop_http" \notin Left(p) => nodeLock \notin Admins
         /\ "stop_http" \notin Left(p) /\ srv["http"].mu # p => srv["http"].listener = None
         /\ "stop_ws" \notin Left(p) /\ srv["ws"].mu # p => srv["ws"].listener = None

\* A closed node.
Over ==
  /\ stopped \/ ~dirLocked => state = "closed"
  /\ state = "closed" =>
       /\ running = {} /\ tracked = {} /\ inproc # "registered" /\ ~ipc
       /\ Left("start") \subseteq {"release"}
       /\ ~late => nodeLock \notin Admins /\ \A s \in Servers : srv[s].listener = None

\* A node that nobody has started.
Unstarted ==
  state = "initializing" =>
    /\ \A s \in Servers : srv[s] = Off
    /\ inproc = "new" /\ ~ipc /\ running = {} /\ tracked = 1..Services
    /\ Left("start") = {} /\ \A a \in Admins : Left(a) = {}
    /\ \A c \in Closers : Left(c) \subseteq {"close_databases", "release"}

\* The lifecycles that run are the first ones, with their databases open.
Lifecycles ==
  /\ \E k \in 0..Services : running = 1..k
  /\ running \subseteq tracked /\ tracked \subseteq 1..Services
  /\ closes = [i \in 1..Services |-> IF i \in tracked THEN 0 ELSE 1]
  /\ "services" \in Left("start") => tracked = 1..Services /\ state = "running"
  /\ "unlock" \in Left("start") => running = {}

NodeInv ==
  /\ Shape /\ Jobs /\ JobWords /\ Held /\ OnServer /\ StopDrops /\ ListensAtEndpoint /\ Fresh
  /\ WillStart /\ Ended /\ Over /\ Unstarted /\ Lifecycles

------------------------------------------------------------------------------
(* Jobs as sets of words. *)

\* Only the empty sequence has no words.
LEMMA NoWords ==
  ASSUME NEW t \in Seq(Words)
  PROVE  t = <<>> <=> WordsOf(t) = {}
<1>1. CASE Len(t) = 0
  <2>1. t = <<>>
    BY <1>1
  <2> QED
    BY <1>1, <2>1 DEF WordsOf
<1>2. CASE Len(t) # 0
  <2>1. Len(t) \in Nat /\ 1 \in 1..Len(t)
    BY <1>2
  <2>2. t # <<>>
    BY <1>2
  <2> QED
    BY <2>1, <2>2, Zenon DEF WordsOf
<1> QED
  BY <1>1, <1>2, Zenon

\* The words of a sequence without its first one.
LEMMA Pop ==
  ASSUME NEW s \in Seq(Words), s # <<>>, Sorted(s)
  PROVE  /\ Tail(s) \in Seq(Words) /\ Sorted(Tail(s))
         /\ WordsOf(Tail(s)) = WordsOf(s) \ {Head(s)}
         /\ Head(s) \in WordsOf(s) /\ WordsOf(s) \subseteq Words
         /\ \A v \in WordsOf(s) : v # Head(s) => Rank(Head(s)) < Rank(v)
         /\ Tail(s) = <<>> <=> WordsOf(Tail(s)) = {}
<1>1. Len(s) \in Nat /\ Len(s) >= 1 /\ Head(s) = s[1]
  OBVIOUS
<1>2. /\ Tail(s) \in Seq(Words) /\ Len(Tail(s)) = Len(s) - 1
      /\ \A i \in 1..(Len(s) - 1) : Tail(s)[i] = s[i + 1]
  BY <1>1
<1>3. \A w \in Words : Rank(w) \in Nat
  BY DEF Rank, Words
<1>4. Sorted(Tail(s))
  <2> SUFFICES ASSUME NEW i \in 1..Len(Tail(s)), NEW j \in 1..Len(Tail(s)), i < j
               PROVE  Rank(Tail(s)[i]) < Rank(Tail(s)[j])
    BY Zenon DEF Sorted
  <2>1. i + 1 \in 1..Len(s) /\ j + 1 \in 1..Len(s) /\ i + 1 < j + 1
    BY <1>1, <1>2
  <2>2. Rank(s[i + 1]) < Rank(s[j + 1])
    BY <2>1, Zenon DEF Sorted
  <2>3. i \in 1..(Len(s) - 1) /\ j \in 1..(Len(s) - 1)
    BY <1>2, Zenon
  <2> QED
    BY <1>2, <2>2, <2>3, Zenon
<1>5. \A i \in 1..Len(s) : i = 1 \/ (i - 1 \in 1..(Len(s) - 1) /\ (i - 1) + 1 = i)
  BY <1>1
<1>6. ASSUME NEW i \in 1..Len(s), i # 1 PROVE Rank(s[1]) < Rank(s[i])
  <2>1. 1 \in 1..Len(s) /\ 1 < i
    BY <1>1, <1>6
  <2> QED
    BY <2>1, Zenon DEF Sorted
<1>7. WordsOf(Tail(s)) = {s[i] : i \in (1..Len(s)) \ {1}}
  <2>1. ASSUME NEW w \in WordsOf(Tail(s)) PROVE w \in {s[i] : i \in (1..Len(s)) \ {1}}
    <3>1. PICK i \in 1..(Len(s) - 1) : w = s[i + 1]
      BY <1>2, Zenon DEF WordsOf
    <3>2. i + 1 \in (1..Len(s)) \ {1}
      BY <1>1
    <3> QED
      BY <3>1, <3>2, Zenon
  <2>2. ASSUME NEW i \in (1..Len(s)) \ {1} PROVE s[i] \in WordsOf(Tail(s))
    <3>1. PICK k \in 1..(Len(s) - 1) : k + 1 = i
      BY <1>5, Zenon
    <3>2. Tail(s)[k] = s[i] /\ k \in 1..Len(Tail(s))
      BY <1>2, <3>1, Zenon
    <3> QED
      BY <3>2, Zenon DEF WordsOf
  <2> QED
    BY <2>1, <2>2, Zenon
<1>8. WordsOf(Tail(s)) = WordsOf(s) \ {Head(s)}
  <2>1. \A i \in 1..Len(s) : i # 1 => s[i] # s[1]
    <3>1. s[1] \in Words
      BY <1>1
    <3>2. Rank(s[1]) \in Nat
      BY <1>3, <3>1, Zenon
    <3> QED
      BY <1>6, <3>2
  <2>2. 1 \in 1..Len(s)
    BY <1>1
  <2> QED
    BY <1>1, <1>7, <2>1, <2>2, Zenon DEF WordsOf
<1>9. Head(s) \in WordsOf(s) /\ WordsOf(s) \subseteq Words
  <2>1. 1 \in 1..Len(s) /\ \A i \in 1..Len(s) : s[i] \in Words
    BY <1>1
  <2> QED
    BY <1>1, <2>1, Zenon DEF WordsOf
<1>10. \A v \in WordsOf(s) : v # Head(s) => Rank(Head(s)) < Rank(v)
  BY <1>1, <1>6, Zenon DEF WordsOf
<1>11. Tail(s) = <<>> <=> WordsOf(Tail(s)) = {}
  BY <1>2, NoWords, Zenon
<1> QED
  BY <1>2, <1>4, <1>8, <1>9, <1>10, <1>11, Zenon

\* The words of two jobs, one after the other.
LEMMA Joined ==
  ASSUME NEW s \in Seq(Words), NEW t \in Seq(Words), Sorted(s), Sorted(t),
         \A v \in WordsOf(s), w \in WordsOf(t) : Rank(v) < Rank(w)
  PROVE  s \o t \in Seq(Words) /\ Sorted(s \o t) /\ WordsOf(s \o t) = WordsOf(s) \cup WordsOf(t)
<1>1. /\ s \o t \in Seq(Words) /\ Len(s) \in Nat /\ Len(t) \in Nat /\ Len(s \o t) = Len(s) + Len(t)
      /\ \A i \in 1..(Len(s) + Len(t)) : (s \o t)[i] = IF i <= Len(s) THEN s[i] ELSE t[i - Len(s)]
  OBVIOUS
<1>2. ASSUME NEW i \in 1..(Len(s) + Len(t))
      PROVE  \/ i \in 1..Len(s) /\ (s \o t)[i] = s[i]
             \/ i - Len(s) \in 1..Len(t) /\ (s \o t)[i] = t[i - Len(s)] /\ i > Len(s)
  BY <1>1
<1>3. ASSUME NEW i \in 1..(Len(s) + Len(t)), NEW j \in 1..(Len(s) + Len(t)), i < j
      PROVE  Rank((s \o t)[i]) < Rank((s \o t)[j])
  <2>1. CASE i \in 1..Len(s) /\ j \in 1..Len(s)
    <3>1. (s \o t)[i] = s[i] /\ (s \o t)[j] = s[j]
      BY <1>1, <2>1
    <3> QED
      BY <1>3, <2>1, <3>1, Zenon DEF Sorted
  <2>2. CASE i \in 1..Len(s) /\ j - Len(s) \in 1..Len(t) /\ j > Len(s)
    <3>1. (s \o t)[i] = s[i] /\ (s \o t)[j] = t[j - Len(s)]
      BY <1>1, <2>2
    <3>2. s[i] \in WordsOf(s) /\ t[j - Len(s)] \in WordsOf(t)
      BY <2>2, Zenon DEF WordsOf
    <3> QED
      BY <3>1, <3>2, Zenon
  <2>3. CASE i - Len(s) \in 1..Len(t) /\ i > Len(s)
    <3>1. j - Len(s) \in 1..Len(t) /\ i - Len(s) < j - Len(s)
      BY <1>1, <1>3, <2>3
    <3>2. (s \o t)[i] = t[i - Len(s)] /\ (s \o t)[j] = t[j - Len(s)]
      BY <1>1, <1>3, <2>3
    <3> QED
      BY <2>3, <3>1, <3>2, Zenon DEF Sorted
  <2> QED
    BY <1>2, <2>1, <2>2, <2>3, Zenon
<1>4. Sorted(s \o t)
  BY <1>1, <1>3, Zenon DEF Sorted
<1>5. ASSUME NEW w \in WordsOf(s \o t) PROVE w \in WordsOf(s) \cup WordsOf(t)
  <2>1. PICK i \in 1..(Len(s) + Len(t)) : w = (s \o t)[i]
    BY <1>1, Zenon DEF WordsOf
  <2> QED
    BY <1>2, <2>1, Zenon DEF WordsOf
<1>6. ASSUME NEW w \in WordsOf(s) PROVE w \in WordsOf(s \o t)
  <2>1. PICK i \in 1..Len(s) : w = s[i]
    BY Zenon DEF WordsOf
  <2>2. i \in 1..(Len(s) + Len(t)) /\ (s \o t)[i] = s[i]
    BY <1>1
  <2> QED
    BY <1>1, <2>1, <2>2, Zenon DEF WordsOf
<1>7. ASSUME NEW w \in WordsOf(t) PROVE w \in WordsOf(s \o t)
  <2>1. PICK i \in 1..Len(t) : w = t[i]
    BY Zenon DEF WordsOf
  <2>2. i + Len(s) \in 1..(Len(s) + Len(t)) /\ (s \o t)[i + Len(s)] = t[i]
    BY <1>1
  <2> QED
    BY <1>1, <2>1, <2>2, Zenon DEF WordsOf
<1> QED
  BY <1>1, <1>4, <1>5, <1>6, <1>7, Zenon

\* Short jobs, by their words.
LEMMA ListOne ==
  ASSUME NEW a \in Words
  PROVE  <<a>> \in Seq(Words) /\ Sorted(<<a>>) /\ WordsOf(<<a>>) = {a}
BY DEF Sorted, WordsOf

\* Two words in order.
LEMMA ListTwo ==
  ASSUME NEW a \in Words, NEW b \in Words, Rank(a) < Rank(b)
  PROVE  <<a, b>> \in Seq(Words) /\ Sorted(<<a, b>>) /\ WordsOf(<<a, b>>) = {a, b}
BY DEF Sorted, WordsOf

\* Three words in order.
LEMMA ListThree ==
  ASSUME NEW a \in Words, NEW b \in Words, NEW c \in Words,
         Rank(a) < Rank(b), Rank(b) < Rank(c), Rank(a) < Rank(c)
  PROVE  <<a, b, c>> \in Seq(Words) /\ Sorted(<<a, b, c>>) /\ WordsOf(<<a, b, c>>) = {a, b, c}
BY DEF Sorted, WordsOf

\* Four words in order.
LEMMA ListFour ==
  ASSUME NEW a \in Words, NEW b \in Words, NEW c \in Words, NEW d \in Words,
         Rank(a) < Rank(b), Rank(a) < Rank(c), Rank(a) < Rank(d),
         Rank(b) < Rank(c), Rank(b) < Rank(d), Rank(c) < Rank(d)
  PROVE  /\ <<a, b, c, d>> \in Seq(Words) /\ Sorted(<<a, b, c, d>>)
         /\ WordsOf(<<a, b, c, d>>) = {a, b, c, d}
BY DEF Sorted, WordsOf

\* A step in which p alone changes its job, to one with the words L.
Moves(p, L) ==
  /\ Jobs' /\ Left(p)' = L
  /\ \A q \in Procs : q # p => Left(q)' = Left(q) /\ proc'[q] = proc[q]

\* The goroutines that did not move.
LEMMA Others ==
  ASSUME NEW p \in Procs, NEW L, Moves(p, L)
  PROVE  /\ Left(p)' = L
         /\ \A c \in Closers : c # p => Left(c)' = Left(c) /\ proc'[c] = proc[c]
         /\ \A a \in Admins : a # p => Left(a)' = Left(a) /\ proc'[a] = proc[a]
         /\ p # "start" => Left("start")' = Left("start") /\ proc'["start"] = proc["start"]
         /\ Jobs'
         /\ "start" \notin Closers /\ "start" \notin Admins /\ Closers \cap Admins = {} /\ None \notin Procs
BY NodeAssumption, Zenon DEF Moves, Procs

\* A goroutine that is done has no words left.
LEMMA JobDone ==
  ASSUME Jobs, NEW p \in Procs, proc' = [proc EXCEPT ![p] = None]
  PROVE  Moves(p, {})
<1>1. /\ proc' \in [Procs -> {None} \cup JobRecord] /\ proc'[p] = None
      /\ \A q \in Procs : q # p => proc'[q] = proc[q]
  BY Zenon DEF Jobs
<1>2. Jobs'
  BY <1>1, Zenon DEF Jobs
<1>3. \A q \in Procs : q # p => Left(q)' = Left(q)
  BY <1>1, Zenon DEF Left
<1>4. Left(p)' = {}
  BY <1>1, Zenon DEF Left
<1> QED
  BY <1>1, <1>2, <1>3, <1>4, Zenon DEF Moves

\* A goroutine is given a list of words to do.
LEMMA JobSet ==
  ASSUME Jobs, NEW p \in Procs, NEW j \in JobRecord, j.todo # <<>>, Sorted(j.todo),
         proc' = [proc EXCEPT ![p] = j]
  PROVE  Moves(p, WordsOf(j.todo)) /\ proc'[p] = j
<1>1. /\ proc' \in [Procs -> {None} \cup JobRecord] /\ proc'[p] = j /\ j # None
      /\ \A q \in Procs : q # p => proc'[q] = proc[q]
  BY NodeAssumption, Zenon DEF Jobs
<1>2. Jobs'
  BY <1>1, Zenon DEF Jobs
<1>3. \A q \in Procs : q # p => Left(q)' = Left(q)
  BY <1>1, Zenon DEF Left
<1>4. Left(p)' = WordsOf(j.todo)
  BY <1>1, Zenon DEF Left
<1> QED
  BY <1>1, <1>2, <1>3, <1>4, Zenon DEF Moves

\* The word a goroutine is at is the first of those it has left.
LEMMA AtWord ==
  ASSUME Jobs, NEW p \in Procs, NEW w, Now(p, w)
  PROVE  /\ w \in Left(p) /\ Left(p) \subseteq Words
         /\ \A v \in Left(p) : v # w => Rank(w) < Rank(v)
<1>1. proc[p] \in JobRecord /\ proc[p] # None /\ proc[p].todo # <<>> /\ Sorted(proc[p].todo) /\ Head(proc[p].todo) = w
  BY Zenon DEF Jobs, Now
<1>2. proc[p].todo \in Seq(Words)
  BY <1>1, Zenon DEF JobRecord
<1> QED
  BY <1>1, <1>2, Pop, Zenon DEF Left

\* It goes on to the next.
LEMMA Advanced ==
  ASSUME Jobs, NEW p \in Procs, NEW w, Now(p, w), Advance(p)
  PROVE  /\ Moves(p, Left(p) \ {w})
         /\ Left(p) \ {w} # {} => proc'[p].on = proc[p].on /\ proc'[p].port = proc[p].port
<1>1. PICK j : j = proc[p]
  BY Zenon
<1>2. j \in JobRecord /\ j # None /\ j.todo # <<>> /\ Sorted(j.todo) /\ Head(j.todo) = w
  BY <1>1, Zenon DEF Jobs, Now
<1>3. j.todo \in Seq(Words)
  BY <1>2, Zenon DEF JobRecord
<1>4. /\ Tail(j.todo) \in Seq(Words) /\ Sorted(Tail(j.todo))
      /\ WordsOf(Tail(j.todo)) = WordsOf(j.todo) \ {w}
      /\ (Tail(j.todo) = <<>> <=> WordsOf(Tail(j.todo)) = {})
  BY <1>2, <1>3, Pop, Zenon
<1>5. Left(p) = WordsOf(j.todo)
  BY <1>1, <1>2, Zenon DEF Left
<1>6. CASE Tail(j.todo) = <<>>
  <2>1. proc' = [proc EXCEPT ![p] = None]
    BY <1>1, <1>6, Zenon DEF Advance, Continue
  <2>2. Moves(p, {})
    BY <2>1, JobDone, Zenon
  <2> QED
    <3>1. Left(p) \ {w} = {}
      BY <1>4, <1>5, <1>6, Zenon
    <3> QED
      BY <2>2, <3>1, Zenon
<1>7. CASE Tail(j.todo) # <<>>
  <2>1. PICK k : k = [j EXCEPT !.todo = Tail(j.todo)]
    BY Zenon
  <2>2. k \in JobRecord /\ k.todo = Tail(j.todo) /\ k.on = j.on /\ k.port = j.port
    BY <1>2, <1>4, <2>1, Zenon DEF JobRecord
  <2>3. proc' = [proc EXCEPT ![p] = k]
    BY <1>1, <1>7, <2>1, Zenon DEF Advance, Continue
  <2>4. Moves(p, WordsOf(k.todo)) /\ proc'[p] = k
    <3>1. k.todo # <<>> /\ Sorted(k.todo)
      BY <1>4, <1>7, <2>2, Zenon
    <3> QED
      BY <2>2, <2>3, <3>1, JobSet, Zenon
  <2>5. WordsOf(k.todo) = Left(p) \ {w}
    BY <1>4, <1>5, <2>2, Zenon
  <2> QED
    BY <1>1, <2>2, <2>4, <2>5, Zenon
<1> QED
  BY <1>6, <1>7, Zenon

\* Or to another list of words.
LEMMA Continued ==
  ASSUME Jobs, NEW p \in Procs, proc[p] # None, NEW s \in Seq(Words), s # <<>>, Sorted(s), Continue(p, s)
  PROVE  Moves(p, WordsOf(s)) /\ proc'[p].on = proc[p].on /\ proc'[p].port = proc[p].port
<1>1. PICK j : j = proc[p]
  BY Zenon
<1>2. PICK k : k = [j EXCEPT !.todo = s]
  BY Zenon
<1>3. j \in JobRecord
  BY <1>1, Zenon DEF Jobs
<1>4. k \in JobRecord /\ k.todo = s /\ k.on = j.on /\ k.port = j.port
  BY <1>2, <1>3, Zenon DEF JobRecord
<1>5. proc' = [proc EXCEPT ![p] = k]
  BY <1>1, <1>2, Zenon DEF Continue
<1> QED
  BY <1>1, <1>4, <1>5, JobSet, Zenon

\* A goroutine that has set a port goes on with that server.
Goes(p, s) == proc' = [proc EXCEPT ![p].on = s, ![p].todo = Tail(@)]

\* setListenAddr has succeeded.
LEMMA Addressed ==
  ASSUME Jobs, NEW p \in Procs, NEW w, Now(p, w), NEW s \in Servers, Left(p) \ {w} # {},
         Goes(p, s)
  PROVE  Moves(p, Left(p) \ {w}) /\ proc'[p].on = s /\ proc'[p].port = proc[p].port
<1>1. PICK j : j = proc[p]
  BY Zenon
<1>2. j \in JobRecord /\ j # None /\ j.todo # <<>> /\ Sorted(j.todo) /\ Head(j.todo) = w
  BY <1>1, Zenon DEF Jobs, Now
<1>3. j.todo \in Seq(Words)
  BY <1>2, Zenon DEF JobRecord
<1>4. /\ Tail(j.todo) \in Seq(Words) /\ Sorted(Tail(j.todo))
      /\ WordsOf(Tail(j.todo)) = WordsOf(j.todo) \ {w}
      /\ (Tail(j.todo) = <<>> <=> WordsOf(Tail(j.todo)) = {})
  BY <1>2, <1>3, Pop, Zenon
<1>5. Left(p) = WordsOf(j.todo)
  BY <1>1, <1>2, Zenon DEF Left
<1>6. PICK k : k = [j EXCEPT !.on = s, !.todo = Tail(j.todo)]
  BY Zenon
<1>7. k \in JobRecord /\ k.todo = Tail(j.todo) /\ k.on = s /\ k.port = j.port
  BY <1>2, <1>4, <1>6, Zenon DEF JobRecord
<1>8. proc' = [proc EXCEPT ![p] = k]
  BY <1>1, <1>2, <1>6, Zenon DEF Goes, Jobs, JobRecord
<1>9. Moves(p, WordsOf(k.todo)) /\ proc'[p] = k
  <2>1. k.todo # <<>> /\ Sorted(k.todo)
    BY <1>4, <1>5, <1>7, Zenon
  <2> QED
    BY <1>7, <1>8, <2>1, JobSet, Zenon
<1>10. WordsOf(k.todo) = Left(p) \ {w}
  BY <1>4, <1>5, <1>7, Zenon
<1> QED
  BY <1>1, <1>7, <1>9, <1>10, Zenon

\* A goroutine that stops a server comes to the word "shutdown".
Begins(p, s) == proc' = [proc EXCEPT ![p].on = s, ![p].todo = <<"shutdown">> \o Tail(@)]

\* Its words then.
LEMMA Begun ==
  ASSUME Jobs, NEW p \in Procs, NEW w, Now(p, w), w # "shutdown", NEW s \in Servers, Begins(p, s)
  PROVE  Moves(p, (Left(p) \ {w}) \cup {"shutdown"}) /\ proc'[p].on = s /\ proc'[p].port = proc[p].port
<1>1. PICK j : j = proc[p]
  BY Zenon
<1>2. j \in JobRecord /\ j # None /\ j.todo # <<>> /\ Sorted(j.todo) /\ Head(j.todo) = w
  BY <1>1, Zenon DEF Jobs, Now
<1>3. j.todo \in Seq(Words)
  BY <1>2, Zenon DEF JobRecord
<1>4. /\ Tail(j.todo) \in Seq(Words) /\ Sorted(Tail(j.todo))
      /\ WordsOf(Tail(j.todo)) = WordsOf(j.todo) \ {w}
      /\ w \in Words /\ \A v \in WordsOf(j.todo) : v # w => v \in Words /\ Rank(w) < Rank(v)
  BY <1>2, <1>3, Pop, Zenon
<1>5. Left(p) = WordsOf(j.todo)
  BY <1>1, <1>2, Zenon DEF Left
<1>6. /\ <<"shutdown">> \in Seq(Words) /\ Sorted(<<"shutdown">>) /\ WordsOf(<<"shutdown">>) = {"shutdown"}
  <2>1. "shutdown" \in Words
    BY Zenon DEF Words
  <2> QED
    BY <2>1, ListOne, Zenon
<1>7. \A v \in WordsOf(<<"shutdown">>), u \in WordsOf(Tail(j.todo)) : Rank(v) < Rank(u)
  <2>1. Rank("shutdown") = 0 /\ Rank(w) > 0
    BY <1>4 DEF Rank, Words
  <2>2. \A u \in WordsOf(Tail(j.todo)) : u \in Words /\ Rank(w) < Rank(u)
    BY <1>4, Zenon
  <2>3. \A u \in Words : Rank(u) \in Nat
    BY DEF Rank, Words
  <2> QED
    BY <1>4, <1>6, <2>1, <2>2, <2>3
<1>8. PICK t : t = <<"shutdown">> \o Tail(j.todo)
  BY Zenon
<1>9. t \in Seq(Words) /\ Sorted(t) /\ WordsOf(t) = {"shutdown"} \cup (Left(p) \ {w})
  BY <1>4, <1>5, <1>6, <1>7, <1>8, Joined, Zenon
<1>10. t # <<>>
  <2>1. "shutdown" \in WordsOf(t)
    BY <1>9, Zenon
  <2> QED
    BY <2>1 DEF WordsOf
<1>11. PICK k : k = [j EXCEPT !.on = s, !.todo = t]
  BY Zenon
<1>12. k \in JobRecord /\ k.todo = t /\ k.on = s /\ k.port = j.port
  BY <1>2, <1>9, <1>11, Zenon DEF JobRecord
<1>13. proc' = [proc EXCEPT ![p] = k]
  BY <1>1, <1>2, <1>8, <1>11, Zenon DEF Jobs, JobRecord, Begins
<1>14. Moves(p, WordsOf(k.todo)) /\ proc'[p] = k
  BY <1>9, <1>10, <1>12, <1>13, JobSet, Zenon
<1> QED
  BY <1>1, <1>9, <1>12, <1>14, Zenon

\* What Start does once it has failed, and Close.
EndWords == {"stop_http", "stop_ws", "stop_ipc", "stop_inproc", "close_databases", "release"}

\* The two ways to end a node are lists in the order of the steps.
LEMMA Endings ==
  /\ LET s == stopRPC \o <<"unlock", "close_databases", "release">>
     IN  s \in Seq(Words) /\ s # <<>> /\ Sorted(s) /\ WordsOf(s) = EndWords \cup {"unlock"}
  /\ LET s == stopRPC \o <<"stop_services", "close_databases", "release">>
     IN  s \in Seq(Words) /\ s # <<>> /\ Sorted(s) /\ WordsOf(s) = EndWords \cup {"stop_services"}
<1>1. /\ stopRPC \in Seq(Words) /\ Sorted(stopRPC)
      /\ WordsOf(stopRPC) = {"stop_http", "stop_ws", "stop_ipc", "stop_inproc"}
  <2>1. \A v \in {"stop_http", "stop_ws", "stop_ipc", "stop_inproc"} : v \in Words
    BY Zenon DEF Words
  <2>2. Rank("stop_http") = 10 /\ Rank("stop_ws") = 11 /\ Rank("stop_ipc") = 12 /\ Rank("stop_inproc") = 13
    BY Zenon DEF Rank
  <2> QED
    BY <2>1, <2>2, ListFour DEF stopRPC
<1>2. ASSUME NEW w \in {"unlock", "stop_services"}
      PROVE  LET t == <<w, "close_databases", "release">>
             IN  t \in Seq(Words) /\ Sorted(t) /\ WordsOf(t) = {w, "close_databases", "release"}
  <2>1. w \in Words /\ "close_databases" \in Words /\ "release" \in Words
    BY Zenon DEF Words
  <2>2. Rank(w) \in {14, 16} /\ Rank("close_databases") = 17 /\ Rank("release") = 18
    <3>1. w = "unlock" \/ w = "stop_services"
      BY Zenon
    <3>2. Rank("unlock") = 14 /\ Rank("stop_services") = 16
      BY Zenon DEF Rank
    <3>3. Rank("close_databases") = 17 /\ Rank("release") = 18
      BY Zenon DEF Rank
    <3> QED
      BY <3>1, <3>2, <3>3, Zenon
  <2>3. Rank(w) < Rank("release")
    BY <2>2
  <2> QED
    BY <2>1, <2>2, <2>3, ListThree
<1>3. ASSUME NEW w \in {"unlock", "stop_services"}
      PROVE  LET s == stopRPC \o <<w, "close_databases", "release">>
             IN  s \in Seq(Words) /\ s # <<>> /\ Sorted(s) /\ WordsOf(s) = EndWords \cup {w}
  <2>1. PICK t : t = <<w, "close_databases", "release">>
    BY Zenon
  <2>2. \A v \in WordsOf(stopRPC), u \in WordsOf(t) : Rank(v) < Rank(u)
    <3>1. WordsOf(t) = {w, "close_databases", "release"}
      BY <1>2, <2>1, Zenon
    <3> QED
      BY <1>1, <3>1 DEF Rank
  <2>3. /\ stopRPC \o t \in Seq(Words) /\ Sorted(stopRPC \o t)
        /\ WordsOf(stopRPC \o t) = WordsOf(stopRPC) \cup WordsOf(t)
    BY <1>1, <1>2, <2>1, <2>2, Joined, Zenon
  <2>4. WordsOf(stopRPC \o t) = EndWords \cup {w}
    BY <1>1, <1>2, <2>1, <2>3, Zenon DEF EndWords
  <2>5. stopRPC \o t # <<>>
    <3>1. "release" \in WordsOf(stopRPC \o t)
      BY <2>4, Zenon DEF EndWords
    <3> QED
      BY <3>1 DEF WordsOf
  <2> QED
    BY <2>1, <2>3, <2>4, <2>5, Zenon
<1> QED
  BY <1>3, Zenon

\* A server.
ServerRecord == [mu : {None} \cup Procs, port : {None, 1, 2} \cup AdminPorts,
                 listener : {None, 1, 2} \cup AdminPorts, rpc : BOOLEAN, ws : BOOLEAN]

\* A step that changes one server.
LEMMA OneServer ==
  ASSUME Shape, NEW s \in Servers, NEW h \in ServerRecord, srv' = [srv EXCEPT ![s] = h]
  PROVE  /\ srv' \in [Servers -> ServerRecord] /\ srv'[s] = h
         /\ \A t \in Servers : t # s => srv'[t] = srv[t]
<1>1. srv \in [Servers -> ServerRecord]
  BY Zenon DEF Shape, ServerRecord
<1> QED
  BY <1>1, Zenon

\* The operations of one server, by the fields.
LEMMA ServerFields ==
  ASSUME NEW h \in ServerRecord, NEW p \in Procs, NEW x \in {None, 1, 2} \cup AdminPorts
  PROVE  /\ /\ StartFails(h) \in ServerRecord /\ ~StartFails(h).rpc /\ StartFails(h).mu = h.mu
            /\ StartFails(h).port = h.port /\ StartFails(h).listener = h.listener
         /\ /\ ShutDown(h) \in ServerRecord /\ ShutDown(h).rpc = h.rpc /\ ShutDown(h).mu = None
            /\ ShutDown(h).port = None /\ ShutDown(h).listener = None
         /\ LET g == [h EXCEPT !.listener = x]
            IN  /\ g \in ServerRecord /\ g.rpc = h.rpc /\ g.mu = h.mu /\ g.port = h.port /\ g.listener = x
         /\ LET g == [h EXCEPT !.port = x]
            IN  /\ g \in ServerRecord /\ g.rpc = h.rpc /\ g.ws = h.ws /\ g.mu = h.mu /\ g.port = x
                /\ g.listener = h.listener
         /\ LET g == [h EXCEPT !.rpc = TRUE]
            IN  /\ g \in ServerRecord /\ g.rpc = TRUE /\ g.ws = h.ws /\ g.mu = h.mu /\ g.port = h.port
                /\ g.listener = h.listener
         /\ LET g == [h EXCEPT !.ws = TRUE]
            IN  /\ g \in ServerRecord /\ g.rpc = h.rpc /\ g.mu = h.mu /\ g.port = h.port
                /\ g.listener = h.listener
         /\ LET g == [h EXCEPT !.ws = FALSE]
            IN  /\ g \in ServerRecord /\ g.rpc = h.rpc /\ ~g.ws /\ g.mu = h.mu /\ g.port = h.port
                /\ g.listener = h.listener
         /\ LET g == [h EXCEPT !.ws = FALSE, !.mu = p]
            IN  /\ g \in ServerRecord /\ g.rpc = h.rpc /\ g.mu = p /\ g.port = h.port
                /\ g.listener = h.listener
         /\ LET g == [Dropped(h) EXCEPT !.mu = p]
            IN  /\ g \in ServerRecord /\ ~g.rpc /\ g.mu = p /\ g.port = h.port
                /\ g.listener = h.listener
<1>1. /\ StartFails(h) \in ServerRecord /\ ~StartFails(h).rpc /\ StartFails(h).mu = h.mu
      /\ StartFails(h).port = h.port /\ StartFails(h).listener = h.listener
  BY Zenon DEF StartFails, ServerRecord
<1>2. /\ ShutDown(h) \in ServerRecord /\ ShutDown(h).rpc = h.rpc /\ ShutDown(h).mu = None
      /\ ShutDown(h).port = None /\ ShutDown(h).listener = None
  BY Zenon DEF ShutDown, ServerRecord
<1>3. LET g == [h EXCEPT !.listener = x]
      IN  /\ g \in ServerRecord /\ g.rpc = h.rpc /\ g.mu = h.mu /\ g.port = h.port /\ g.listener = x
  BY Zenon DEF ServerRecord
<1>4. LET g == [h EXCEPT !.port = x]
      IN  /\ g \in ServerRecord /\ g.rpc = h.rpc /\ g.ws = h.ws /\ g.mu = h.mu /\ g.port = x
          /\ g.listener = h.listener
  BY Zenon DEF ServerRecord
<1>5. LET g == [h EXCEPT !.rpc = TRUE]
      IN  /\ g \in ServerRecord /\ g.rpc = TRUE /\ g.ws = h.ws /\ g.mu = h.mu /\ g.port = h.port
          /\ g.listener = h.listener
  BY Zenon DEF ServerRecord
<1>6. LET g == [h EXCEPT !.ws = TRUE]
      IN  /\ g \in ServerRecord /\ g.rpc = h.rpc /\ g.mu = h.mu /\ g.port = h.port
          /\ g.listener = h.listener
  BY Zenon DEF ServerRecord
<1>7. LET g == [h EXCEPT !.ws = FALSE]
      IN  /\ g \in ServerRecord /\ g.rpc = h.rpc /\ ~g.ws /\ g.mu = h.mu /\ g.port = h.port
          /\ g.listener = h.listener
  BY Zenon DEF ServerRecord
<1>8. LET g == [h EXCEPT !.ws = FALSE, !.mu = p]
      IN  /\ g \in ServerRecord /\ g.rpc = h.rpc /\ g.mu = p /\ g.port = h.port
          /\ g.listener = h.listener
  BY Zenon DEF ServerRecord
<1>9. LET g == [Dropped(h) EXCEPT !.mu = p]
      IN  /\ g \in ServerRecord /\ ~g.rpc /\ g.mu = p /\ g.port = h.port
          /\ g.listener = h.listener
  <2>1. CASE h.rpc
    <3>1. Dropped(h) = [h EXCEPT !.rpc = FALSE, !.ws = FALSE]
      BY <2>1, Zenon DEF Dropped
    <3> QED
      BY <3>1, Zenon DEF ServerRecord
  <2>2. CASE ~h.rpc
    <3>1. Dropped(h) = h
      BY <2>2, Zenon DEF Dropped
    <3> QED
      BY <2>2, <3>1, Zenon DEF ServerRecord
  <2> QED
    BY <2>1, <2>2, Zenon
<1> QED
  BY <1>1, <1>2, <1>3, <1>4, <1>5, <1>6, <1>7, <1>8, <1>9, Zenon

\* While Start configures the servers, it holds both locks: no other goroutine configures or closes.
LEMMA StartAt ==
  ASSUME NodeInv, NEW w \in Configuring, Now("start", w)
  PROVE  /\ "start" \in Procs /\ proc["start"] # None /\ w \in Left("start")
         /\ "services" \in Left("start") /\ "release" \notin Left("start") /\ "shutdown" \notin Left("start")
         /\ "unlock" \in Left("start") /\ nodeLock = "start"
         /\ Left("start") \subseteq Configuring \cup {"unlock", "services"}
         /\ w # "start_ws" => "start_http" \in Left("start")
         /\ startStopLock = "start" /\ state = "running" /\ \A c \in Closers : Left(c) = {}
         /\ \A a \in Admins : "unlock" \notin Left(a) /\ "start" \notin Left(a) /\ Left(a) \subseteq Stopping
<1>0. Jobs /\ JobWords /\ Held /\ Lifecycles
  BY Zenon DEF NodeInv
<1>1. "start" \in Procs /\ proc["start"] # None
  BY Zenon DEF Procs, Now
<1>2. w \in Left("start")
  BY <1>0, <1>1, AtWord, Zenon
<1>3. /\ "services" \in Left("start") /\ "release" \notin Left("start") /\ "shutdown" \notin Left("start")
      /\ "unlock" \in Left("start") /\ Left("start") \subseteq Configuring \cup {"unlock", "services"}
      /\ w # "start_ws" => "start_http" \in Left("start")
  BY <1>0, <1>2 DEF JobWords, Closing, Configuring
<1>4. nodeLock = "start" /\ startStopLock = "start" /\ state = "running"
  BY <1>0, <1>1, <1>3, Zenon DEF Held, Lifecycles
<1>5. \A c \in Closers : Left(c) = {}
  BY <1>0, <1>4, NodeAssumption DEF Held
<1>6. \A a \in Admins : "unlock" \notin Left(a)
  BY <1>0, <1>4, NodeAssumption, Zenon DEF Held, Procs
<1>7. \A a \in Admins : Left(a) \subseteq Stopping
  BY <1>0, <1>6, Zenon DEF JobWords
<1> QED
  BY <1>1, <1>2, <1>3, <1>4, <1>5, <1>6, <1>7 DEF Stopping

\* A call that configures a server holds the node's lock: neither Start nor another call configures one.
LEMMA CallAt ==
  ASSUME NodeInv, NEW a \in Admins, NEW w \in Calling \cup {"unlock"}, Now(a, w)
  PROVE  /\ a \in Procs /\ proc[a] # None /\ w \in Left(a) /\ "shutdown" \notin Left(a)
         /\ "unlock" \in Left(a) /\ nodeLock = a
         /\ w # "unlock" => "start" \in Left(a)
         /\ Left(a) \subseteq Calling \cup {"unlock"}
         /\ "enable_rpc" \in Left(a) => "ws_addr" \notin Left(a) /\ "enable_ws" \notin Left(a)
         /\ Left("start") \cap Configuring = {} /\ "unlock" \notin Left("start")
         /\ \A b \in Admins : b # a => "unlock" \notin Left(b) /\ "start" \notin Left(b) /\ Left(b) \subseteq Stopping
         /\ state # "initializing"
         /\ ~late => /\ state # "closed"
                     /\ \A p \in Closers \cup {"start"} : "release" \in Left(p) => "stop_http" \in Left(p)
<1>0. Jobs /\ JobWords /\ Held /\ Ended /\ Over /\ Unstarted
  BY Zenon DEF NodeInv
<1>1. a \in Procs /\ proc[a] # None
  BY Zenon DEF Procs, Now
<1>2. w \in Left(a)
  BY <1>0, <1>1, AtWord, Zenon
<1>3. /\ Left(a) \subseteq Calling \cup {"unlock"} /\ "unlock" \in Left(a) /\ "shutdown" \notin Left(a)
      /\ w # "unlock" => "start" \in Left(a)
      /\ "enable_rpc" \in Left(a) => "ws_addr" \notin Left(a) /\ "enable_ws" \notin Left(a)
  BY <1>0, <1>2, Zenon DEF JobWords, Stopping, Calling
<1>4. nodeLock = a
  BY <1>0, <1>1, <1>3, Zenon DEF Held
<1>5. "unlock" \notin Left("start") /\ a # "start"
  BY <1>0, <1>4, NodeAssumption DEF Held, Procs
<1>6. Left("start") \cap Configuring = {}
  BY <1>0, <1>5, Zenon DEF JobWords, Configuring, Closing
<1>7. \A b \in Admins : b # a => "unlock" \notin Left(b)
  BY <1>0, <1>4, Zenon DEF Held, Procs
<1>8. \A b \in Admins : b # a => Left(b) \subseteq Stopping
  BY <1>0, <1>7, Zenon DEF JobWords
<1>9. state # "initializing"
  BY <1>0, <1>2, Zenon DEF Unstarted
<1>10. ~late => /\ state # "closed"
                /\ \A p \in Closers \cup {"start"} : "release" \in Left(p) => "stop_http" \in Left(p)
  BY <1>0, <1>4, Zenon DEF Over, Ended
<1> QED
  BY <1>1, <1>2, <1>3, <1>4, <1>5, <1>6, <1>7, <1>8, <1>9, <1>10 DEF Stopping

\* A step that starts no server and is not one of the goroutine that ends the node.
LEMMA EndedKept ==
  ASSUME Ended, UNCHANGED <<state, inproc, ipc, running, nodeLock, late>>,
         \A p \in Closers \cup {"start"} : Left(p)' = Left(p),
         \A s \in Servers : srv'[s].listener # None => srv'[s].mu = srv[s].mu /\ srv'[s].listener = srv[s].listener
  PROVE  Ended'
<1> SUFFICES ASSUME NEW p \in Closers \cup {"start"}, "release" \in Left(p)
             PROVE  /\ "stop_http" \in Left(p) => "stop_ws" \in Left(p)
                    /\ "stop_services" \notin Left(p) => running = {}
                    /\ "stop_inproc" \notin Left(p) => inproc # "registered"
                    /\ "stop_ipc" \notin Left(p) => ~ipc
                    /\ "close_databases" \notin Left(p) => state = "closed"
                    /\ ~late =>
                         /\ "stop_http" \notin Left(p) => nodeLock \notin Admins
                         /\ "stop_http" \notin Left(p) /\ srv'["http"].mu # p => srv'["http"].listener = None
                         /\ "stop_ws" \notin Left(p) /\ srv'["ws"].mu # p => srv'["ws"].listener = None
  BY Zenon DEF Ended
<1>1. /\ srv'["http"].listener # None => srv'["http"].mu = srv["http"].mu /\ srv'["http"].listener = srv["http"].listener
      /\ srv'["ws"].listener # None => srv'["ws"].mu = srv["ws"].mu /\ srv'["ws"].listener = srv["ws"].listener
  BY Zenon DEF Servers
<1> QED
  BY <1>1, Zenon DEF Ended

\* A step of a goroutine that takes and releases no lock.
LEMMA HeldKept ==
  ASSUME Held, NEW p \in Procs, NEW L, Moves(p, L), UNCHANGED <<startStopLock, nodeLock>>,
         L = {} <=> Left(p) = {}, "unlock" \in L <=> "unlock" \in Left(p),
         "shutdown" \notin L, "shutdown" \notin Left(p), \A s \in Servers : srv'[s].mu = srv[s].mu
  PROVE  Held'
<1>1. \A q \in Procs : (Left(q)' = {} <=> Left(q) = {}) /\ ("unlock" \in Left(q)' <=> "unlock" \in Left(q))
  BY Zenon DEF Moves
<1>2. \A q \in Procs : "shutdown" \in Left(q)' <=> "shutdown" \in Left(q)
  BY Zenon DEF Moves
<1>3. \A q \in Procs : "shutdown" \in Left(q) => proc'[q] = proc[q]
  BY Zenon DEF Moves
<1>4. (\A q \in Closers \cup {"start"} : Left(q) # {} <=> startStopLock = q)'
  BY <1>1, Zenon DEF Held, Procs
<1>5. (\A q \in Procs : "unlock" \in Left(q) <=> nodeLock = q)'
  BY <1>1, Zenon DEF Held
<1>6. (\A q \in Procs, s \in Servers : srv[s].mu = q <=> "shutdown" \in Left(q) /\ proc[q].on = s)'
  BY <1>2, <1>3 DEF Held
<1>7. (\A q \in Procs : "shutdown" \in Left(q) => proc[q].on \in Servers)'
  BY <1>2, <1>3, Zenon DEF Held
<1> QED
  BY <1>4, <1>5, <1>6, <1>7, Zenon DEF Held

\* The goroutine that starts or closes the node holds startStopLock: no other does.
LEMMA LockHeld ==
  ASSUME NodeInv, NEW p \in Closers \cup {"start"}, NEW w, Now(p, w)
  PROVE  /\ p \in Procs /\ w \in Left(p) /\ startStopLock = p /\ p \notin Admins /\ None \notin Procs
         /\ \A q \in Closers \cup {"start"} : q # p => Left(q) = {}
<1>0. Jobs /\ Held
  BY Zenon DEF NodeInv
<1>1. p \in Procs /\ p \notin Admins /\ None \notin Procs
  BY NodeAssumption, Zenon DEF Procs
<1>2. w \in Left(p)
  BY <1>0, <1>1, AtWord, Zenon
<1>3. startStopLock = p
  BY <1>0, <1>2, Zenon DEF Held
<1> QED
  BY <1>0, <1>1, <1>2, <1>3, Zenon DEF Held

\* Who stops a server: Close, Start once it has failed, or a call that configures none.
LEMMA StopAt ==
  ASSUME NodeInv, NEW p \in Procs, NEW w \in {"stop_http", "stop_ws", "stopWS"}, Now(p, w)
  PROVE  /\ p \in Procs /\ w \in Left(p) /\ "shutdown" \notin Left(p) /\ proc[p] # None
         /\ w = "stop_ws" => "stop_http" \notin Left(p)
         /\ Left(p) \cap (Configuring \cup Calling \cup {"services"}) = {}
         /\ p \in Admins => Left(p) \subseteq Stopping
         /\ p \in Closers => Left(p) \subseteq Closing /\ "release" \in Left(p)
         /\ p = "start" => Left(p) \subseteq Closing \cup {"unlock"} /\ "release" \in Left(p)
         /\ w = "stopWS" => p \in Admins
<1>0. Jobs /\ JobWords
  BY Zenon DEF NodeInv
<1>1. w \in Left(p) /\ \A v \in Left(p) : v # w => Rank(w) < Rank(v)
  BY <1>0, AtWord, Zenon
<1>2. Rank("shutdown") = 0 /\ Rank("stop_http") = 10 /\ Rank("stop_ws") = 11 /\ Rank("stopWS") = 9
  BY Zenon DEF Rank
<1>3. "shutdown" \notin Left(p) /\ (w = "stop_ws" => "stop_http" \notin Left(p))
  BY <1>1, <1>2
<1>4. p \in Admins => Left(p) \subseteq Stopping
  BY <1>0, <1>1, Zenon DEF JobWords, Calling
<1>5. p \in Closers => Left(p) \subseteq Closing /\ "release" \in Left(p) /\ w # "stopWS"
  BY <1>0, <1>1, Zenon DEF JobWords, Closing
<1>6. p = "start" => Left(p) \subseteq Closing \cup {"unlock"} /\ "release" \in Left(p) /\ w # "stopWS"
  BY <1>0, <1>1 DEF JobWords, Closing, Configuring
<1>7. p \in Admins \/ p \in Closers \/ p = "start"
  BY Zenon DEF Procs
<1>8. Left(p) \cap (Configuring \cup Calling \cup {"services"}) = {}
  BY <1>4, <1>5, <1>6, <1>7, Zenon DEF Configuring, Calling, Stopping, Closing
<1> QED
  BY <1>1, <1>3, <1>4, <1>5, <1>6, <1>7, <1>8, Zenon DEF Now

\* What only the goroutine that ends the node does.
Ends == {"stop_ipc", "stop_inproc", "stop_services", "close_databases", "release"}

\* It is Close, or Start once it has failed; the servers are behind it.
LEMMA EndAt ==
  ASSUME NodeInv, NEW p \in Procs, NEW w \in Ends, Now(p, w)
  PROVE  /\ p \in Procs /\ w \in Left(p) /\ startStopLock = p /\ p \notin Admins /\ None \notin Procs /\ "shutdown" \notin Left(p)
         /\ p \in Closers \cup {"start"} /\ \A q \in Closers \cup {"start"} : q # p => Left(q) = {}
         /\ "release" \in Left(p) /\ "stop_http" \notin Left(p) /\ "stop_ws" \notin Left(p)
         /\ Left(p) \subseteq Closing \cup {"unlock"}
         /\ Left("start") \subseteq Closing \cup {"unlock"}
         /\ p \in Closers => Left(p) \subseteq Closing
         /\ \A v \in Left(p) : v # w => Rank(w) < Rank(v)
<1>0. Jobs /\ JobWords
  BY Zenon DEF NodeInv
<1>1. w \in Left(p) /\ \A v \in Left(p) : v # w => Rank(w) < Rank(v)
  BY <1>0, AtWord, Zenon
<1>2. Rank("shutdown") = 0 /\ Rank("stop_http") = 10 /\ Rank("stop_ws") = 11
  BY Zenon DEF Rank
<1>3. \A v \in Ends : Rank(v) \in Nat /\ Rank(v) > 11
  <2>1. /\ Rank("stop_ipc") = 12 /\ Rank("stop_inproc") = 13 /\ Rank("stop_services") = 16
        /\ Rank("close_databases") = 17 /\ Rank("release") = 18
    BY Zenon DEF Rank
  <2> QED
    BY <2>1 DEF Ends
<1>4. "shutdown" \notin Left(p) /\ "stop_http" \notin Left(p) /\ "stop_ws" \notin Left(p)
  <2>1. ASSUME NEW v \in {"shutdown", "stop_http", "stop_ws"}, v \in Left(p)
        PROVE  FALSE
    <3>1. v # w /\ Rank(v) \in Nat /\ Rank(v) <= 11
      BY <1>2 DEF Ends
    <3>2. Rank(w) < Rank(v)
      BY <1>1, <2>1, <3>1, Zenon
    <3> QED
      BY <1>3, <3>1, <3>2
  <2> QED
    BY <2>1, Zenon
<1>5. p \notin Admins
  BY <1>0, <1>1, Zenon DEF JobWords, Stopping, Calling, Ends
<1>6. p \in Closers \cup {"start"}
  BY <1>5, Zenon DEF Procs
<1>7. startStopLock = p /\ None \notin Procs /\ \A q \in Closers \cup {"start"} : q # p => Left(q) = {}
  BY <1>6, LockHeld, Zenon
<1>8. p \in Closers => Left(p) \subseteq Closing /\ "release" \in Left(p)
  BY <1>0, <1>1, Zenon DEF JobWords
<1>9. p = "start" => Left(p) \subseteq Closing \cup {"unlock"} /\ "release" \in Left(p)
  BY <1>0, <1>1 DEF JobWords, Configuring, Ends
<1> QED
  BY <1>1, <1>4, <1>5, <1>6, <1>7, <1>8, <1>9, Zenon


\* What Start has to do.
LEMMA StartTodo ==
  ASSUME NEW A, NEW B, NEW s,
         A = IF config.http = None THEN <<>> ELSE <<"http_addr", "enable_rpc">>,
         B = IF config.ws = None THEN <<>> ELSE <<"ws_addr", "enable_ws">>,
         s = ((<<"inproc", "ipc">> \o A) \o B) \o <<"start_http", "start_ws", "unlock", "services">>
  PROVE  /\ s \in Seq(Words) /\ s # <<>> /\ Sorted(s)
         /\ WordsOf(s) = {"inproc", "ipc", "start_http", "start_ws", "unlock", "services"}
              \cup (IF config.http = None THEN {} ELSE {"http_addr", "enable_rpc"})
              \cup (IF config.ws = None THEN {} ELSE {"ws_addr", "enable_ws"})
<1>0. /\ "inproc" \in Words /\ "ipc" \in Words /\ "http_addr" \in Words /\ "enable_rpc" \in Words
      /\ "ws_addr" \in Words /\ "enable_ws" \in Words /\ "start_http" \in Words /\ "start_ws" \in Words
      /\ "unlock" \in Words /\ "services" \in Words
  BY Zenon DEF Words
<1>1. /\ Rank("inproc") = 1 /\ Rank("ipc") = 2 /\ Rank("http_addr") = 3 /\ Rank("enable_rpc") = 4
      /\ Rank("ws_addr") = 5 /\ Rank("enable_ws") = 6 /\ Rank("start_http") = 7 /\ Rank("start_ws") = 8
      /\ Rank("unlock") = 14 /\ Rank("services") = 15
  BY Zenon DEF Rank
<1>2. <<>> \in Seq(Words) /\ Sorted(<<>>) /\ WordsOf(<<>>) = {}
  <2>1. PICK e : e = <<>>
    BY Zenon
  <2>2. e \in Seq(Words) /\ Len(e) = 0
    BY <2>1
  <2>3. \A i : i \notin 1..Len(e)
    BY <2>2
  <2>4. Sorted(e)
    BY <2>3, Zenon DEF Sorted
  <2>5. WordsOf(e) = {}
    BY <2>3, Zenon DEF WordsOf
  <2> QED
    BY <2>1, <2>2, <2>4, <2>5, Zenon
<1>3. PICK P, Q : P = <<"inproc", "ipc">> /\ Q = <<"start_http", "start_ws", "unlock", "services">>
  BY Zenon
<1>4. P \in Seq(Words) /\ Sorted(P) /\ WordsOf(P) = {"inproc", "ipc"}
  BY <1>0, <1>1, <1>3, ListTwo
<1>5. Q \in Seq(Words) /\ Sorted(Q) /\ WordsOf(Q) = {"start_http", "start_ws", "unlock", "services"}
  <2>1. /\ Rank("start_http") < Rank("start_ws") /\ Rank("start_http") < Rank("unlock")
        /\ Rank("start_http") < Rank("services") /\ Rank("start_ws") < Rank("unlock")
        /\ Rank("start_ws") < Rank("services") /\ Rank("unlock") < Rank("services")
    BY <1>1
  <2>2. PICK a, b, c, d : a = "start_http" /\ b = "start_ws" /\ c = "unlock" /\ d = "services"
    BY Zenon
  <2>3. a \in Words /\ b \in Words /\ c \in Words /\ d \in Words
    BY <1>0, <2>2, Zenon
  <2>4. /\ <<a, b, c, d>> \in Seq(Words) /\ Sorted(<<a, b, c, d>>)
        /\ WordsOf(<<a, b, c, d>>) = {a, b, c, d}
    BY <2>1, <2>2, <2>3, ListFour
  <2> QED
    BY <1>3, <2>2, <2>4, Zenon
<1>6. /\ A \in Seq(Words) /\ Sorted(A)
      /\ WordsOf(A) = IF config.http = None THEN {} ELSE {"http_addr", "enable_rpc"}
  <2>1. CASE config.http = None
    BY <1>2, <2>1, Zenon
  <2>2. CASE config.http # None
    BY <1>0, <1>1, <2>2, ListTwo
  <2> QED
    BY <2>1, <2>2, Zenon
<1>7. /\ B \in Seq(Words) /\ Sorted(B)
      /\ WordsOf(B) = IF config.ws = None THEN {} ELSE {"ws_addr", "enable_ws"}
  <2>1. CASE config.ws = None
    BY <1>2, <2>1, Zenon
  <2>2. CASE config.ws # None
    BY <1>0, <1>1, <2>2, ListTwo
  <2> QED
    BY <2>1, <2>2, Zenon
<1>8. /\ \A v \in WordsOf(P) : Rank(v) \in Nat /\ Rank(v) <= 2
      /\ \A v \in WordsOf(A) : Rank(v) \in Nat /\ Rank(v) > 2 /\ Rank(v) <= 4
      /\ \A v \in WordsOf(B) : Rank(v) \in Nat /\ Rank(v) > 4 /\ Rank(v) <= 6
      /\ \A v \in WordsOf(Q) : Rank(v) \in Nat /\ Rank(v) > 6
  <2>1. \A v \in {"inproc", "ipc"} : Rank(v) \in Nat /\ Rank(v) <= 2
    BY <1>1
  <2>2. \A v \in {"http_addr", "enable_rpc"} : Rank(v) \in Nat /\ Rank(v) > 2 /\ Rank(v) <= 4
    BY <1>1
  <2>3. \A v \in {"ws_addr", "enable_ws"} : Rank(v) \in Nat /\ Rank(v) > 4 /\ Rank(v) <= 6
    BY <1>1
  <2>4. \A v \in {"start_http", "start_ws", "unlock", "services"} : Rank(v) \in Nat /\ Rank(v) > 6
    BY <1>1
  <2> QED
    BY <1>4, <1>5, <1>6, <1>7, <2>1, <2>2, <2>3, <2>4, Zenon
<1>9. PICK t : t = P \o A
  BY Zenon
<1>10. t \in Seq(Words) /\ Sorted(t) /\ WordsOf(t) = WordsOf(P) \cup WordsOf(A)
  <2>1. \A v \in WordsOf(P), u \in WordsOf(A) : Rank(v) < Rank(u)
    BY <1>8
  <2> QED
    BY <1>4, <1>6, <1>9, <2>1, Joined, Zenon
<1>11. PICK r : r = t \o B
  BY Zenon
<1>12. r \in Seq(Words) /\ Sorted(r) /\ WordsOf(r) = WordsOf(P) \cup WordsOf(A) \cup WordsOf(B)
  <2>1. \A v \in WordsOf(t), u \in WordsOf(B) : Rank(v) < Rank(u)
    BY <1>8, <1>10
  <2>2. r \in Seq(Words) /\ Sorted(r) /\ WordsOf(r) = WordsOf(t) \cup WordsOf(B)
    BY <1>7, <1>10, <1>11, <2>1, Joined, Zenon
  <2> QED
    BY <1>10, <2>2, Zenon
<1>13. s = r \o Q
  BY <1>3, <1>9, <1>11, Zenon
<1>14. s \in Seq(Words) /\ Sorted(s) /\ WordsOf(s) = WordsOf(P) \cup WordsOf(A) \cup WordsOf(B) \cup WordsOf(Q)
  <2>1. \A v \in WordsOf(r), u \in WordsOf(Q) : Rank(v) < Rank(u)
    BY <1>8, <1>12
  <2>2. r \o Q \in Seq(Words) /\ Sorted(r \o Q) /\ WordsOf(r \o Q) = WordsOf(r) \cup WordsOf(Q)
    BY <1>5, <1>12, <2>1, Joined, Zenon
  <2> QED
    BY <1>12, <1>13, <2>2, Zenon
<1>15. s # <<>>
  BY <1>2, <1>5, <1>14, Zenon
<1>16. WordsOf(s) = {"inproc", "ipc", "start_http", "start_ws", "unlock", "services"} \cup WordsOf(A) \cup WordsOf(B)
  BY <1>4, <1>5, <1>14, Zenon
<1> QED
  BY <1>6, <1>7, <1>14, <1>15, <1>16, Zenon

------------------------------------------------------------------------------
(* The steps of Start, and of the calls that start a server. *)

\* startInProc.
LEMMA StartInProcKeeps ==
  ASSUME NodeInv, StartInProc
  PROVE  NodeInv'
<1>0. /\ Shape /\ Jobs /\ JobWords /\ Held /\ OnServer /\ StopDrops /\ ListensAtEndpoint /\ Fresh
      /\ WillStart /\ Ended /\ Over /\ Unstarted /\ Lifecycles
  BY Zenon DEF NodeInv
<1>1. Now("start", "inproc") /\ "start" \in Procs /\ Advance("start")
  BY Zenon DEF StartInProc, Procs
<1>2. /\ "inproc" \in Left("start") /\ Moves("start", Left("start") \ {"inproc"})
      /\ Left("start") \ {"inproc"} # {} => proc'["start"].on = proc["start"].on
  BY <1>0, <1>1, AtWord, Advanced, Zenon
<1>3. /\ inproc' = "registered" /\ UNCHANGED <<config, state, startStopLock, running, tracked, closes,
         dirLocked, stopped, nodeLock, ipc, srv, late>>
  BY Zenon DEF StartInProc, NodeState
<1>4. /\ Left("start")' = Left("start") \ {"inproc"} /\ Jobs'
      /\ \A c \in Closers : Left(c)' = Left(c) /\ proc'[c] = proc[c]
      /\ \A a \in Admins : Left(a)' = Left(a) /\ proc'[a] = proc[a]
      /\ "start" \notin Closers /\ "start" \notin Admins /\ None \notin Procs
  BY <1>1, <1>2, Others, Zenon
<1>5. /\ "services" \in Left("start") /\ "release" \notin Left("start") /\ "shutdown" \notin Left("start")
      /\ startStopLock = "start" /\ state = "running" /\ \A c \in Closers : Left(c) = {}
  BY <1>0, <1>2, <1>4 DEF JobWords, Held, Closing, Configuring, Lifecycles
<1>6. Jobs'
  BY <1>2, <1>3, <1>4, <1>5, Zenon
<1>7. JobWords'
  BY <1>0, <1>2, <1>3, <1>4, <1>5 DEF JobWords, Configuring, Closing
<1>8. Held'
  BY <1>0, <1>2, <1>3, <1>4, <1>5 DEF Held, Procs
<1> USE <1>0, <1>2, <1>3, <1>4, <1>5
<1>9. Shape'
  BY Zenon DEF Shape
<1>10. OnServer'
  BY DEF OnServer
<1>11. StopDrops'
  BY Zenon DEF StopDrops
<1>12. ListensAtEndpoint'
  BY Zenon DEF ListensAtEndpoint
<1>13. Fresh'
  BY Zenon DEF Fresh
<1>14. WillStart'
  BY DEF WillStart
<1>15. Ended'
  BY Zenon DEF Ended
<1>16. Over'
  BY Zenon DEF Over
<1>17. Unstarted'
  BY Zenon DEF Unstarted
<1>18. Lifecycles'
  BY Zenon DEF Lifecycles
<1> QED
  BY <1>6, <1>7, <1>8, <1>9, <1>10, <1>11, <1>12, <1>13, <1>14, <1>15, <1>16, <1>17, <1>18, Zenon DEF NodeInv

\* startIPC, once the endpoint is opened.
LEMMA StartIPCKeeps ==
  ASSUME NodeInv, Now("start", "ipc"), Advance("start"), ipc' = TRUE,
         UNCHANGED <<config, NodeState, nodeLock, inproc, srv, late>>
  PROVE  NodeInv'
<1>0. /\ Shape /\ Jobs /\ JobWords /\ Held /\ OnServer /\ StopDrops /\ ListensAtEndpoint /\ Fresh
      /\ WillStart /\ Ended /\ Over /\ Unstarted /\ Lifecycles
  BY Zenon DEF NodeInv
<1>1. "start" \in Procs
  BY Zenon DEF Procs
<1>2. /\ "ipc" \in Left("start") /\ Moves("start", Left("start") \ {"ipc"})
      /\ Left("start") \ {"ipc"} # {} => proc'["start"].on = proc["start"].on
  BY <1>0, <1>1, AtWord, Advanced, Zenon
<1>3. ipc' = TRUE /\ UNCHANGED <<config, state, startStopLock, running, tracked, closes,
         dirLocked, stopped, nodeLock, inproc, srv, late>>
  BY Zenon DEF NodeState
<1>4. /\ Left("start")' = Left("start") \ {"ipc"} /\ Jobs' /\ "start" \in Procs
      /\ \A c \in Closers : Left(c)' = Left(c) /\ proc'[c] = proc[c]
      /\ \A a \in Admins : Left(a)' = Left(a) /\ proc'[a] = proc[a]
      /\ "start" \notin Closers /\ "start" \notin Admins /\ None \notin Procs
  BY <1>1, <1>2, Others, Zenon
<1>5. /\ "services" \in Left("start") /\ "release" \notin Left("start") /\ "shutdown" \notin Left("start")
      /\ startStopLock = "start" /\ state = "running" /\ \A c \in Closers : Left(c) = {}
  BY <1>0, <1>2, <1>4 DEF JobWords, Held, Closing, Configuring, Lifecycles
<1>6. Jobs'
  BY <1>2, <1>3, <1>4, <1>5, Zenon
<1>7. JobWords'
  BY <1>0, <1>2, <1>3, <1>4, <1>5 DEF JobWords, Configuring, Closing
<1>8. Held'
  BY <1>0, <1>2, <1>3, <1>4, <1>5 DEF Held, Procs
<1> USE <1>0, <1>2, <1>3, <1>4, <1>5
<1>9. Shape'
  BY Zenon DEF Shape
<1>10. OnServer'
  BY DEF OnServer
<1>11. StopDrops'
  BY Zenon DEF StopDrops
<1>12. ListensAtEndpoint'
  BY Zenon DEF ListensAtEndpoint
<1>13. Fresh'
  BY Zenon DEF Fresh
<1>14. WillStart'
  BY DEF WillStart
<1>15. Ended'
  BY Zenon DEF Ended
<1>16. Over'
  BY Zenon DEF Over
<1>17. Unstarted'
  BY Zenon DEF Unstarted
<1>18. Lifecycles'
  BY Zenon DEF Lifecycles
<1> QED
  BY <1>6, <1>7, <1>8, <1>9, <1>10, <1>11, <1>12, <1>13, <1>14, <1>15, <1>16, <1>17, <1>18, Zenon DEF NodeInv

\* A step of Start has failed: the servers are stopped.
LEMMA StartFailedKeeps ==
  ASSUME NodeInv, NEW w \in Configuring, Now("start", w), StartFailed, ipc' \in BOOLEAN,
         UNCHANGED <<config, NodeState, nodeLock, inproc, late>>,
         NEW s \in Servers, (srv' = srv /\ \A t \in Servers : ~srv[t].rpc) \/ srv' = [srv EXCEPT ![s] = StartFails(@)],
         "start_http" \in Left("start") => s = "http"
  PROVE  NodeInv'
<1>0. /\ Shape /\ Jobs /\ JobWords /\ Held /\ OnServer /\ StopDrops /\ ListensAtEndpoint /\ Fresh
      /\ WillStart /\ Ended /\ Over /\ Unstarted /\ Lifecycles
  BY Zenon DEF NodeInv
<1>1. "start" \in Procs /\ proc["start"] # None
  BY Zenon DEF Procs, Now
<1>2. w \in Left("start")
  BY <1>0, <1>1, AtWord, Zenon
<1>3. Moves("start", EndWords \cup {"unlock"}) /\ proc'["start"].on = proc["start"].on
  BY <1>0, <1>1, Continued, Endings, Zenon DEF StartFailed
<1>4. UNCHANGED <<config, state, startStopLock, running, tracked, closes,
         dirLocked, stopped, nodeLock, inproc, late>>
  BY Zenon DEF NodeState
<1>5. /\ Left("start")' = EndWords \cup {"unlock"} /\ Jobs' /\ "start" \in Procs
      /\ \A c \in Closers : Left(c)' = Left(c) /\ proc'[c] = proc[c]
      /\ \A a \in Admins : Left(a)' = Left(a) /\ proc'[a] = proc[a]
      /\ "start" \notin Closers /\ "start" \notin Admins /\ None \notin Procs
  BY <1>1, <1>3, Others, Zenon
<1>6. /\ "services" \in Left("start") /\ "release" \notin Left("start") /\ "shutdown" \notin Left("start")
      /\ "unlock" \in Left("start") /\ nodeLock = "start"
      /\ startStopLock = "start" /\ state = "running" /\ \A c \in Closers : Left(c) = {}
  BY <1>0, <1>1, <1>2, <1>5 DEF JobWords, Held, Closing, Configuring, Lifecycles
<1>7. \A a \in Admins : "unlock" \notin Left(a) /\ "start" \notin Left(a) /\ Left(a) \subseteq Stopping
  BY <1>0, <1>5, <1>6 DEF JobWords, Held, Procs, Stopping
<1>8. /\ srv' \in [Servers -> ServerRecord]
      /\ \A t \in Servers : /\ srv'[t].mu = srv[t].mu /\ srv'[t].port = srv[t].port
                            /\ srv'[t].listener = srv[t].listener /\ (srv'[t].rpc => srv[t].rpc)
      /\ (\A t \in Servers : ~srv'[t].rpc) \/ ~srv'[s].rpc
  <2>1. srv \in [Servers -> ServerRecord]
    BY <1>0, Zenon DEF Shape, ServerRecord
  <2>2. CASE srv' = srv /\ \A t \in Servers : ~srv[t].rpc
    BY <2>1, <2>2, Zenon
  <2>3. CASE srv' = [srv EXCEPT ![s] = StartFails(@)]
    <3>1. srv[s] \in ServerRecord
      BY <2>1, Zenon
    <3>2. /\ StartFails(srv[s]) \in ServerRecord /\ ~StartFails(srv[s]).rpc /\ StartFails(srv[s]).mu = srv[s].mu
          /\ StartFails(srv[s]).port = srv[s].port /\ StartFails(srv[s]).listener = srv[s].listener
      BY <1>1, <3>1, ServerFields, Zenon
    <3>3. /\ srv' \in [Servers -> ServerRecord] /\ srv'[s] = StartFails(srv[s])
          /\ \A t \in Servers : t # s => srv'[t] = srv[t]
      BY <1>0, <2>3, <3>2, OneServer, Zenon
    <3> QED
      BY <3>2, <3>3, Zenon
  <2> QED
    BY <2>2, <2>3, Zenon
<1>9. ~late => \A t \in Servers : srv'[t].rpc => srv'[t].listener # None
  BY <1>0, <1>7, <1>8 DEF WillStart, Servers
<1>10. Shape'
  BY <1>0, <1>3, <1>4, <1>5, <1>6, <1>7, <1>8, <1>9 DEF Shape, ServerRecord
<1>11. Jobs'
  BY <1>3, <1>4, <1>5, <1>6, <1>7, <1>8, <1>9, Zenon
<1>12. JobWords'
  BY <1>0, <1>3, <1>4, <1>5, <1>6, <1>7, <1>8, <1>9 DEF JobWords, Configuring, Closing, EndWords
<1>13. Held'
  BY <1>0, <1>3, <1>4, <1>5, <1>6, <1>7, <1>8, <1>9 DEF Held, Procs, EndWords
<1>14. OnServer'
  BY <1>0, <1>3, <1>4, <1>5, <1>6, <1>7, <1>8, <1>9 DEF OnServer, EndWords, Stopping
<1>15. Fresh'
  BY <1>0, <1>3, <1>4, <1>5, <1>6, <1>7, <1>8, <1>9, Zenon DEF Fresh, EndWords
<1>16. WillStart'
  <2>1. \A p \in Admins \cup {"start"} : "enable_rpc" \notin Left(p)'
    BY <1>5, <1>7 DEF EndWords, Stopping
  <2> QED
    BY <1>4, <1>9, <2>1 DEF WillStart
<1>17. Ended'
  <2>1. \A c \in Closers : Left(c)' = {}
    BY <1>5, <1>6, Zenon
  <2>2. /\ "stop_services" \in Left("start")' \/ running' = {}
        /\ "stop_http" \in Left("start")' /\ "stop_ws" \in Left("start")' /\ "stop_ipc" \in Left("start")'
        /\ "stop_inproc" \in Left("start")' /\ "close_databases" \in Left("start")'
    BY <1>0, <1>4, <1>5, <1>6, Zenon DEF EndWords, Lifecycles
  <2> QED
    BY <2>1, <2>2, Zenon DEF Ended
<1>18. Over'
  BY <1>0, <1>3, <1>4, <1>5, <1>6, <1>7, <1>8, <1>9, Zenon DEF Over, EndWords
<1>19. Lifecycles'
  BY <1>0, <1>3, <1>4, <1>5, <1>6, <1>7, <1>8, <1>9, Zenon DEF Lifecycles, EndWords
<1> USE <1>0, <1>3, <1>4, <1>5, <1>6, <1>7, <1>8, <1>9
<1>20. StopDrops'
  BY Zenon DEF StopDrops
<1>21. ListensAtEndpoint'
  BY DEF ListensAtEndpoint
<1>22. Unstarted'
  BY Zenon DEF Unstarted
<1> QED
  BY <1>10, <1>11, <1>12, <1>13, <1>14, <1>15, <1>16, <1>17, <1>18, <1>19, <1>20, <1>21, <1>22, Zenon DEF NodeInv

\* A step of a call has failed: the call returns.
LEMMA CallFailedKeeps ==
  ASSUME NodeInv, NEW a \in Admins, NEW w \in Calling, Now(a, w), Continue(a, <<"unlock">>),
         UNCHANGED <<config, NodeState, nodeLock, inproc, ipc, late>>,
         (srv' = srv /\ w # "start") \/ (srv' = [srv EXCEPT ![proc[a].on] = StartFails(@)] /\ w = "start")
  PROVE  NodeInv'
<1>0. /\ Shape /\ Jobs /\ JobWords /\ Held /\ OnServer /\ StopDrops /\ ListensAtEndpoint /\ Fresh
      /\ WillStart /\ Ended /\ Over /\ Unstarted /\ Lifecycles
  BY Zenon DEF NodeInv
<1>1. /\ a \in Procs /\ proc[a] # None /\ w \in Left(a) /\ "shutdown" \notin Left(a)
      /\ "unlock" \in Left(a) /\ nodeLock = a /\ "start" \in Left(a)
      /\ Left(a) \subseteq Calling \cup {"unlock"}
      /\ "enable_rpc" \in Left(a) => "ws_addr" \notin Left(a) /\ "enable_ws" \notin Left(a)
      /\ Left("start") \cap Configuring = {} /\ "unlock" \notin Left("start")
      /\ \A b \in Admins : b # a => "unlock" \notin Left(b) /\ "start" \notin Left(b) /\ Left(b) \subseteq Stopping
      /\ state # "initializing"
      /\ ~late => /\ state # "closed"
                  /\ \A p \in Closers \cup {"start"} : "release" \in Left(p) => "stop_http" \in Left(p)
  BY CallAt, Zenon DEF Calling
<1>2. Moves(a, {"unlock"}) /\ proc'[a].port = proc[a].port
  <2>1. "unlock" \in Words
    BY Zenon DEF Words
  <2>2. <<"unlock">> \in Seq(Words) /\ Sorted(<<"unlock">>) /\ WordsOf(<<"unlock">>) = {"unlock"} /\ <<"unlock">> # <<>>
    BY <2>1, ListOne, Zenon
  <2> QED
    BY <1>0, <1>1, <2>2, Continued, Zenon
<1>3. UNCHANGED <<config, state, startStopLock, running, tracked, closes,
         dirLocked, stopped, nodeLock, inproc, ipc, late>>
  BY Zenon DEF NodeState
<1>4. /\ Left(a)' = {"unlock"} /\ Jobs'
      /\ \A c \in Closers : Left(c)' = Left(c) /\ proc'[c] = proc[c]
      /\ \A b \in Admins : b # a => Left(b)' = Left(b) /\ proc'[b] = proc[b]
      /\ Left("start")' = Left("start") /\ proc'["start"] = proc["start"]
      /\ "start" \notin Closers /\ "start" \notin Admins /\ Closers \cap Admins = {} /\ None \notin Procs
  BY <1>1, <1>2, Others, NodeAssumption
<1>5. w = "start" => "http_addr" \notin Left(a) /\ "ws_addr" \notin Left(a) /\ proc[a].on \in Servers
  <2>1. \A v \in Left(a) : v # w => Rank(w) < Rank(v)
    BY <1>0, <1>1, AtWord, Zenon
  <2>2. Rank("start") = 7 /\ Rank("http_addr") = 3 /\ Rank("ws_addr") = 5
    BY Zenon DEF Rank
  <2>3. w = "start" => "http_addr" \notin Left(a) /\ "ws_addr" \notin Left(a)
    BY <2>1, <2>2
  <2> QED
    BY <1>0, <1>1, <2>3, Zenon DEF OnServer
<1>6. /\ srv' \in [Servers -> ServerRecord]
      /\ \A t \in Servers : /\ srv'[t].mu = srv[t].mu /\ srv'[t].port = srv[t].port
                            /\ srv'[t].listener = srv[t].listener /\ (srv'[t].rpc => srv[t].rpc)
      /\ w = "start" => ~srv'[proc[a].on].rpc
  <2>1. srv \in [Servers -> ServerRecord]
    BY <1>0, Zenon DEF Shape, ServerRecord
  <2>2. CASE srv' = srv /\ w # "start"
    BY <2>1, <2>2, Zenon
  <2>3. CASE srv' = [srv EXCEPT ![proc[a].on] = StartFails(@)] /\ w = "start"
    <3>1. PICK s \in Servers : s = proc[a].on
      BY <1>5, <2>3, Zenon
    <3>2. srv[s] \in ServerRecord
      BY <2>1, Zenon
    <3>3. /\ StartFails(srv[s]) \in ServerRecord /\ ~StartFails(srv[s]).rpc /\ StartFails(srv[s]).mu = srv[s].mu
          /\ StartFails(srv[s]).port = srv[s].port /\ StartFails(srv[s]).listener = srv[s].listener
      BY <1>1, <3>2, ServerFields, Zenon
    <3>4. /\ srv' \in [Servers -> ServerRecord] /\ srv'[s] = StartFails(srv[s])
          /\ \A t \in Servers : t # s => srv'[t] = srv[t]
      BY <1>0, <2>3, <3>1, <3>3, OneServer, Zenon
    <3> QED
      BY <3>1, <3>3, <3>4, Zenon
  <2> QED
    BY <2>2, <2>3, Zenon
<1>7. ~late => \A t \in Servers : srv'[t].rpc => srv'[t].listener # None
  <2>1. w # "start" => ~(Left(a) \subseteq {"start", "unlock"})
    BY <1>1, Zenon DEF Calling
  <2>2. ASSUME ~late, NEW t \in Servers, srv'[t].rpc, srv'[t].listener = None
        PROVE  "start" \in Left(a) /\ proc[a].on = t /\ Left(a) \subseteq {"start", "unlock"}
    BY <1>0, <1>1, <1>6, <2>2 DEF WillStart, Configuring
  <2> QED
    BY <1>6, <2>1, <2>2, Zenon
<1>8. \A p \in Admins \cup {"start"} : "enable_rpc" \notin Left(p)' /\ "start" \notin Left(p)'
  <2>1. Left("start") \subseteq Configuring \cup {"unlock", "services"} \/ Left("start") \subseteq Closing \cup {"unlock"}
    BY <1>0, Zenon DEF JobWords
  <2>2. "enable_rpc" \notin Left("start") /\ "start" \notin Left("start")
    BY <1>1, <2>1, Zenon DEF Configuring, Closing
  <2> QED
    BY <1>1, <1>4, <2>2 DEF Stopping
<1>9. Shape'
  BY <1>0, <1>1, <1>2, <1>3, <1>4, <1>6 DEF Shape, ServerRecord
<1>10. Jobs'
  BY <1>1, <1>2, <1>3, <1>4, <1>6, Zenon
<1>11. JobWords'
  BY <1>0, <1>1, <1>2, <1>3, <1>4, <1>6 DEF JobWords, Calling, Stopping
<1>12. Held'
  BY <1>0, <1>1, <1>2, <1>3, <1>4, <1>6 DEF Held, Procs
<1>13. OnServer'
  BY <1>0, <1>1, <1>2, <1>3, <1>4, <1>6 DEF OnServer, Stopping
<1>14. Fresh'
  BY <1>1, <1>4, <1>6 DEF Fresh, Configuring
<1>15. WillStart'
  <2>1. late' = late
    BY <1>3, Zenon
  <2> QED
    BY <1>7, <1>8, <2>1 DEF WillStart
<1>16. Ended'
  BY <1>0, <1>3, <1>4, <1>6, EndedKept, Zenon
<1> USE <1>0, <1>1, <1>2, <1>3, <1>4, <1>6
<1>17. StopDrops'
  BY Zenon DEF StopDrops
<1>18. ListensAtEndpoint'
  BY DEF ListensAtEndpoint
<1>19. Over'
  BY DEF Over
<1>20. Unstarted'
  BY Zenon DEF Unstarted
<1>21. Lifecycles'
  BY Zenon DEF Lifecycles
<1> QED
  BY <1>9, <1>10, <1>11, <1>12, <1>13, <1>14, <1>15, <1>16, <1>17, <1>18, <1>19, <1>20, <1>21, Zenon DEF NodeInv

\* setListenAddr, of Start.
LEMMA StartAddressedKeeps ==
  ASSUME NodeInv, NEW w \in {"http_addr", "ws_addr"}, Now("start", w), NEW s \in Servers, NEW x \in {1, 2},
         w = "http_addr" => s = "http", srv' = [srv EXCEPT ![s].port = x],
         Goes("start", s),
         UNCHANGED <<config, NodeState, nodeLock, inproc, ipc, late>>
  PROVE  NodeInv'
<1>0. /\ Shape /\ Jobs /\ JobWords /\ Held /\ OnServer /\ StopDrops /\ ListensAtEndpoint /\ Fresh
      /\ WillStart /\ Ended /\ Over /\ Unstarted /\ Lifecycles
  BY Zenon DEF NodeInv
<1>1. /\ "start" \in Procs /\ proc["start"] # None /\ w \in Left("start")
      /\ "services" \in Left("start") /\ "release" \notin Left("start") /\ "shutdown" \notin Left("start")
      /\ "unlock" \in Left("start") /\ nodeLock = "start"
      /\ Left("start") \subseteq Configuring \cup {"unlock", "services"}
      /\ w # "start_ws" => "start_http" \in Left("start")
      /\ startStopLock = "start" /\ state = "running" /\ \A c \in Closers : Left(c) = {}
      /\ \A a \in Admins : "unlock" \notin Left(a) /\ "start" \notin Left(a) /\ Left(a) \subseteq Stopping
  BY StartAt, Zenon DEF Configuring
<1>2. Moves("start", Left("start") \ {w}) /\ proc'["start"].on = s
  <2>1. Left("start") \ {w} # {}
    BY <1>1
  <2> QED
    BY <1>0, <1>1, <2>1, Addressed, Zenon
<1>3. UNCHANGED <<config, state, startStopLock, running, tracked, closes,
         dirLocked, stopped, nodeLock, inproc, ipc, late>>
  BY Zenon DEF NodeState
<1>4. /\ Left("start")' = Left("start") \ {w} /\ Jobs' /\ "start" \in Procs
      /\ \A c \in Closers : Left(c)' = Left(c) /\ proc'[c] = proc[c]
      /\ \A a \in Admins : Left(a)' = Left(a) /\ proc'[a] = proc[a]
      /\ "start" \notin Closers /\ "start" \notin Admins /\ None \notin Procs
  BY <1>1, <1>2, Others
<1>5. /\ srv' \in [Servers -> ServerRecord] /\ srv'[s] = [srv[s] EXCEPT !.port = x]
      /\ \A t \in Servers : /\ srv'[t].mu = srv[t].mu /\ srv'[t].listener = srv[t].listener
                            /\ srv'[t].rpc = srv[t].rpc /\ srv'[t].ws = srv[t].ws
                            /\ t # s => srv'[t] = srv[t]
      /\ srv'[s].port = x
  <2>1. srv \in [Servers -> ServerRecord]
    BY <1>0, Zenon DEF Shape, ServerRecord
  <2>2. PICK h : h = [srv[s] EXCEPT !.port = x]
    BY Zenon
  <2>3. srv[s] \in ServerRecord /\ x \in {None, 1, 2} \cup AdminPorts
    BY <2>1, Zenon
  <2>4. /\ h \in ServerRecord /\ h.rpc = srv[s].rpc /\ h.ws = srv[s].ws /\ h.mu = srv[s].mu /\ h.port = x
        /\ h.listener = srv[s].listener
    BY <2>2, <2>3, Zenon DEF ServerRecord
  <2>5. srv' = [srv EXCEPT ![s] = h]
    BY <2>2, Zenon
  <2>6. /\ srv' \in [Servers -> ServerRecord] /\ srv'[s] = h
        /\ \A t \in Servers : t # s => srv'[t] = srv[t]
    BY <1>0, <2>4, <2>5, OneServer, Zenon
  <2> QED
    BY <2>2, <2>4, <2>6, Zenon
<1>6. /\ w = "ws_addr" => "http_addr" \notin Left("start") /\ "enable_rpc" \notin Left("start")
      /\ "ipc" \notin Left("start")
  <2>1. \A v \in Left("start") : v # w => Rank(w) < Rank(v)
    BY <1>0, <1>1, AtWord, Zenon
  <2>2. Rank("ipc") = 2 /\ Rank("http_addr") = 3 /\ Rank("enable_rpc") = 4 /\ Rank("ws_addr") = 5
    BY Zenon DEF Rank
  <2> QED
    BY <2>1, <2>2
<1>7. /\ None \notin {1, 2} /\ "start_http" \in Left("start") /\ srv[s].listener = None
      /\ srv["http"].mu = None /\ srv["ws"].mu = None
  BY <1>0, <1>1, NodeAssumption, Zenon DEF Fresh, Servers
<1>8. Shape'
  BY <1>0, <1>1, <1>2, <1>3, <1>4, <1>5, <1>6, <1>7 DEF Shape, ServerRecord
<1>9. Jobs'
  BY <1>1, <1>2, <1>3, <1>4, <1>5, <1>6, <1>7, Zenon
<1>10. JobWords'
  BY <1>0, <1>1, <1>2, <1>3, <1>4, <1>5, <1>6, <1>7 DEF JobWords, Configuring, Closing
<1>11. Held'
  <2>1. /\ Left("start") \ {w} = {} <=> Left("start") = {}
        /\ "unlock" \in Left("start") \ {w} <=> "unlock" \in Left("start")
        /\ "shutdown" \notin Left("start") \ {w} /\ "shutdown" \notin Left("start")
    BY <1>1
  <2> QED
    BY <1>0, <1>1, <1>2, <1>3, <1>5, <2>1, HeldKept, Zenon
<1>12. OnServer'
  <2>1. \A a \in Admins : /\ "enable_rpc" \notin Left(a)' /\ "enable_ws" \notin Left(a)'
                           /\ "start" \notin Left(a)' /\ "unlock" \notin Left(a)'
    BY <1>1, <1>4 DEF Stopping
  <2>2. "enable_rpc" \in Left("start")' /\ "http_addr" \notin Left("start")' => proc'["start"].on = "http"
    BY <1>2, <1>4, <1>6, Zenon
  <2>3. proc'["start"].on \in Servers
    BY <1>2, Zenon
  <2>4. ("http_addr" \in Left("start") => config.http # None)' /\ ("ws_addr" \in Left("start") => config.ws # None)'
    BY <1>0, <1>3, <1>4, Zenon DEF OnServer
  <2> QED
    BY <2>1, <2>2, <2>3, <2>4, Zenon DEF OnServer
<1>13. ListensAtEndpoint'
  BY <1>0, <1>5, <1>7 DEF ListensAtEndpoint
<1>14. WillStart'
  <2>1. ASSUME ~late, NEW t \in Servers, srv'[t].rpc, srv'[t].listener = None
        PROVE  srv'[t].port # None /\ t = "http"
    BY <1>0, <1>1, <1>5, <1>7, <2>1 DEF WillStart
  <2>2. "start_http" \in Left("start")'
    BY <1>4, <1>7, Zenon
  <2>3. ASSUME ~late, NEW p \in Admins \cup {"start"}, "enable_rpc" \in Left(p)', "http_addr" \notin Left(p)'
        PROVE  srv'["http"].port # None /\ srv'["http"].mu = None
    <3>1. p = "start"
      BY <1>1, <1>4, <2>3 DEF Stopping
    <3>2. w = "http_addr" \/ "http_addr" \notin Left("start")
      BY <1>4, <1>6, Zenon
    <3>3. "http" \in Servers
      BY Zenon DEF Servers
    <3> QED
      BY <1>0, <1>4, <1>5, <1>6, <1>7, <2>3, <3>1, <3>2, <3>3 DEF WillStart
  <2> QED
    BY <1>3, <2>1, <2>2, <2>3 DEF WillStart
<1>15. Ended'
  BY <1>1, <1>4 DEF Ended
<1>16. Over'
  BY <1>0, <1>1, <1>2, <1>3, <1>4, <1>5, <1>6, <1>7, Zenon DEF Over, Servers
<1>17. Unstarted'
  BY <1>0, <1>1, <1>2, <1>3, <1>4, <1>5, <1>6, <1>7, Zenon DEF Unstarted, Off
<1> USE <1>0, <1>1, <1>2, <1>3, <1>4, <1>5, <1>6, <1>7
<1>18. StopDrops'
  BY DEF StopDrops
<1>19. Fresh'
  BY DEF Fresh
<1>20. Lifecycles'
  BY DEF Lifecycles
<1> QED
  BY <1>8, <1>9, <1>10, <1>11, <1>12, <1>13, <1>14, <1>15, <1>16, <1>17, <1>18, <1>19, <1>20, Zenon DEF NodeInv

\* setListenAddr, of a call.
LEMMA CallAddressedKeeps ==
  ASSUME NodeInv, NEW a \in Admins, NEW w \in {"http_addr", "ws_addr"}, Now(a, w), NEW s \in Servers,
         NEW x \in AdminPorts, w = "http_addr" => s = "http", srv[s].mu = None, CanListen(srv[s], x),
         srv' = [srv EXCEPT ![s].port = x], Goes(a, s),
         UNCHANGED <<config, NodeState, nodeLock, inproc, ipc, late>>
  PROVE  NodeInv'
<1>0. /\ Shape /\ Jobs /\ JobWords /\ Held /\ OnServer /\ StopDrops /\ ListensAtEndpoint /\ Fresh
      /\ WillStart /\ Ended /\ Over /\ Unstarted /\ Lifecycles
  BY Zenon DEF NodeInv
<1>1. /\ a \in Procs /\ proc[a] # None /\ w \in Left(a) /\ "shutdown" \notin Left(a)
      /\ "unlock" \in Left(a) /\ nodeLock = a /\ "start" \in Left(a)
      /\ Left(a) \subseteq Calling \cup {"unlock"}
      /\ "enable_rpc" \in Left(a) => "ws_addr" \notin Left(a) /\ "enable_ws" \notin Left(a)
      /\ Left("start") \cap Configuring = {} /\ "unlock" \notin Left("start")
      /\ \A b \in Admins : b # a => "unlock" \notin Left(b) /\ "start" \notin Left(b) /\ Left(b) \subseteq Stopping
      /\ state # "initializing"
      /\ ~late => /\ state # "closed"
                  /\ \A p \in Closers \cup {"start"} : "release" \in Left(p) => "stop_http" \in Left(p)
  BY CallAt, Zenon DEF Calling
<1>2. Moves(a, Left(a) \ {w}) /\ proc'[a].on = s /\ proc'[a].port = proc[a].port
  <2>1. Left(a) \ {w} # {}
    BY <1>1
  <2> QED
    BY <1>0, <1>1, <2>1, Addressed, Zenon
<1>3. UNCHANGED <<config, state, startStopLock, running, tracked, closes,
         dirLocked, stopped, nodeLock, inproc, ipc, late>>
  BY Zenon DEF NodeState
<1>4. /\ Left(a)' = Left(a) \ {w} /\ Jobs'
      /\ \A c \in Closers : Left(c)' = Left(c) /\ proc'[c] = proc[c]
      /\ \A b \in Admins : b # a => Left(b)' = Left(b) /\ proc'[b] = proc[b]
      /\ Left("start")' = Left("start") /\ proc'["start"] = proc["start"]
      /\ "start" \notin Closers /\ "start" \notin Admins /\ Closers \cap Admins = {} /\ None \notin Procs
  BY <1>1, <1>2, Others, NodeAssumption
<1>5. /\ srv' \in [Servers -> ServerRecord] /\ srv'[s] = [srv[s] EXCEPT !.port = x]
      /\ \A t \in Servers : /\ srv'[t].mu = srv[t].mu /\ srv'[t].listener = srv[t].listener
                            /\ srv'[t].rpc = srv[t].rpc /\ srv'[t].ws = srv[t].ws
                            /\ t # s => srv'[t] = srv[t]
      /\ srv'[s].port = x
  <2>1. srv \in [Servers -> ServerRecord]
    BY <1>0, Zenon DEF Shape, ServerRecord
  <2>2. PICK h : h = [srv[s] EXCEPT !.port = x]
    BY Zenon
  <2>3. srv[s] \in ServerRecord /\ x \in {None, 1, 2} \cup AdminPorts
    BY <2>1, Zenon
  <2>4. /\ h \in ServerRecord /\ h.rpc = srv[s].rpc /\ h.ws = srv[s].ws /\ h.mu = srv[s].mu /\ h.port = x
        /\ h.listener = srv[s].listener
    BY <2>2, <2>3, Zenon DEF ServerRecord
  <2>5. srv' = [srv EXCEPT ![s] = h]
    BY <2>2, Zenon
  <2>6. /\ srv' \in [Servers -> ServerRecord] /\ srv'[s] = h
        /\ \A t \in Servers : t # s => srv'[t] = srv[t]
    BY <1>0, <2>4, <2>5, OneServer, Zenon
  <2> QED
    BY <2>2, <2>4, <2>6, Zenon
<1>6. /\ w = "ws_addr" => "http_addr" \notin Left(a) /\ "enable_rpc" \notin Left(a)
      /\ ~(Left(a) \subseteq {"start", "unlock"})
  <2>1. \A v \in Left(a) : v # w => Rank(w) < Rank(v)
    BY <1>0, <1>1, AtWord, Zenon
  <2>2. Rank("http_addr") = 3 /\ Rank("enable_rpc") = 4 /\ Rank("ws_addr") = 5
    BY Zenon DEF Rank
  <2> QED
    BY <1>1, <2>1, <2>2
<1>7. None \notin AdminPorts /\ (srv[s].listener # None => srv[s].listener = x)
  BY <1>0, NodeAssumption, Zenon DEF CanListen, ListensAtEndpoint
<1>8. "enable_rpc" \notin Left("start")
  BY <1>1, Zenon DEF Configuring
<1>9. Shape'
  BY <1>0, <1>1, <1>2, <1>3, <1>4, <1>5, <1>6, <1>7 DEF Shape, ServerRecord
<1>10. Jobs'
  BY <1>1, <1>2, <1>3, <1>4, <1>5, <1>6, <1>7, Zenon
<1>11. JobWords'
  BY <1>0, <1>1, <1>2, <1>3, <1>4, <1>5, <1>6, <1>7 DEF JobWords, Calling, Stopping
<1>12. Held'
  <2>1. /\ Left(a) \ {w} = {} <=> Left(a) = {}
        /\ "unlock" \in Left(a) \ {w} <=> "unlock" \in Left(a)
        /\ "shutdown" \notin Left(a) \ {w} /\ "shutdown" \notin Left(a)
    BY <1>1
  <2> QED
    BY <1>0, <1>1, <1>2, <1>3, <1>5, <2>1, HeldKept, Zenon
<1>13. OnServer'
  <2>1. \A b \in Admins : b # a => /\ "enable_rpc" \notin Left(b)' /\ "enable_ws" \notin Left(b)'
                                   /\ "start" \notin Left(b)' /\ "unlock" \notin Left(b)'
    BY <1>1, <1>4 DEF Stopping
  <2>2. "enable_rpc" \in Left(a)' /\ "http_addr" \notin Left(a)' => proc'[a].on = "http"
    BY <1>2, <1>4, <1>6, Zenon
  <2>3. proc'[a].on \in Servers /\ proc'[a].port \in AdminPorts
    BY <1>0, <1>1, <1>2, Zenon DEF OnServer
  <2>4. "enable_rpc" \notin Left("start")' /\ "enable_ws" \notin Left("start")'
    BY <1>1, <1>4, Zenon DEF Configuring
  <2>5. ("http_addr" \in Left("start") => config.http # None)' /\ ("ws_addr" \in Left("start") => config.ws # None)'
    BY <1>0, <1>3, <1>4, Zenon DEF OnServer
  <2> QED
    BY <2>1, <2>2, <2>3, <2>4, <2>5, Zenon DEF OnServer
<1>14. ListensAtEndpoint'
  BY <1>0, <1>5, <1>7 DEF ListensAtEndpoint
<1>15. Fresh'
  BY <1>0, <1>1, <1>4, <1>5 DEF Fresh, Configuring
<1>16. WillStart'
  <2>1. ASSUME ~late, NEW t \in Servers, srv'[t].rpc, srv'[t].listener = None
        PROVE  FALSE
    BY <1>0, <1>1, <1>5, <1>6, <2>1 DEF WillStart, Configuring
  <2>2. ASSUME ~late, NEW p \in Admins \cup {"start"}, "enable_rpc" \in Left(p)', "http_addr" \notin Left(p)'
        PROVE  srv'["http"].port # None /\ srv'["http"].mu = None
    <3>1. p = a
      BY <1>1, <1>4, <1>8, <2>2 DEF Stopping
    <3>2. w = "http_addr"
      BY <1>4, <1>6, <2>2, <3>1, Zenon
    <3> QED
      BY <1>5, <1>7, <3>2
  <2> QED
    BY <1>3, <2>1, <2>2 DEF WillStart
<1>17. Ended'
  BY <1>0, <1>3, <1>4, <1>5, EndedKept, Zenon
<1> USE <1>0, <1>1, <1>2, <1>3, <1>4, <1>5, <1>6, <1>7
<1>18. StopDrops'
  BY DEF StopDrops
<1>19. Over'
  BY DEF Over
<1>20. Unstarted'
  BY Zenon DEF Unstarted
<1>21. Lifecycles'
  BY DEF Lifecycles
<1> QED
  BY <1>9, <1>10, <1>11, <1>12, <1>13, <1>14, <1>15, <1>16, <1>17, <1>18, <1>19, <1>20, <1>21, Zenon DEF NodeInv

\* enableRPC and enableWS, of Start.
LEMMA StartEnablesKeeps ==
  ASSUME NodeInv, NEW w \in {"enable_rpc", "enable_ws"}, Now("start", w), Advance("start"), NEW s, s = proc["start"].on, srv[s].mu = None,
         srv' = IF w = "enable_rpc" THEN [srv EXCEPT ![s].rpc = TRUE] ELSE [srv EXCEPT ![s].ws = TRUE],
         UNCHANGED <<config, NodeState, nodeLock, inproc, ipc, late>>
  PROVE  NodeInv'
<1>0. /\ Shape /\ Jobs /\ JobWords /\ Held /\ OnServer /\ StopDrops /\ ListensAtEndpoint /\ Fresh
      /\ WillStart /\ Ended /\ Over /\ Unstarted /\ Lifecycles
  BY Zenon DEF NodeInv
<1>1. /\ "start" \in Procs /\ proc["start"] # None /\ w \in Left("start")
      /\ "services" \in Left("start") /\ "release" \notin Left("start") /\ "shutdown" \notin Left("start")
      /\ "unlock" \in Left("start") /\ nodeLock = "start"
      /\ Left("start") \subseteq Configuring \cup {"unlock", "services"}
      /\ w # "start_ws" => "start_http" \in Left("start")
      /\ startStopLock = "start" /\ state = "running" /\ \A c \in Closers : Left(c) = {}
      /\ \A a \in Admins : "unlock" \notin Left(a) /\ "start" \notin Left(a) /\ Left(a) \subseteq Stopping
  BY StartAt, Zenon DEF Configuring
<1>2. /\ Moves("start", Left("start") \ {w})
      /\ Left("start") \ {w} # {} => proc'["start"].on = proc["start"].on
  BY <1>0, <1>1, Advanced, Zenon
<1>3. UNCHANGED <<config, state, startStopLock, running, tracked, closes,
         dirLocked, stopped, nodeLock, inproc, ipc, late>>
  BY Zenon DEF NodeState
<1>4. /\ w = "enable_ws" => "ws_addr" \notin Left("start") /\ "http_addr" \notin Left("start") /\ "enable_rpc" \notin Left("start")
      /\ w = "enable_rpc" => "http_addr" \notin Left("start") /\ "ipc" \notin Left("start")
  <2>1. \A v \in Left("start") : v # w => Rank(w) < Rank(v)
    BY <1>0, <1>1, AtWord, Zenon
  <2>2. /\ Rank("ipc") = 2 /\ Rank("http_addr") = 3 /\ Rank("enable_rpc") = 4 /\ Rank("ws_addr") = 5
        /\ Rank("enable_ws") = 6
    BY Zenon DEF Rank
  <2> QED
    BY <1>1, <2>1, <2>2
<1>5. s \in Servers /\ (w = "enable_rpc" => s = "http")
  BY <1>0, <1>1, <1>4, Zenon DEF OnServer, Servers
<1>6. /\ srv' \in [Servers -> ServerRecord]
      /\ \A t \in Servers : /\ srv'[t].mu = srv[t].mu /\ srv'[t].listener = srv[t].listener /\ srv'[t].port = srv[t].port
                            /\ srv'[t].rpc => srv[t].rpc \/ (w = "enable_rpc" /\ t = s)
                            /\ srv'[t].ws => srv[t].ws \/ (w = "enable_ws" /\ t = s)
                            /\ t # s => srv'[t] = srv[t]
  <2>1. srv \in [Servers -> ServerRecord] /\ srv[s] \in ServerRecord
    BY <1>0, <1>5, Zenon DEF Shape, ServerRecord
  <2>2. PICK h : h = IF w = "enable_rpc" THEN [srv[s] EXCEPT !.rpc = TRUE] ELSE [srv[s] EXCEPT !.ws = TRUE]
    BY Zenon
  <2>3. /\ h \in ServerRecord /\ h.mu = srv[s].mu /\ h.port = srv[s].port /\ h.listener = srv[s].listener
        /\ (w # "enable_rpc" => h.rpc = srv[s].rpc) /\ (w = "enable_rpc" => h.ws = srv[s].ws)
    <3>1. CASE w = "enable_rpc"
      <4>1. h = [srv[s] EXCEPT !.rpc = TRUE]
        BY <2>2, <3>1, Zenon
      <4> QED
        BY <2>1, <3>1, <4>1, Zenon DEF ServerRecord
    <3>2. CASE w # "enable_rpc"
      <4>1. h = [srv[s] EXCEPT !.ws = TRUE]
        BY <2>2, <3>2, Zenon
      <4> QED
        BY <2>1, <3>2, <4>1, Zenon DEF ServerRecord
    <3> QED
      BY <3>1, <3>2, Zenon
  <2>4. srv' = [srv EXCEPT ![s] = h]
    <3>1. CASE w = "enable_rpc"
      BY <2>2, <3>1, Zenon
    <3>2. CASE w # "enable_rpc"
      BY <2>2, <3>2, Zenon
    <3> QED
      BY <3>1, <3>2, Zenon
  <2>5. /\ srv' \in [Servers -> ServerRecord] /\ srv'[s] = h
        /\ \A t \in Servers : t # s => srv'[t] = srv[t]
    BY <1>0, <1>5, <2>3, <2>4, OneServer, Zenon
  <2>6. ASSUME NEW t \in Servers
        PROVE  /\ srv'[t].mu = srv[t].mu /\ srv'[t].listener = srv[t].listener /\ srv'[t].port = srv[t].port
               /\ srv'[t].rpc => srv[t].rpc \/ (w = "enable_rpc" /\ t = s)
               /\ srv'[t].ws => srv[t].ws \/ (w = "enable_ws" /\ t = s)
    <3>1. CASE t = s
      BY <2>3, <2>5, <3>1, Zenon
    <3>2. CASE t # s
      BY <2>5, <3>2, Zenon
    <3> QED
      BY <3>1, <3>2, Zenon
  <2> QED
    BY <2>5, <2>6, Zenon
<1>7. /\ Left("start")' = Left("start") \ {w} /\ Jobs' /\ "start" \in Procs
      /\ \A c \in Closers : Left(c)' = Left(c) /\ proc'[c] = proc[c]
      /\ \A a \in Admins : Left(a)' = Left(a) /\ proc'[a] = proc[a]
      /\ "start" \notin Closers /\ "start" \notin Admins /\ None \notin Procs
  BY <1>1, <1>2, Others
<1>8. /\ "start_http" \in Left("start") /\ proc'["start"].on = s
      /\ \A t \in Servers : srv[t].listener = None /\ srv[t].mu = None
  BY <1>0, <1>1, <1>2 DEF Fresh
<1>9. Shape'
  BY <1>0, <1>1, <1>2, <1>3, <1>4, <1>5, <1>6, <1>7, <1>8 DEF Shape, ServerRecord
<1>10. Jobs'
  BY <1>1, <1>2, <1>3, <1>4, <1>5, <1>6, <1>7, <1>8, Zenon
<1>11. JobWords'
  BY <1>0, <1>1, <1>2, <1>3, <1>4, <1>5, <1>6, <1>7, <1>8 DEF JobWords, Configuring, Closing
<1>12. Held'
  <2>1. /\ Left("start") \ {w} = {} <=> Left("start") = {}
        /\ "unlock" \in Left("start") \ {w} <=> "unlock" \in Left("start")
        /\ "shutdown" \notin Left("start") \ {w} /\ "shutdown" \notin Left("start")
    BY <1>1
  <2> QED
    BY <1>0, <1>1, <1>2, <1>3, <1>6, <2>1, HeldKept, Zenon
<1>13. OnServer'
  <2>1. \A a \in Admins : /\ "enable_rpc" \notin Left(a)' /\ "enable_ws" \notin Left(a)'
                           /\ "start" \notin Left(a)' /\ "unlock" \notin Left(a)'
    BY <1>1, <1>7 DEF Stopping
  <2>2. "enable_rpc" \notin Left("start")'
    BY <1>4, <1>7, Zenon
  <2>3. proc'["start"].on \in Servers
    BY <1>5, <1>8, Zenon
  <2>4. ("http_addr" \in Left("start") => config.http # None)' /\ ("ws_addr" \in Left("start") => config.ws # None)'
    BY <1>0, <1>3, <1>7, Zenon DEF OnServer
  <2> QED
    BY <2>1, <2>2, <2>3, <2>4, Zenon DEF OnServer
<1>14. WillStart'
  <2>1. ASSUME ~late, NEW t \in Servers, srv'[t].rpc, srv'[t].listener = None
        PROVE  srv'[t].port # None /\ t = "http"
    <3>1. CASE w = "enable_rpc" /\ t = s
      <4>1. srv["http"].port # None
        BY <1>0, <1>1, <1>4, <2>1, <3>1, Zenon DEF WillStart
      <4> QED
        BY <1>5, <1>6, <3>1, <4>1
    <3>2. CASE srv[t].rpc
      BY <1>0, <1>1, <1>6, <1>8, <2>1, <3>2 DEF WillStart
    <3> QED
      BY <1>6, <2>1, <3>1, <3>2, Zenon
  <2>2. "start_http" \in Left("start")'
    BY <1>7, <1>8, Zenon
  <2>3. \A p \in Admins \cup {"start"} : "enable_rpc" \notin Left(p)'
    BY <1>1, <1>4, <1>7 DEF Stopping
  <2> QED
    BY <1>3, <2>1, <2>2, <2>3 DEF WillStart
<1>15. Ended'
  BY <1>1, <1>7 DEF Ended
<1>16. Unstarted'
  BY <1>0, <1>1, <1>2, <1>3, <1>4, <1>5, <1>6, <1>7, <1>8, Zenon DEF Unstarted, Off
<1> USE <1>0, <1>1, <1>2, <1>3, <1>4, <1>5, <1>6, <1>7, <1>8
<1>17. StopDrops'
  BY DEF StopDrops
<1>18. ListensAtEndpoint'
  BY DEF ListensAtEndpoint
<1>19. Fresh'
  BY DEF Fresh
<1>20. Over'
  BY Zenon DEF Over
<1>21. Lifecycles'
  BY DEF Lifecycles
<1> QED
  BY <1>9, <1>10, <1>11, <1>12, <1>13, <1>14, <1>15, <1>16, <1>17, <1>18, <1>19, <1>20, <1>21, Zenon DEF NodeInv

\* enableRPC and enableWS, of a call.
LEMMA CallEnablesKeeps ==
  ASSUME NodeInv, NEW a \in Admins, NEW w \in {"enable_rpc", "enable_ws"}, Now(a, w), Advance(a), NEW s, s = proc[a].on, srv[s].mu = None,
         srv' = IF w = "enable_rpc" THEN [srv EXCEPT ![s].rpc = TRUE] ELSE [srv EXCEPT ![s].ws = TRUE],
         UNCHANGED <<config, NodeState, nodeLock, inproc, ipc, late>>
  PROVE  NodeInv'
<1>0. /\ Shape /\ Jobs /\ JobWords /\ Held /\ OnServer /\ StopDrops /\ ListensAtEndpoint /\ Fresh
      /\ WillStart /\ Ended /\ Over /\ Unstarted /\ Lifecycles
  BY Zenon DEF NodeInv
<1>1. /\ a \in Procs /\ proc[a] # None /\ w \in Left(a) /\ "shutdown" \notin Left(a)
      /\ "unlock" \in Left(a) /\ nodeLock = a /\ "start" \in Left(a)
      /\ Left(a) \subseteq Calling \cup {"unlock"}
      /\ "enable_rpc" \in Left(a) => "ws_addr" \notin Left(a) /\ "enable_ws" \notin Left(a)
      /\ Left("start") \cap Configuring = {} /\ "unlock" \notin Left("start")
      /\ \A b \in Admins : b # a => "unlock" \notin Left(b) /\ "start" \notin Left(b) /\ Left(b) \subseteq Stopping
      /\ state # "initializing"
      /\ ~late => /\ state # "closed"
                  /\ \A p \in Closers \cup {"start"} : "release" \in Left(p) => "stop_http" \in Left(p)
  BY CallAt, Zenon DEF Calling
<1>2. /\ Moves(a, Left(a) \ {w})
      /\ Left(a) \ {w} # {} => proc'[a].on = proc[a].on /\ proc'[a].port = proc[a].port
  BY <1>0, <1>1, Advanced, Zenon
<1>3. UNCHANGED <<config, state, startStopLock, running, tracked, closes,
         dirLocked, stopped, nodeLock, inproc, ipc, late>>
  BY Zenon DEF NodeState
<1>4. /\ w = "enable_ws" => "ws_addr" \notin Left(a) /\ "http_addr" \notin Left(a) /\ "enable_rpc" \notin Left(a)
      /\ w = "enable_rpc" => "http_addr" \notin Left(a)
  <2>1. \A v \in Left(a) : v # w => Rank(w) < Rank(v)
    BY <1>0, <1>1, AtWord, Zenon
  <2>2. /\ Rank("ipc") = 2 /\ Rank("http_addr") = 3 /\ Rank("enable_rpc") = 4 /\ Rank("ws_addr") = 5
        /\ Rank("enable_ws") = 6
    BY Zenon DEF Rank
  <2> QED
    BY <1>1, <2>1, <2>2
<1>5. s \in Servers /\ (w = "enable_rpc" => s = "http")
  BY <1>0, <1>1, <1>4, Zenon DEF OnServer, Servers
<1>6. /\ srv' \in [Servers -> ServerRecord]
      /\ \A t \in Servers : /\ srv'[t].mu = srv[t].mu /\ srv'[t].listener = srv[t].listener /\ srv'[t].port = srv[t].port
                            /\ srv'[t].rpc => srv[t].rpc \/ (w = "enable_rpc" /\ t = s)
                            /\ srv'[t].ws => srv[t].ws \/ (w = "enable_ws" /\ t = s)
                            /\ t # s => srv'[t] = srv[t]
  <2>1. srv \in [Servers -> ServerRecord] /\ srv[s] \in ServerRecord
    BY <1>0, <1>5, Zenon DEF Shape, ServerRecord
  <2>2. PICK h : h = IF w = "enable_rpc" THEN [srv[s] EXCEPT !.rpc = TRUE] ELSE [srv[s] EXCEPT !.ws = TRUE]
    BY Zenon
  <2>3. /\ h \in ServerRecord /\ h.mu = srv[s].mu /\ h.port = srv[s].port /\ h.listener = srv[s].listener
        /\ (w # "enable_rpc" => h.rpc = srv[s].rpc) /\ (w = "enable_rpc" => h.ws = srv[s].ws)
    <3>1. CASE w = "enable_rpc"
      <4>1. h = [srv[s] EXCEPT !.rpc = TRUE]
        BY <2>2, <3>1, Zenon
      <4> QED
        BY <2>1, <3>1, <4>1, Zenon DEF ServerRecord
    <3>2. CASE w # "enable_rpc"
      <4>1. h = [srv[s] EXCEPT !.ws = TRUE]
        BY <2>2, <3>2, Zenon
      <4> QED
        BY <2>1, <3>2, <4>1, Zenon DEF ServerRecord
    <3> QED
      BY <3>1, <3>2, Zenon
  <2>4. srv' = [srv EXCEPT ![s] = h]
    <3>1. CASE w = "enable_rpc"
      BY <2>2, <3>1, Zenon
    <3>2. CASE w # "enable_rpc"
      BY <2>2, <3>2, Zenon
    <3> QED
      BY <3>1, <3>2, Zenon
  <2>5. /\ srv' \in [Servers -> ServerRecord] /\ srv'[s] = h
        /\ \A t \in Servers : t # s => srv'[t] = srv[t]
    BY <1>0, <1>5, <2>3, <2>4, OneServer, Zenon
  <2>6. ASSUME NEW t \in Servers
        PROVE  /\ srv'[t].mu = srv[t].mu /\ srv'[t].listener = srv[t].listener /\ srv'[t].port = srv[t].port
               /\ srv'[t].rpc => srv[t].rpc \/ (w = "enable_rpc" /\ t = s)
               /\ srv'[t].ws => srv[t].ws \/ (w = "enable_ws" /\ t = s)
    <3>1. CASE t = s
      BY <2>3, <2>5, <3>1, Zenon
    <3>2. CASE t # s
      BY <2>5, <3>2, Zenon
    <3> QED
      BY <3>1, <3>2, Zenon
  <2> QED
    BY <2>5, <2>6, Zenon
<1>7. /\ Left(a)' = Left(a) \ {w} /\ Jobs'
      /\ \A c \in Closers : Left(c)' = Left(c) /\ proc'[c] = proc[c]
      /\ \A b \in Admins : b # a => Left(b)' = Left(b) /\ proc'[b] = proc[b]
      /\ Left("start")' = Left("start") /\ proc'["start"] = proc["start"]
      /\ "start" \notin Closers /\ "start" \notin Admins /\ Closers \cap Admins = {} /\ None \notin Procs
  BY <1>1, <1>2, Others, NodeAssumption
<1>8. /\ proc'[a].on = s /\ proc[a].port \in AdminPorts /\ proc'[a].port \in AdminPorts
      /\ Left(a) \ {w} \subseteq {"start", "unlock"} /\ "start" \in Left(a) \ {w}
      /\ "enable_rpc" \notin Left("start") /\ "enable_ws" \notin Left("start")
  <2>1. proc[a].port \in AdminPorts
    BY <1>0, <1>1 DEF OnServer
  <2>2. proc'[a].on = s /\ proc'[a].port = proc[a].port
    BY <1>1, <1>2, <1>4 DEF Calling
  <2>3. Left(a) \ {w} \subseteq {"start", "unlock"} /\ "start" \in Left(a) \ {w}
    BY <1>1, <1>4 DEF Calling
  <2>4. "enable_rpc" \notin Left("start") /\ "enable_ws" \notin Left("start")
    BY <1>1 DEF Configuring
  <2> QED
    BY <2>1, <2>2, <2>3, <2>4
<1>9. Shape'
  BY <1>0, <1>3, <1>5, <1>6 DEF Shape, ServerRecord
<1>10. Jobs'
  BY <1>1, <1>2, <1>3, <1>4, <1>5, <1>6, <1>7, <1>8, Zenon
<1>11. JobWords'
  BY <1>0, <1>1, <1>2, <1>3, <1>4, <1>5, <1>6, <1>7, <1>8 DEF JobWords, Calling, Stopping
<1>12. Held'
  <2>1. /\ Left(a) \ {w} = {} <=> Left(a) = {}
        /\ "unlock" \in Left(a) \ {w} <=> "unlock" \in Left(a)
        /\ "shutdown" \notin Left(a) \ {w} /\ "shutdown" \notin Left(a)
    BY <1>1
  <2> QED
    BY <1>0, <1>1, <1>2, <1>3, <1>6, <2>1, HeldKept
<1>13. OnServer'
  <2>1. \A b \in Admins : b # a => /\ "enable_rpc" \notin Left(b)' /\ "enable_ws" \notin Left(b)'
                                   /\ "start" \notin Left(b)' /\ "unlock" \notin Left(b)'
    BY <1>1, <1>7 DEF Stopping
  <2>2. "enable_rpc" \notin Left(a)'
    BY <1>7, <1>8, Zenon
  <2>3. proc'[a].on \in Servers /\ proc'[a].port \in AdminPorts
    BY <1>5, <1>8, Zenon
  <2>4. "enable_rpc" \notin Left("start")' /\ "enable_ws" \notin Left("start")'
    BY <1>7, <1>8, Zenon
  <2>5. ("http_addr" \in Left("start") => config.http # None)' /\ ("ws_addr" \in Left("start") => config.ws # None)'
    BY <1>0, <1>3, <1>7, Zenon DEF OnServer
  <2> QED
    BY <2>1, <2>2, <2>3, <2>4, <2>5, Zenon DEF OnServer
<1>14. Fresh'
  BY <1>1, <1>7 DEF Fresh, Configuring
<1>15. WillStart'
  <2>1. ASSUME ~late, NEW t \in Servers, srv'[t].rpc, srv'[t].listener = None
        PROVE  /\ srv'[t].port # None /\ "start" \in Left(a)' /\ proc'[a].on = t
               /\ Left(a)' \subseteq {"start", "unlock"}
    <3>1. CASE w = "enable_rpc" /\ t = s
      <4>1. srv["http"].port # None
        BY <1>0, <1>1, <1>4, <2>1, <3>1, Zenon DEF WillStart
      <4> QED
        BY <1>5, <1>6, <1>7, <1>8, <3>1, <4>1
    <3>2. CASE srv[t].rpc
      <4>1. ~(Left(a) \subseteq {"start", "unlock"})
        BY <1>1, Zenon
      <4> QED
        BY <1>0, <1>1, <1>6, <2>1, <3>2, <4>1 DEF WillStart, Configuring
    <3> QED
      BY <1>6, <2>1, <3>1, <3>2, Zenon
  <2>2. \A p \in Admins \cup {"start"} : "enable_rpc" \notin Left(p)'
    BY <1>1, <1>7, <1>8 DEF Stopping
  <2> QED
    BY <1>3, <2>1, <2>2 DEF WillStart
<1>16. Ended'
  BY <1>0, <1>3, <1>6, <1>7, EndedKept, Zenon
<1> USE <1>0, <1>1, <1>2, <1>3, <1>4, <1>5, <1>6, <1>7, <1>8
<1>17. StopDrops'
  BY DEF StopDrops
<1>18. ListensAtEndpoint'
  BY DEF ListensAtEndpoint
<1>19. Over'
  BY DEF Over
<1>20. Unstarted'
  BY Zenon DEF Unstarted
<1>21. Lifecycles'
  BY DEF Lifecycles
<1> QED
  BY <1>9, <1>10, <1>11, <1>12, <1>13, <1>14, <1>15, <1>16, <1>17, <1>18, <1>19, <1>20, <1>21, Zenon DEF NodeInv

\* The servers that Start starts.
LEMMA StartListensKeeps ==
  ASSUME NodeInv, NEW w \in {"start_http", "start_ws"}, Now("start", w), Advance("start"),
         NEW s, s = IF w = "start_http" THEN "http" ELSE "ws", NEW h,
         \/ h = srv[s] /\ (srv[s].port = None \/ srv[s].listener # None)
         \/ h = [srv[s] EXCEPT !.listener = srv[s].port] /\ srv[s].port # None,
         srv' = [srv EXCEPT ![s] = h], UNCHANGED <<config, NodeState, nodeLock, inproc, ipc, late>>
  PROVE  NodeInv'
<1>0. /\ Shape /\ Jobs /\ JobWords /\ Held /\ OnServer /\ StopDrops /\ ListensAtEndpoint /\ Fresh
      /\ WillStart /\ Ended /\ Over /\ Unstarted /\ Lifecycles
  BY Zenon DEF NodeInv
<1>1. /\ "start" \in Procs /\ proc["start"] # None /\ w \in Left("start")
      /\ "services" \in Left("start") /\ "release" \notin Left("start") /\ "shutdown" \notin Left("start")
      /\ "unlock" \in Left("start") /\ nodeLock = "start"
      /\ Left("start") \subseteq Configuring \cup {"unlock", "services"}
      /\ w # "start_ws" => "start_http" \in Left("start")
      /\ startStopLock = "start" /\ state = "running" /\ \A c \in Closers : Left(c) = {}
      /\ \A a \in Admins : "unlock" \notin Left(a) /\ "start" \notin Left(a) /\ Left(a) \subseteq Stopping
  BY StartAt, Zenon DEF Configuring
<1>2. /\ Moves("start", Left("start") \ {w})
      /\ Left("start") \ {w} # {} => proc'["start"].on = proc["start"].on
  BY <1>0, <1>1, Advanced, Zenon
<1>3. UNCHANGED <<config, state, startStopLock, running, tracked, closes,
         dirLocked, stopped, nodeLock, inproc, ipc, late>>
  BY Zenon DEF NodeState
<1>4. /\ Left("start") \subseteq {w, "start_ws", "unlock", "services"}
  <2>1. \A v \in Left("start") : v # w => Rank(w) < Rank(v)
    BY <1>0, <1>1, AtWord, Zenon
  <2>2. /\ Rank("inproc") = 1 /\ Rank("ipc") = 2 /\ Rank("http_addr") = 3 /\ Rank("enable_rpc") = 4
        /\ Rank("ws_addr") = 5 /\ Rank("enable_ws") = 6 /\ Rank("start_http") = 7 /\ Rank("start_ws") = 8
    BY Zenon DEF Rank
  <2>3. \A v \in Configuring : v \in {"start_http", "start_ws"} \/ Rank(v) < 7
    BY <2>2 DEF Configuring
  <2> QED
    BY <1>1, <2>1, <2>2, <2>3 DEF Configuring
<1>5. s \in Servers
  BY Zenon DEF Servers
<1>6. /\ srv' \in [Servers -> ServerRecord]
      /\ \A t \in Servers : /\ srv'[t].mu = srv[t].mu /\ srv'[t].port = srv[t].port /\ srv'[t].rpc = srv[t].rpc
                            /\ srv'[t].listener = srv[t].listener \/ (t = s /\ srv'[t].listener = srv[t].port)
      /\ srv'[s].listener # None \/ srv[s].port = None
  <2>1. srv \in [Servers -> ServerRecord] /\ srv[s] \in ServerRecord
    BY <1>0, <1>5, Zenon DEF Shape, ServerRecord
  <2>2. /\ h \in ServerRecord /\ h.mu = srv[s].mu /\ h.port = srv[s].port /\ h.rpc = srv[s].rpc
        /\ h.listener = srv[s].listener \/ h.listener = srv[s].port
        /\ h.listener # None \/ srv[s].port = None
    <3>1. CASE h = srv[s] /\ (srv[s].port = None \/ srv[s].listener # None)
      BY <2>1, <3>1, Zenon
    <3>2. CASE h = [srv[s] EXCEPT !.listener = srv[s].port] /\ srv[s].port # None
      BY <2>1, <3>2, Zenon DEF ServerRecord
    <3> QED
      BY <3>1, <3>2, Zenon
  <2>3. /\ srv' \in [Servers -> ServerRecord] /\ srv'[s] = h
        /\ \A t \in Servers : t # s => srv'[t] = srv[t]
    BY <1>0, <1>5, <2>2, OneServer, Zenon
  <2>4. ASSUME NEW t \in Servers
        PROVE  /\ srv'[t].mu = srv[t].mu /\ srv'[t].port = srv[t].port /\ srv'[t].rpc = srv[t].rpc
               /\ srv'[t].listener = srv[t].listener \/ (t = s /\ srv'[t].listener = srv[t].port)
    <3>1. CASE t = s
      BY <2>2, <2>3, <3>1, Zenon
    <3>2. CASE t # s
      BY <2>3, <3>2, Zenon
    <3> QED
      BY <3>1, <3>2, Zenon
  <2> QED
    BY <1>5, <2>2, <2>3, <2>4, Zenon
<1>7. /\ Left("start")' = Left("start") \ {w} /\ Jobs' /\ "start" \in Procs
      /\ \A c \in Closers : Left(c)' = Left(c) /\ proc'[c] = proc[c]
      /\ \A a \in Admins : Left(a)' = Left(a) /\ proc'[a] = proc[a]
      /\ "start" \notin Closers /\ "start" \notin Admins /\ None \notin Procs
  BY <1>1, <1>2, Others
<1>8. ~late => \A t \in Servers : srv'[t].rpc => srv'[t].listener # None
  <2>1. ASSUME ~late, NEW t \in Servers, srv'[t].rpc, srv'[t].listener = None
        PROVE  FALSE
    <3>1. srv[t].rpc /\ (t = s => srv[t].port = None)
      BY <1>6, <2>1, Zenon
    <3>2. srv[t].listener = None
      BY <1>6, <2>1, <3>1, Zenon
    <3>3. srv[t].port # None /\ t = "http" /\ "start_http" \in Left("start")
      BY <1>0, <1>1, <2>1, <3>1, <3>2, Zenon DEF WillStart
    <3>4. w = "start_http"
      BY <1>4, <3>3, Zenon
    <3> QED
      BY <3>1, <3>3, <3>4, Zenon
  <2> QED
    BY <2>1, Zenon
<1>9. Shape'
  BY <1>0, <1>1, <1>2, <1>3, <1>4, <1>5, <1>6, <1>7 DEF Shape, ServerRecord
<1>10. Jobs'
  BY <1>1, <1>2, <1>3, <1>4, <1>5, <1>6, <1>7, Zenon
<1>11. JobWords'
  BY <1>0, <1>1, <1>2, <1>3, <1>4, <1>5, <1>6, <1>7 DEF JobWords, Configuring, Closing
<1>12. Held'
  <2>1. /\ Left("start") \ {w} = {} <=> Left("start") = {}
        /\ "unlock" \in Left("start") \ {w} <=> "unlock" \in Left("start")
        /\ "shutdown" \notin Left("start") \ {w} /\ "shutdown" \notin Left("start")
    BY <1>1
  <2> QED
    BY <1>0, <1>1, <1>2, <1>3, <1>6, <2>1, HeldKept, Zenon
<1>13. OnServer'
  <2>1. \A a \in Admins : /\ "enable_rpc" \notin Left(a)' /\ "enable_ws" \notin Left(a)'
                           /\ "start" \notin Left(a)' /\ "unlock" \notin Left(a)'
    BY <1>1, <1>7 DEF Stopping
  <2>2. /\ "enable_rpc" \notin Left("start")' /\ "enable_ws" \notin Left("start")'
        /\ "http_addr" \notin Left("start")' /\ "ws_addr" \notin Left("start")'
    BY <1>4, <1>7, Zenon
  <2> QED
    BY <2>1, <2>2, Zenon DEF OnServer
<1>14. ListensAtEndpoint'
  BY <1>0, <1>6 DEF ListensAtEndpoint
<1>15. Fresh'
  BY <1>4, <1>7, Zenon DEF Fresh
<1>16. WillStart'
  <2>1. \A p \in Admins \cup {"start"} : "enable_rpc" \notin Left(p)'
    BY <1>1, <1>4, <1>7 DEF Stopping
  <2> QED
    BY <1>3, <1>8, <2>1 DEF WillStart
<1>17. Ended'
  BY <1>1, <1>7 DEF Ended
<1>18. Unstarted'
  BY <1>0, <1>1, <1>2, <1>3, <1>4, <1>5, <1>6, <1>7, Zenon DEF Unstarted, Off
<1> USE <1>0, <1>1, <1>2, <1>3, <1>4, <1>5, <1>6, <1>7
<1>19. StopDrops'
  BY DEF StopDrops
<1>20. Over'
  BY Zenon DEF Over
<1>21. Lifecycles'
  BY DEF Lifecycles
<1> QED
  BY <1>9, <1>10, <1>11, <1>12, <1>13, <1>14, <1>15, <1>16, <1>17, <1>18, <1>19, <1>20, <1>21, Zenon DEF NodeInv

\* The server that a call starts.
LEMMA CallListensKeeps ==
  ASSUME NodeInv, NEW a \in Admins, NEW w, w = "start", Now(a, w), Advance(a), NEW s, s = proc[a].on,
         NEW h,
         \/ h = srv[s] /\ (srv[s].port = None \/ srv[s].listener # None)
         \/ h = [srv[s] EXCEPT !.listener = srv[s].port] /\ srv[s].port # None,
         srv' = [srv EXCEPT ![s] = h], UNCHANGED <<config, NodeState, nodeLock, inproc, ipc, late>>
  PROVE  NodeInv'
<1>0. /\ Shape /\ Jobs /\ JobWords /\ Held /\ OnServer /\ StopDrops /\ ListensAtEndpoint /\ Fresh
      /\ WillStart /\ Ended /\ Over /\ Unstarted /\ Lifecycles
  BY Zenon DEF NodeInv
<1>1. /\ a \in Procs /\ proc[a] # None /\ w \in Left(a) /\ "shutdown" \notin Left(a)
      /\ "unlock" \in Left(a) /\ nodeLock = a /\ "start" \in Left(a)
      /\ Left(a) \subseteq Calling \cup {"unlock"}
      /\ "enable_rpc" \in Left(a) => "ws_addr" \notin Left(a) /\ "enable_ws" \notin Left(a)
      /\ Left("start") \cap Configuring = {} /\ "unlock" \notin Left("start")
      /\ \A b \in Admins : b # a => "unlock" \notin Left(b) /\ "start" \notin Left(b) /\ Left(b) \subseteq Stopping
      /\ state # "initializing"
      /\ ~late => /\ state # "closed"
                  /\ \A p \in Closers \cup {"start"} : "release" \in Left(p) => "stop_http" \in Left(p)
  BY CallAt, Zenon DEF Calling
<1>2. /\ Moves(a, Left(a) \ {w})
      /\ Left(a) \ {w} # {} => proc'[a].on = proc[a].on /\ proc'[a].port = proc[a].port
  BY <1>0, <1>1, Advanced, Zenon
<1>3. UNCHANGED <<config, state, startStopLock, running, tracked, closes,
         dirLocked, stopped, nodeLock, inproc, ipc, late>>
  BY Zenon DEF NodeState
<1>4. Left(a) = {"start", "unlock"}
  <2>1. \A v \in Left(a) : v # w => Rank(w) < Rank(v)
    BY <1>0, <1>1, AtWord, Zenon
  <2>2. /\ Rank("http_addr") = 3 /\ Rank("enable_rpc") = 4
        /\ Rank("ws_addr") = 5 /\ Rank("enable_ws") = 6 /\ Rank("start") = 7
    BY Zenon DEF Rank
  <2> QED
    BY <1>1, <2>1, <2>2 DEF Calling
<1>5. s \in Servers
  BY <1>0, <1>4, Zenon DEF OnServer
<1>6. /\ srv' \in [Servers -> ServerRecord]
      /\ \A t \in Servers : /\ srv'[t].mu = srv[t].mu /\ srv'[t].port = srv[t].port /\ srv'[t].rpc = srv[t].rpc
                            /\ srv'[t].listener = srv[t].listener \/ (t = s /\ srv'[t].listener = srv[t].port)
      /\ srv'[s].listener # None \/ srv[s].port = None
  <2>1. srv \in [Servers -> ServerRecord] /\ srv[s] \in ServerRecord
    BY <1>0, <1>5, Zenon DEF Shape, ServerRecord
  <2>2. /\ h \in ServerRecord /\ h.mu = srv[s].mu /\ h.port = srv[s].port /\ h.rpc = srv[s].rpc
        /\ h.listener = srv[s].listener \/ h.listener = srv[s].port
        /\ h.listener # None \/ srv[s].port = None
    <3>1. CASE h = srv[s] /\ (srv[s].port = None \/ srv[s].listener # None)
      BY <2>1, <3>1, Zenon
    <3>2. CASE h = [srv[s] EXCEPT !.listener = srv[s].port] /\ srv[s].port # None
      BY <2>1, <3>2, Zenon DEF ServerRecord
    <3> QED
      BY <3>1, <3>2, Zenon
  <2>3. /\ srv' \in [Servers -> ServerRecord] /\ srv'[s] = h
        /\ \A t \in Servers : t # s => srv'[t] = srv[t]
    BY <1>0, <1>5, <2>2, OneServer, Zenon
  <2>4. ASSUME NEW t \in Servers
        PROVE  /\ srv'[t].mu = srv[t].mu /\ srv'[t].port = srv[t].port /\ srv'[t].rpc = srv[t].rpc
               /\ srv'[t].listener = srv[t].listener \/ (t = s /\ srv'[t].listener = srv[t].port)
    <3>1. CASE t = s
      BY <2>2, <2>3, <3>1, Zenon
    <3>2. CASE t # s
      BY <2>3, <3>2, Zenon
    <3> QED
      BY <3>1, <3>2, Zenon
  <2> QED
    BY <1>5, <2>2, <2>3, <2>4, Zenon
<1>7. /\ Left(a)' = Left(a) \ {w} /\ Jobs'
      /\ \A c \in Closers : Left(c)' = Left(c) /\ proc'[c] = proc[c]
      /\ \A b \in Admins : b # a => Left(b)' = Left(b) /\ proc'[b] = proc[b]
      /\ Left("start")' = Left("start") /\ proc'["start"] = proc["start"]
      /\ "start" \notin Closers /\ "start" \notin Admins /\ Closers \cap Admins = {} /\ None \notin Procs
  BY <1>1, <1>2, Others, NodeAssumption
<1>8. ~late => \A t \in Servers : srv'[t].rpc => srv'[t].listener # None
  <2>1. ASSUME ~late, NEW t \in Servers, srv'[t].rpc, srv'[t].listener = None
        PROVE  FALSE
    <3>1. srv[t].rpc /\ (t = s => srv[t].port = None)
      BY <1>6, <2>1, Zenon
    <3>2. srv[t].listener = None
      BY <1>6, <2>1, <3>1, Zenon
    <3>3. srv[t].port # None /\ proc[a].on = t
      BY <1>0, <1>1, <2>1, <3>1, <3>2, Zenon DEF WillStart, Configuring
    <3> QED
      BY <3>1, <3>3, Zenon
  <2> QED
    BY <2>1, Zenon
<1>9. "enable_rpc" \notin Left("start") /\ "enable_ws" \notin Left("start") /\ "start_http" \notin Left("start")
  BY <1>1, Zenon DEF Configuring
<1>10. Shape'
  BY <1>0, <1>1, <1>2, <1>3, <1>4, <1>5, <1>6, <1>7 DEF Shape, ServerRecord
<1>11. Jobs'
  BY <1>1, <1>2, <1>3, <1>4, <1>5, <1>6, <1>7, Zenon
<1>12. JobWords'
  BY <1>0, <1>1, <1>2, <1>3, <1>4, <1>5, <1>6, <1>7 DEF JobWords, Calling, Stopping
<1>13. Held'
  <2>1. /\ Left(a) \ {w} = {} <=> Left(a) = {}
        /\ "unlock" \in Left(a) \ {w} <=> "unlock" \in Left(a)
        /\ "shutdown" \notin Left(a) \ {w} /\ "shutdown" \notin Left(a)
    BY <1>1
  <2> QED
    BY <1>0, <1>1, <1>2, <1>3, <1>6, <2>1, HeldKept, Zenon
<1>14. OnServer'
  <2>1. \A b \in Admins : b # a => /\ "enable_rpc" \notin Left(b)' /\ "enable_ws" \notin Left(b)'
                                   /\ "start" \notin Left(b)' /\ "unlock" \notin Left(b)'
    BY <1>1, <1>7 DEF Stopping
  <2>2. Left(a)' = {"unlock"}
    BY <1>4, <1>7, Zenon
  <2>3. proc'[a].port \in AdminPorts
    BY <1>0, <1>2, <1>4, Zenon DEF OnServer
  <2>4. ("http_addr" \in Left("start") => config.http # None)' /\ ("ws_addr" \in Left("start") => config.ws # None)'
    BY <1>0, <1>3, <1>7, Zenon DEF OnServer
  <2>5. "enable_rpc" \notin Left("start")' /\ "enable_ws" \notin Left("start")'
    BY <1>7, <1>9, Zenon
  <2> QED
    BY <2>1, <2>2, <2>3, <2>4, <2>5 DEF OnServer
<1>15. ListensAtEndpoint'
  BY <1>0, <1>6 DEF ListensAtEndpoint
<1>16. Fresh'
  BY <1>1, <1>7 DEF Fresh, Configuring
<1>17. WillStart'
  <2>1. \A p \in Admins \cup {"start"} : "enable_rpc" \notin Left(p)'
    BY <1>1, <1>4, <1>7, <1>9 DEF Stopping
  <2> QED
    BY <1>3, <1>8, <2>1 DEF WillStart
<1>18. Ended'
  <2>1. \A p \in Closers \cup {"start"} : Left(p)' = Left(p)
    BY <1>7, Zenon
  <2>2. CASE late
    BY <1>0, <1>3, <2>1, <2>2 DEF Ended
  <2>3. CASE ~late
    <3>1. \A p \in Closers \cup {"start"} : "release" \in Left(p) => "stop_http" \in Left(p)
      BY <1>1, <2>3, Zenon
    <3>2. ASSUME NEW p \in Closers \cup {"start"}, "release" \in Left(p)
          PROVE  "stop_ws" \in Left(p)
      BY <1>0, <3>1, <3>2, Zenon DEF Ended
    <3> QED
      BY <1>0, <1>3, <2>1, <3>1, <3>2 DEF Ended
  <2> QED
    BY <2>2, <2>3, Zenon
<1> USE <1>0, <1>1, <1>2, <1>3, <1>4, <1>5, <1>6, <1>7
<1>19. StopDrops'
  BY DEF StopDrops
<1>20. Over'
  BY DEF Over
<1>21. Unstarted'
  BY Zenon DEF Unstarted
<1>22. Lifecycles'
  BY DEF Lifecycles
<1> QED
  BY <1>10, <1>11, <1>12, <1>13, <1>14, <1>15, <1>16, <1>17, <1>18, <1>19, <1>20, <1>21, <1>22, Zenon DEF NodeInv

\* Start releases the node's lock.
LEMMA StartUnlocksKeeps ==
  ASSUME NodeInv, Now("start", "unlock"), Advance("start"), nodeLock' = None,
         UNCHANGED <<config, NodeState, Rpc, late>>
  PROVE  NodeInv'
<1>0. /\ Shape /\ Jobs /\ JobWords /\ Held /\ OnServer /\ StopDrops /\ ListensAtEndpoint /\ Fresh
      /\ WillStart /\ Ended /\ Over /\ Unstarted /\ Lifecycles
  BY Zenon DEF NodeInv
<1>1. /\ "start" \in Procs /\ "unlock" \in Left("start") /\ nodeLock = "start" /\ "shutdown" \notin Left("start")
      /\ Left("start") \cap Configuring = {} /\ \A c \in Closers : Left(c) = {}
      /\ Left("start") \subseteq {"unlock", "services", "stop_services", "close_databases", "release"}
      /\ "services" \in Left("start") => Left("start") = {"unlock", "services"}
      /\ "services" \in Left("start") \/ "release" \in Left("start")
  <2>1. "start" \in Procs /\ "unlock" \in Left("start") /\ \A c \in Closers : Left(c) = {}
    BY LockHeld, NodeAssumption, Zenon
  <2>2. \A v \in Left("start") : v # "unlock" => Rank("unlock") < Rank(v)
    BY <1>0, <2>1, AtWord, Zenon
  <2>3. Left("start") \subseteq Words
    BY <1>0, <2>1, AtWord, Zenon
  <2>4. \A v \in Words : v \in {"unlock", "services", "stop_services", "close_databases", "release"} \/ Rank(v) < 14
    BY DEF Words, Rank
  <2>5. Rank("unlock") = 14 /\ \A v \in Words : Rank(v) \in Nat
    BY DEF Words, Rank
  <2>6. Left("start") \subseteq {"unlock", "services", "stop_services", "close_databases", "release"}
    BY <2>2, <2>3, <2>4, <2>5
  <2>7. nodeLock = "start"
    BY <1>0, <2>1, Zenon DEF Held
  <2> QED
    BY <1>0, <2>1, <2>6, <2>7 DEF JobWords, Configuring, Closing
<1>2. /\ Moves("start", Left("start") \ {"unlock"})
      /\ Left("start") \ {"unlock"} # {} => proc'["start"].on = proc["start"].on
  BY <1>0, <1>1, Advanced, Zenon
<1>3. nodeLock' = None /\ UNCHANGED <<config, state, startStopLock, running, tracked, closes,
         dirLocked, stopped, inproc, ipc, srv, late>>
  BY Zenon DEF NodeState, Rpc
<1>4. /\ Left("start")' = Left("start") \ {"unlock"} /\ Jobs' /\ "start" \in Procs
      /\ \A c \in Closers : Left(c)' = Left(c) /\ proc'[c] = proc[c]
      /\ \A a \in Admins : Left(a)' = Left(a) /\ proc'[a] = proc[a]
      /\ "start" \notin Closers /\ "start" \notin Admins /\ None \notin Procs
  BY <1>1, <1>2, Others
<1>5. /\ \A a \in Admins : "unlock" \notin Left(a) /\ "start" \notin Left(a) /\ Left(a) \subseteq Stopping
      /\ Left("start") \ {"unlock"} # {}
  <2>1. \A a \in Admins : "unlock" \notin Left(a)
    BY <1>0, <1>1, <1>4 DEF Held, Procs
  <2> QED
    BY <1>0, <1>1, <2>1 DEF JobWords, Stopping
<1>6. ~late => \A t \in Servers : srv[t].rpc => srv[t].listener # None
  BY <1>0, <1>1, <1>5, Zenon DEF WillStart, Configuring
<1>7. Jobs'
  BY <1>1, <1>2, <1>3, <1>4, <1>5, Zenon
<1>8. JobWords'
  BY <1>0, <1>1, <1>2, <1>3, <1>4, <1>5 DEF JobWords, Configuring, Closing
<1>9. Held'
  <2>1. \A q \in Procs : "unlock" \notin Left(q)'
    BY <1>1, <1>4, <1>5 DEF Procs
  <2>2. \A q \in Procs : Left(q)' # {} /\ q \in Closers \cup {"start"} <=> Left(q) # {} /\ q \in Closers \cup {"start"}
    BY <1>1, <1>4, <1>5, Zenon DEF Procs
  <2>3. \A q \in Procs : ("shutdown" \in Left(q)' <=> "shutdown" \in Left(q)) /\ ("shutdown" \in Left(q) => proc'[q].on = proc[q].on)
    BY <1>1, <1>2, <1>4, <1>5, Zenon DEF Procs
  <2>4. (\A q \in Closers \cup {"start"} : Left(q) # {} <=> startStopLock = q)'
    BY <1>0, <1>3, <2>2, Zenon DEF Held, Procs
  <2>5. (\A q \in Procs : "unlock" \in Left(q) <=> nodeLock = q)'
    BY <1>3, <1>4, <2>1, Zenon
  <2>6. (\A q \in Procs, s \in Servers : srv[s].mu = q <=> "shutdown" \in Left(q) /\ proc[q].on = s)'
    BY <1>0, <1>3, <2>3 DEF Held
  <2>7. (\A q \in Procs : "shutdown" \in Left(q) => proc[q].on \in Servers)'
    BY <1>0, <2>3, Zenon DEF Held
  <2> QED
    BY <2>4, <2>5, <2>6, <2>7, Zenon DEF Held
<1>10. OnServer'
  BY <1>4, <1>5, <1>1 DEF OnServer, Stopping, Configuring
<1>11. Fresh'
  BY <1>0, <1>1, <1>2, <1>3, <1>4, <1>5, Zenon DEF Fresh, Configuring
<1>12. WillStart'
  <2>1. \A p \in Admins \cup {"start"} : "enable_rpc" \notin Left(p)'
    BY <1>1, <1>4, <1>5 DEF Stopping
  <2> QED
    BY <1>3, <1>6, <2>1 DEF WillStart
<1>13. Ended'
  <2>1. \A c \in Closers : Left(c)' = {}
    BY <1>1, <1>4, Zenon
  <2>2. \A v : v # "unlock" => (v \in Left("start")' <=> v \in Left("start"))
    BY <1>4, Zenon
  <2>3. None \notin Admins
    BY <1>4, Zenon DEF Procs
  <2> QED
    BY <1>0, <1>3, <2>1, <2>2, <2>3 DEF Ended
<1>14. Over'
  BY <1>0, <1>1, <1>2, <1>3, <1>4, <1>5, Zenon DEF Over, Procs
<1> USE <1>0, <1>1, <1>2, <1>3, <1>4, <1>5
<1>15. Shape'
  BY Zenon DEF Shape
<1>16. StopDrops'
  BY Zenon DEF StopDrops
<1>17. ListensAtEndpoint'
  BY Zenon DEF ListensAtEndpoint
<1>18. Unstarted'
  BY Zenon DEF Unstarted
<1>19. Lifecycles'
  BY Zenon DEF Lifecycles
<1> QED
  BY <1>7, <1>8, <1>9, <1>10, <1>11, <1>12, <1>13, <1>14, <1>15, <1>16, <1>17, <1>18, <1>19, Zenon DEF NodeInv

\* A call releases the node's lock and returns.
LEMMA CallUnlocksKeeps ==
  ASSUME NodeInv, NEW a \in Admins, NEW w, w = "unlock", Now(a, w), Advance(a), nodeLock' = None,
         UNCHANGED <<config, NodeState, Rpc, late>>
  PROVE  NodeInv'
<1>0. /\ Shape /\ Jobs /\ JobWords /\ Held /\ OnServer /\ StopDrops /\ ListensAtEndpoint /\ Fresh
      /\ WillStart /\ Ended /\ Over /\ Unstarted /\ Lifecycles
  BY Zenon DEF NodeInv
<1>1. /\ a \in Procs /\ proc[a] # None /\ w \in Left(a) /\ "shutdown" \notin Left(a)
      /\ "unlock" \in Left(a) /\ nodeLock = a
      /\ Left(a) \subseteq Calling \cup {"unlock"}
      /\ "enable_rpc" \in Left(a) => "ws_addr" \notin Left(a) /\ "enable_ws" \notin Left(a)
      /\ Left("start") \cap Configuring = {} /\ "unlock" \notin Left("start")
      /\ \A b \in Admins : b # a => "unlock" \notin Left(b) /\ "start" \notin Left(b) /\ Left(b) \subseteq Stopping
      /\ state # "initializing"
      /\ Left(a) = {"unlock"}
  <2>1. /\ a \in Procs /\ proc[a] # None /\ w \in Left(a) /\ "shutdown" \notin Left(a)
        /\ "unlock" \in Left(a) /\ nodeLock = a
        /\ Left(a) \subseteq Calling \cup {"unlock"}
        /\ "enable_rpc" \in Left(a) => "ws_addr" \notin Left(a) /\ "enable_ws" \notin Left(a)
        /\ Left("start") \cap Configuring = {} /\ "unlock" \notin Left("start")
        /\ \A b \in Admins : b # a => "unlock" \notin Left(b) /\ "start" \notin Left(b) /\ Left(b) \subseteq Stopping
        /\ state # "initializing"
    BY CallAt, Zenon
  <2>2. \A v \in Left(a) : v # w => Rank(w) < Rank(v)
    BY <1>0, <2>1, AtWord, Zenon
  <2>3. Rank("unlock") = 14 /\ \A v \in Calling : Rank(v) < 14 /\ Rank(v) \in Nat
    BY DEF Rank, Calling
  <2>4. ASSUME NEW v \in Left(a), v # "unlock"
        PROVE  FALSE
    <3>1. v \in Calling
      BY <2>1, <2>4, Zenon
    <3>2. Rank("unlock") < Rank(v)
      BY <2>2, <2>4, Zenon
    <3> QED
      BY <2>3, <3>1, <3>2
  <2> QED
    BY <2>1, <2>4, Zenon
<1>2. Moves(a, Left(a) \ {w})
  BY <1>0, <1>1, Advanced, Zenon
<1>3. nodeLock' = None /\ UNCHANGED <<config, state, startStopLock, running, tracked, closes,
         dirLocked, stopped, inproc, ipc, srv, late>>
  BY Zenon DEF NodeState, Rpc
<1>4. /\ Left(a)' = {} /\ Jobs'
      /\ \A c \in Closers : Left(c)' = Left(c) /\ proc'[c] = proc[c]
      /\ \A b \in Admins : b # a => Left(b)' = Left(b) /\ proc'[b] = proc[b]
      /\ Left("start")' = Left("start") /\ proc'["start"] = proc["start"]
      /\ "start" \notin Closers /\ "start" \notin Admins /\ Closers \cap Admins = {} /\ None \notin Procs
  BY <1>1, <1>2, Others, NodeAssumption
<1>5. \A b \in Admins : "unlock" \notin Left(b)' /\ "start" \notin Left(b)' /\ Left(b)' \subseteq Stopping
  BY <1>1, <1>4, Zenon
<1>6. ~late => \A t \in Servers : srv[t].rpc => srv[t].listener # None
  BY <1>0, <1>1 DEF WillStart, Configuring
<1>7. Jobs'
  BY <1>1, <1>3, <1>4, <1>5, Zenon
<1>8. JobWords'
  BY <1>0, <1>1, <1>3, <1>4, <1>5 DEF JobWords, Calling, Stopping
<1>9. Held'
  <2>1. \A q \in Procs : "unlock" \notin Left(q)'
    <3>1. \A q \in Procs : q # a => "unlock" \notin Left(q)
      BY <1>0, <1>1, Zenon DEF Held
    <3> QED
      BY <1>4, <3>1, Zenon DEF Procs
  <2>2. \A q \in Procs : Left(q)' # {} /\ q \in Closers \cup {"start"} <=> Left(q) # {} /\ q \in Closers \cup {"start"}
    BY <1>1, <1>4, <1>5, Zenon DEF Procs
  <2>3. \A q \in Procs : ("shutdown" \in Left(q)' <=> "shutdown" \in Left(q)) /\ ("shutdown" \in Left(q) => proc'[q].on = proc[q].on)
    BY <1>1, <1>2, <1>4, <1>5, Zenon DEF Procs
  <2>4. (\A q \in Closers \cup {"start"} : Left(q) # {} <=> startStopLock = q)'
    BY <1>0, <1>3, <2>2, Zenon DEF Held, Procs
  <2>5. (\A q \in Procs : "unlock" \in Left(q) <=> nodeLock = q)'
    BY <1>3, <1>4, <2>1, Zenon
  <2>6. (\A q \in Procs, s \in Servers : srv[s].mu = q <=> "shutdown" \in Left(q) /\ proc[q].on = s)'
    BY <1>0, <1>3, <2>3 DEF Held
  <2>7. (\A q \in Procs : "shutdown" \in Left(q) => proc[q].on \in Servers)'
    BY <1>0, <2>3, Zenon DEF Held
  <2> QED
    BY <2>4, <2>5, <2>6, <2>7, Zenon DEF Held
<1>10. OnServer'
  BY <1>0, <1>3, <1>4, <1>5 DEF OnServer, Stopping
<1>11. WillStart'
  <2>1. \A p \in Admins \cup {"start"} : "enable_rpc" \notin Left(p)'
    BY <1>1, <1>4, <1>5 DEF Stopping, Configuring
  <2> QED
    BY <1>3, <1>6, <2>1 DEF WillStart
<1>12. Ended'
  <2>1. \A p \in Closers \cup {"start"} : Left(p)' = Left(p)
    BY <1>4, Zenon
  <2>2. None \notin Admins
    BY <1>4, Zenon DEF Procs
  <2> QED
    BY <1>0, <1>3, <2>1, <2>2 DEF Ended
<1>13. Over'
  BY <1>0, <1>1, <1>3, <1>4, <1>5 DEF Over, Procs
<1> USE <1>0, <1>1, <1>3, <1>4, <1>5
<1>14. Shape'
  BY Zenon DEF Shape
<1>15. StopDrops'
  BY Zenon DEF StopDrops
<1>16. ListensAtEndpoint'
  BY Zenon DEF ListensAtEndpoint
<1>17. Fresh'
  BY Zenon DEF Fresh
<1>18. Unstarted'
  BY Zenon DEF Unstarted
<1>19. Lifecycles'
  BY Zenon DEF Lifecycles
<1> QED
  BY <1>7, <1>8, <1>9, <1>10, <1>11, <1>12, <1>13, <1>14, <1>15, <1>16, <1>17, <1>18, <1>19, Zenon DEF NodeInv

\* All lifecycles run, and Start returns.
LEMMA StartReturnsKeeps ==
  ASSUME NodeInv, Now("start", "services"), Advance("start"), startStopLock' = None, running' = running,
         UNCHANGED <<config, state, nodeLock, tracked, closes, dirLocked, stopped, Rpc, late>>
  PROVE  NodeInv'
<1>0. /\ Shape /\ Jobs /\ JobWords /\ Held /\ OnServer /\ StopDrops /\ ListensAtEndpoint /\ Fresh
      /\ WillStart /\ Ended /\ Over /\ Unstarted /\ Lifecycles
  BY Zenon DEF NodeInv
<1>1. /\ "start" \in Procs /\ Left("start") = {"services"} /\ startStopLock = "start"
      /\ tracked = 1..Services /\ state = "running" /\ \A c \in Closers : Left(c) = {}
      /\ "start" \notin Closers /\ "start" \notin Admins /\ None \notin Procs /\ proc["start"] # None
  <2>1. /\ "start" \in Procs /\ "services" \in Left("start") /\ \A c \in Closers : Left(c) = {}
        /\ "start" \notin Closers /\ "start" \notin Admins /\ None \notin Procs /\ startStopLock = "start"
    BY LockHeld, NodeAssumption, Zenon
  <2>2. \A v \in Left("start") : v # "services" => Rank("services") < Rank(v)
    BY <1>0, <2>1, AtWord, Zenon
  <2>3. Left("start") \subseteq Configuring \cup {"unlock", "services"}
    BY <1>0, <2>1, Zenon DEF JobWords, Closing
  <2>4. Rank("services") = 15 /\ \A v \in Configuring \cup {"unlock"} : Rank(v) \in Nat /\ Rank(v) < 15
    BY DEF Configuring, Rank
  <2>5. Left("start") = {"services"}
    BY <2>1, <2>2, <2>3, <2>4
  <2>6. tracked = 1..Services /\ state = "running"
    BY <1>0, <2>1, Zenon DEF Lifecycles
  <2> QED
    BY <2>1, <2>5, <2>6, Zenon DEF Now
<1>2. Moves("start", Left("start") \ {"services"})
  BY <1>0, <1>1, Advanced, Zenon
<1>3. UNCHANGED <<config, state, nodeLock, tracked, closes, dirLocked, stopped, inproc, ipc, srv, late>>
  BY Zenon DEF Rpc
<1>4. /\ Left("start")' = {} /\ Jobs' /\ "start" \in Procs
      /\ \A c \in Closers : Left(c)' = Left(c) /\ proc'[c] = proc[c]
      /\ \A a \in Admins : Left(a)' = Left(a) /\ proc'[a] = proc[a]
      /\ "start" \notin Closers /\ "start" \notin Admins /\ None \notin Procs
  BY <1>1, <1>2, Others
<1>5. Jobs'
  BY <1>1, <1>3, <1>4, Zenon
<1>6. Held'
  <2>1. \A q \in Closers \cup {"start"} : Left(q)' = {} /\ q # None
    BY <1>1, <1>4, Zenon DEF Procs
  <2>2. \A q \in Procs : q # "start" => Left(q)' = Left(q) /\ proc'[q] = proc[q]
    BY <1>2, Zenon DEF Moves
  <2>3. (\A q \in Procs : "unlock" \in Left(q) <=> nodeLock = q)'
    BY <1>0, <1>1, <1>3, <1>4, <2>2 DEF Held
  <2>4. (\A q \in Procs, s \in Servers : srv[s].mu = q <=> "shutdown" \in Left(q) /\ proc[q].on = s)'
    BY <1>0, <1>1, <1>3, <1>4, <2>2 DEF Held
  <2>5. (\A q \in Procs : "shutdown" \in Left(q) => proc[q].on \in Servers)'
    BY <1>0, <1>1, <1>4, <2>2 DEF Held
  <2> QED
    BY <2>1, <2>3, <2>4, <2>5, Zenon DEF Held
<1>7. WillStart'
  <2>1. \A p \in Admins \cup {"start"} : p # "start" => Left(p)' = Left(p) /\ proc'[p] = proc[p]
    BY <1>4, Zenon
  <2>2. "start_http" \notin Left("start") /\ "enable_rpc" \notin Left("start")'
    BY <1>1, <1>4, Zenon
  <2> QED
    BY <1>0, <1>3, <1>4, <2>1, <2>2 DEF WillStart
<1>8. Ended'
  BY <1>1, <1>4, Zenon DEF Ended
<1>9. Lifecycles'
  <2>1. "services" \notin Left("start")' /\ "unlock" \notin Left("start")' /\ running' = running
    BY <1>4, Zenon
  <2> QED
    BY <1>0, <1>3, <2>1, Zenon DEF Lifecycles
<1> USE <1>0, <1>1, <1>3, <1>4
<1>10. Shape'
  BY Zenon DEF Shape
<1>11. JobWords'
  BY DEF JobWords
<1>12. OnServer'
  BY DEF OnServer
<1>13. StopDrops'
  BY Zenon DEF StopDrops
<1>14. ListensAtEndpoint'
  BY Zenon DEF ListensAtEndpoint
<1>15. Fresh'
  BY Zenon DEF Fresh
<1>16. Over'
  BY DEF Over
<1>17. Unstarted'
  BY Zenon DEF Unstarted
<1> QED
  BY <1>5, <1>6, <1>7, <1>8, <1>9, <1>10, <1>11, <1>12, <1>13, <1>14, <1>15, <1>16, <1>17, Zenon DEF NodeInv

\* A lifecycle starts.
LEMMA ServiceStartsKeeps ==
  ASSUME NodeInv, NEW next \in 1..Services, Now("start", "services"), startStopLock' = startStopLock,
         running = 1..(next - 1), running' = 1..next, proc' = proc,
         UNCHANGED <<config, state, nodeLock, tracked, closes, dirLocked, stopped, Rpc, late>>
  PROVE  NodeInv'
<1>0. /\ Shape /\ Jobs /\ JobWords /\ Held /\ OnServer /\ StopDrops /\ ListensAtEndpoint /\ Fresh
      /\ WillStart /\ Ended /\ Over /\ Unstarted /\ Lifecycles
  BY Zenon DEF NodeInv
<1>1. /\ "start" \in Procs /\ Left("start") = {"services"} /\ startStopLock = "start"
      /\ tracked = 1..Services /\ state = "running" /\ \A c \in Closers : Left(c) = {}
      /\ "start" \notin Closers /\ "start" \notin Admins /\ None \notin Procs /\ proc["start"] # None
  <2>1. /\ "start" \in Procs /\ "services" \in Left("start") /\ \A c \in Closers : Left(c) = {}
        /\ "start" \notin Closers /\ "start" \notin Admins /\ None \notin Procs /\ startStopLock = "start"
    BY LockHeld, NodeAssumption, Zenon
  <2>2. \A v \in Left("start") : v # "services" => Rank("services") < Rank(v)
    BY <1>0, <2>1, AtWord, Zenon
  <2>3. Left("start") \subseteq Configuring \cup {"unlock", "services"}
    BY <1>0, <2>1, Zenon DEF JobWords, Closing
  <2>4. Rank("services") = 15 /\ \A v \in Configuring \cup {"unlock"} : Rank(v) \in Nat /\ Rank(v) < 15
    BY DEF Configuring, Rank
  <2>5. Left("start") = {"services"}
    BY <2>1, <2>2, <2>3, <2>4
  <2>6. tracked = 1..Services /\ state = "running"
    BY <1>0, <2>1, Zenon DEF Lifecycles
  <2> QED
    BY <2>1, <2>5, <2>6, Zenon DEF Now
<1>2. \A p : Left(p)' = Left(p)
  BY Zenon DEF Left
<1>3. UNCHANGED <<config, state, nodeLock, tracked, closes, dirLocked, stopped, inproc, ipc, srv, late>>
  BY Zenon DEF Rpc
<1>4. Jobs'
  BY <1>0, Zenon DEF Jobs
<1>5. Ended'
  BY <1>1, <1>2 DEF Ended
<1>6. Lifecycles'
  <2>3. next \in 0..Services
    BY NodeAssumption
  <2>4. running' \subseteq tracked'
    BY <1>1, <1>3, <2>3, NodeAssumption
  <2>5. "unlock" \notin Left("start")'
    BY <1>1, <1>2, Zenon
  <2> QED
    BY <1>0, <1>1, <1>2, <1>3, <2>3, <2>4, <2>5, Zenon DEF Lifecycles
<1> USE <1>0, <1>1, <1>2, <1>3
<1>7. Shape'
  BY Zenon DEF Shape
<1>8. JobWords'
  BY Zenon DEF JobWords
<1>9. Held'
  BY DEF Held
<1>10. OnServer'
  BY Zenon DEF OnServer
<1>11. StopDrops'
  BY Zenon DEF StopDrops
<1>12. ListensAtEndpoint'
  BY Zenon DEF ListensAtEndpoint
<1>13. Fresh'
  BY Zenon DEF Fresh
<1>14. WillStart'
  BY DEF WillStart
<1>15. Over'
  BY DEF Over
<1>16. Unstarted'
  BY Zenon DEF Unstarted
<1> QED
  BY <1>4, <1>5, <1>6, <1>7, <1>8, <1>9, <1>10, <1>11, <1>12, <1>13, <1>14, <1>15, <1>16, Zenon DEF NodeInv

\* A lifecycle fails to start: those that run are stopped.
LEMMA ServiceFailsKeeps ==
  ASSUME NodeInv, Now("start", "services"), startStopLock' = startStopLock, running' = running,
         Continue("start", stopRPC \o <<"stop_services", "close_databases", "release">>),
         UNCHANGED <<config, state, nodeLock, tracked, closes, dirLocked, stopped, Rpc, late>>
  PROVE  NodeInv'
<1>0. /\ Shape /\ Jobs /\ JobWords /\ Held /\ OnServer /\ StopDrops /\ ListensAtEndpoint /\ Fresh
      /\ WillStart /\ Ended /\ Over /\ Unstarted /\ Lifecycles
  BY Zenon DEF NodeInv
<1>1. /\ "start" \in Procs /\ Left("start") = {"services"} /\ startStopLock = "start"
      /\ tracked = 1..Services /\ state = "running" /\ \A c \in Closers : Left(c) = {}
      /\ "start" \notin Closers /\ "start" \notin Admins /\ None \notin Procs /\ proc["start"] # None
  <2>1. /\ "start" \in Procs /\ "services" \in Left("start") /\ \A c \in Closers : Left(c) = {}
        /\ "start" \notin Closers /\ "start" \notin Admins /\ None \notin Procs /\ startStopLock = "start"
    BY LockHeld, NodeAssumption, Zenon
  <2>2. \A v \in Left("start") : v # "services" => Rank("services") < Rank(v)
    BY <1>0, <2>1, AtWord, Zenon
  <2>3. Left("start") \subseteq Configuring \cup {"unlock", "services"}
    BY <1>0, <2>1, Zenon DEF JobWords, Closing
  <2>4. Rank("services") = 15 /\ \A v \in Configuring \cup {"unlock"} : Rank(v) \in Nat /\ Rank(v) < 15
    BY DEF Configuring, Rank
  <2>5. Left("start") = {"services"}
    BY <2>1, <2>2, <2>3, <2>4
  <2>6. tracked = 1..Services /\ state = "running"
    BY <1>0, <2>1, Zenon DEF Lifecycles
  <2> QED
    BY <2>1, <2>5, <2>6, Zenon DEF Now
<1>2. Moves("start", EndWords \cup {"stop_services"})
  BY <1>0, <1>1, Continued, Endings, Zenon
<1>3. UNCHANGED <<config, state, nodeLock, tracked, closes, dirLocked, stopped, inproc, ipc, srv, late>>
  BY Zenon DEF Rpc
<1>4. /\ Left("start")' = EndWords \cup {"stop_services"} /\ Jobs' /\ "start" \in Procs
      /\ \A c \in Closers : Left(c)' = Left(c) /\ proc'[c] = proc[c]
      /\ \A a \in Admins : Left(a)' = Left(a) /\ proc'[a] = proc[a]
      /\ "start" \notin Closers /\ "start" \notin Admins /\ None \notin Procs
  BY <1>1, <1>2, Others, Zenon
<1>5. Jobs'
  BY <1>1, <1>3, <1>4, Zenon
<1>6. JobWords'
  BY <1>0, <1>1, <1>3, <1>4 DEF JobWords, EndWords, Closing
<1>7. Held'
  <2>1. /\ EndWords \cup {"stop_services"} = {} <=> Left("start") = {}
        /\ "unlock" \in EndWords \cup {"stop_services"} <=> "unlock" \in Left("start")
        /\ "shutdown" \notin EndWords \cup {"stop_services"} /\ "shutdown" \notin Left("start")
    BY <1>1, Zenon DEF EndWords
  <2> QED
    BY <1>0, <1>1, <1>2, <1>3, <2>1, HeldKept, Zenon
<1>8. OnServer'
  BY <1>0, <1>1, <1>3, <1>4 DEF OnServer, EndWords
<1>9. Fresh'
  BY <1>0, <1>1, <1>3, <1>4, Zenon DEF Fresh, EndWords
<1>10. WillStart'
  <2>1. \A p \in Admins \cup {"start"} : p # "start" => Left(p)' = Left(p) /\ proc'[p] = proc[p]
    BY <1>4, Zenon
  <2>2. "start_http" \notin Left("start") /\ "enable_rpc" \notin Left("start")'
    BY <1>1, <1>4, Zenon DEF EndWords
  <2> QED
    BY <1>0, <1>3, <1>4, <2>1, <2>2 DEF WillStart
<1>11. Ended'
  <2>1. \A c \in Closers : Left(c)' = {}
    BY <1>1, <1>4, Zenon
  <2>2. /\ "stop_services" \in Left("start")'
        /\ "stop_http" \in Left("start")' /\ "stop_ws" \in Left("start")' /\ "stop_ipc" \in Left("start")'
        /\ "stop_inproc" \in Left("start")' /\ "close_databases" \in Left("start")'
    BY <1>4, Zenon DEF EndWords
  <2> QED
    BY <2>1, <2>2, Zenon DEF Ended
<1>12. Lifecycles'
  <2>1. "services" \notin Left("start")' /\ "unlock" \notin Left("start")' /\ running' = running
    BY <1>4, Zenon DEF EndWords
  <2> QED
    BY <1>0, <1>3, <2>1, Zenon DEF Lifecycles
<1> USE <1>0, <1>1, <1>3, <1>4
<1>13. Shape'
  BY DEF Shape
<1>14. StopDrops'
  BY Zenon DEF StopDrops
<1>15. ListensAtEndpoint'
  BY Zenon DEF ListensAtEndpoint
<1>16. Over'
  BY DEF Over
<1>17. Unstarted'
  BY Zenon DEF Unstarted
<1> QED
  BY <1>5, <1>6, <1>7, <1>8, <1>9, <1>10, <1>11, <1>12, <1>13, <1>14, <1>15, <1>16, <1>17, Zenon DEF NodeInv

------------------------------------------------------------------------------
(* Their actions, from these parts. *)

\* startIPC opens the endpoint or fails.
LEMMA StartIPCStep ==
  ASSUME NodeInv, StartIPC
  PROVE  NodeInv'
<1>1. CASE ipc' = TRUE /\ Advance("start")
  BY <1>1, StartIPCKeeps, Zenon DEF StartIPC
<1>2. CASE ipc' = FALSE /\ StartFailed
  <2>1. "ipc" \in Configuring /\ Now("start", "ipc")
    BY Zenon DEF Configuring, StartIPC
  <2>2. "ipc" \in Left("start")
    BY <2>1, StartAt, Zenon
  <2>3. \A t \in Servers : ~srv[t].rpc
    BY <2>2, Zenon DEF NodeInv, Fresh
  <2>4. srv' = srv /\ UNCHANGED <<config, NodeState, nodeLock, inproc, late>> /\ ipc' \in BOOLEAN
    BY <1>2, Zenon DEF StartIPC
  <2>5. "http" \in Servers
    BY Zenon DEF Servers
  <2> QED
    BY <1>2, <2>1, <2>3, <2>4, <2>5, StartFailedKeeps, Zenon
<1> QED
  BY <1>1, <1>2, Zenon DEF StartIPC

\* Only Start and the calls configure servers.
LEMMA Configurers ==
  ASSUME NodeInv, NEW p \in Procs, NEW w \in (Calling \cup Configuring) \ {"inproc", "ipc"}, Now(p, w)
  PROVE  /\ p = "start" \/ p \in Admins
         /\ p = "start" => w # "start"
         /\ p \in Admins => p # "start" /\ w \in Calling
<1>0. Jobs /\ JobWords
  BY Zenon DEF NodeInv
<1>1. w \in Left(p)
  BY <1>0, AtWord, Zenon
<1>2. p \notin Closers
  BY <1>0, <1>1, Zenon DEF JobWords, Closing, Calling, Configuring
<1>3. p = "start" => w # "start"
  BY <1>0, <1>1 DEF JobWords, Closing, Configuring
<1>4. p \in Admins => w \in Calling
  BY <1>0, <1>1, Zenon DEF JobWords, Stopping, Calling, Configuring
<1> QED
  BY <1>2, <1>3, <1>4, NodeAssumption, Zenon DEF Procs

\* setListenAddr: Start cannot be refused, since no server runs yet.
LEMMA SetListenAddrStep ==
  ASSUME NodeInv, NEW p \in Procs, SetListenAddr(p)
  PROVE  NodeInv'
<1>1. PICK w \in {"http_addr", "ws_addr"} : Now(p, w)
  BY Zenon DEF SetListenAddr
<1>2. w \in Calling /\ w \in Configuring /\ w \in (Calling \cup Configuring) \ {"inproc", "ipc"}
  BY Zenon DEF Calling, Configuring
<1>3. PICK s : s = Target(p)
  BY Zenon
<1>4. PICK x : x = Port(p)
  OBVIOUS
<1>5. /\ srv[s].mu = None
      /\ IF CanListen(srv[s], x)
         THEN srv' = [srv EXCEPT ![s].port = x] /\ Goes(p, s)
         ELSE Failed(p) /\ srv' = srv
      /\ UNCHANGED <<config, NodeState, nodeLock, inproc, ipc, late>>
  BY <1>3, <1>4, Zenon DEF SetListenAddr, Goes
<1>6. s \in Servers
  BY <1>3, Zenon DEF Target, wsServerForPort, Servers
<1>7. w = "http_addr" => ~Now(p, "ws_addr") /\ s = "http"
  BY <1>1, <1>3, Zenon DEF Now, Target
<1>8. w = "ws_addr" => Now(p, "ws_addr")
  BY <1>1, Zenon
<1>9. CASE p = "start"
  <2>1. "start_http" \in Left("start") /\ w \in Left("start")
    BY <1>1, <1>2, <1>9, StartAt, Zenon
  <2>2. x \in {1, 2}
    <3>1. config.http \in {None, 1} /\ config.ws \in {None, 1, 2}
      BY Zenon DEF NodeInv, Shape
    <3>2. w = "http_addr" => config.http # None /\ x = config.http
      BY <1>4, <1>7, <1>9, <2>1, Zenon DEF NodeInv, OnServer, Port
    <3>3. w = "ws_addr" => config.ws # None /\ x = config.ws
      BY <1>4, <1>8, <1>9, <2>1, Zenon DEF NodeInv, OnServer, Port
    <3> QED
      BY <3>1, <3>2, <3>3, Zenon
  <2>3. srv[s].listener = None
    BY <1>6, <2>1, Zenon DEF NodeInv, Fresh
  <2>4. CanListen(srv[s], x)
    BY <2>3, Zenon DEF CanListen
  <2>5. srv' = [srv EXCEPT ![s].port = x]
    BY <1>5, <2>4, Zenon
  <2>6. Goes("start", s)
    BY <1>5, <1>9, <2>4, Zenon
  <2> QED
    BY <1>1, <1>5, <1>6, <1>7, <1>9, <2>2, <2>5, <2>6, StartAddressedKeeps, Zenon
<1>10. CASE p \in Admins
  <2>1. p # "start"
    BY <1>10, NodeAssumption, Zenon
  <2>2. x \in AdminPorts
    <3>1. "unlock" \in Left(p)
      BY <1>1, <1>2, <1>10, CallAt, Zenon
    <3> QED
      BY <1>4, <1>10, <2>1, <3>1, Zenon DEF NodeInv, OnServer, Port
  <2>3. CASE CanListen(srv[s], x)
    <3>1. srv' = [srv EXCEPT ![s].port = x] /\ Goes(p, s)
      BY <1>5, <2>3, Zenon
    <3> QED
      BY <1>1, <1>5, <1>6, <1>7, <1>10, <2>2, <2>3, <3>1, CallAddressedKeeps, Zenon
  <2>4. CASE ~CanListen(srv[s], x)
    <3>1. Continue(p, <<"unlock">>) /\ srv' = srv
      BY <1>5, <2>1, <2>4, Zenon DEF Failed
    <3>2. w # "start"
      BY Zenon
    <3> QED
      BY <1>1, <1>2, <1>5, <1>10, <3>1, <3>2, CallFailedKeeps, Zenon
  <2> QED
    BY <2>3, <2>4, Zenon
<1> QED
  BY <1>1, <1>2, <1>9, <1>10, Configurers, Zenon

\* enableRPC and enableWS: Start cannot be refused, since it installs each handler once.
LEMMA EnableStep ==
  ASSUME NodeInv, NEW p \in Procs, Enable(p)
  PROVE  NodeInv'
<1>1. PICK w \in {"enable_rpc", "enable_ws"} : Now(p, w)
  BY Zenon DEF Enable
<1>2. w \in Calling /\ w \in Configuring /\ w \in (Calling \cup Configuring) \ {"inproc", "ipc"} /\ w # "start_ws" /\ w # "start"
  BY Zenon DEF Calling, Configuring
<1>3. PICK s : s = proc[p].on
  BY Zenon
<1>4. Now(p, "enable_rpc") <=> w = "enable_rpc"
  BY <1>1, Zenon DEF Now
<1>5. /\ srv[s].mu = None
      /\ \/ Failed(p) /\ srv' = srv /\ IF w = "enable_rpc" THEN srv[s].rpc ELSE srv[s].ws
         \/ /\ Advance(p)
            /\ srv' = IF w = "enable_rpc" THEN [srv EXCEPT ![s].rpc = TRUE] ELSE [srv EXCEPT ![s].ws = TRUE]
      /\ UNCHANGED <<config, NodeState, nodeLock, inproc, ipc, late>>
  BY <1>3, <1>4, Zenon DEF Enable
<1>6. CASE p = "start"
  <2>1. "start_http" \in Left("start") /\ w \in Left("start")
    BY <1>1, <1>2, <1>6, StartAt, Zenon
  <2>2. s \in Servers
    <3>1. \A v \in Left("start") : v # w => Rank(w) < Rank(v)
      BY <1>1, <1>6, AtWord, Zenon DEF NodeInv
    <3>2. Rank("http_addr") = 3 /\ Rank("enable_rpc") = 4 /\ Rank("ws_addr") = 5 /\ Rank("enable_ws") = 6
      BY Zenon DEF Rank
    <3>3. (w = "enable_rpc" => "http_addr" \notin Left("start")) /\ (w = "enable_ws" => "ws_addr" \notin Left("start"))
      BY <3>1, <3>2
    <3> QED
      BY <1>3, <1>6, <2>1, <3>3, Zenon DEF NodeInv, OnServer, Servers
  <2>3. ~(IF w = "enable_rpc" THEN srv[s].rpc ELSE srv[s].ws)
    BY <2>1, <2>2, Zenon DEF NodeInv, Fresh
  <2> QED
    BY <1>1, <1>3, <1>5, <1>6, <2>3, StartEnablesKeeps, Zenon
<1>7. CASE p \in Admins
  <2>1. p # "start"
    BY <1>7, NodeAssumption, Zenon
  <2>2. CASE Failed(p) /\ srv' = srv
    <3>1. Continue(p, <<"unlock">>)
      BY <2>1, <2>2, Zenon DEF Failed
    <3> QED
      BY <1>1, <1>2, <1>5, <1>7, <2>2, <3>1, CallFailedKeeps, Zenon
  <2>3. CASE /\ Advance(p)
             /\ srv' = IF w = "enable_rpc" THEN [srv EXCEPT ![s].rpc = TRUE] ELSE [srv EXCEPT ![s].ws = TRUE]
    BY <1>1, <1>3, <1>5, <1>7, <2>3, CallEnablesKeeps, Zenon
  <2> QED
    BY <1>5, <2>2, <2>3, Zenon
<1> QED
  BY <1>1, <1>2, <1>6, <1>7, Configurers, Zenon

\* The start of a server.
LEMMA StartServerStep ==
  ASSUME NodeInv, NEW p \in Procs, StartServer(p)
  PROVE  NodeInv'
<1>1. PICK w \in {"start_http", "start_ws", "start"} : Now(p, w)
  BY Zenon DEF StartServer
<1>2. w \in (Calling \cup Configuring) \ {"inproc", "ipc"}
  BY Zenon DEF Calling, Configuring
<1>3. PICK s : s = IF w = "start" THEN proc[p].on ELSE IF w = "start_http" THEN "http" ELSE "ws"
  BY Zenon
<1>4. (Now(p, "start") <=> w = "start") /\ (Now(p, "start_http") <=> w = "start_http")
  BY <1>1, Zenon DEF Now
<1>5. /\ srv[s].mu = None
      /\ \E h \in Started(s) :
           /\ srv' = [srv EXCEPT ![s] = h]
           /\ IF srv[s].port # None /\ h.listener = None THEN Failed(p) ELSE Advance(p)
      /\ UNCHANGED <<config, NodeState, nodeLock, inproc, ipc, late>>
  BY <1>3, <1>4, Zenon DEF StartServer
<1>6. PICK h \in Started(s) :
           /\ srv' = [srv EXCEPT ![s] = h]
           /\ IF srv[s].port # None /\ h.listener = None THEN Failed(p) ELSE Advance(p)
  BY <1>5, Zenon
<1>7. s \in Servers
  <2>1. CASE w # "start"
    BY <1>3, <2>1, Zenon DEF Servers
  <2>2. CASE w = "start"
    <3>1. p \in Admins /\ w \in Calling
      BY <1>1, <1>2, <2>2, Configurers, Zenon
    <3>2. "start" \in Left(p)
      BY <1>1, <2>2, AtWord, Zenon DEF NodeInv
    <3>3. \A v \in Left(p) : v # "start" => Rank("start") < Rank(v)
      BY <1>1, <2>2, AtWord, Zenon DEF NodeInv
    <3>4. Rank("http_addr") = 3 /\ Rank("ws_addr") = 5 /\ Rank("start") = 7
      BY Zenon DEF Rank
    <3>5. "http_addr" \notin Left(p) /\ "ws_addr" \notin Left(p)
      BY <3>3, <3>4
    <3> QED
      BY <1>3, <2>2, <3>1, <3>2, <3>5, Zenon DEF NodeInv, OnServer
  <2> QED
    BY <2>1, <2>2, Zenon
<1>8. srv[s] \in ServerRecord
  BY <1>7, Zenon DEF NodeInv, Shape, ServerRecord
<1>9. \/ h = srv[s] /\ (srv[s].port = None \/ srv[s].listener # None) /\ Advance(p)
      \/ h = [srv[s] EXCEPT !.listener = srv[s].port] /\ srv[s].port # None /\ Advance(p)
      \/ h = StartFails(srv[s]) /\ Failed(p)
  <2>1. CASE srv[s].port = None \/ srv[s].listener # None
    <3>1. h = srv[s]
      BY <1>6, <2>1, Zenon DEF Started
    <3> QED
      BY <1>6, <2>1, <3>1, Zenon
  <2>2. CASE ~(srv[s].port = None \/ srv[s].listener # None)
    <3>1. h = StartFails(srv[s]) \/ h = [srv[s] EXCEPT !.listener = srv[s].port]
      BY <1>6, <2>2, Zenon DEF Started
    <3>2. CASE h = StartFails(srv[s])
      <4>1. h.listener = None
        BY <1>8, <2>2, <3>2, Zenon DEF StartFails, ServerRecord
      <4> QED
        BY <1>6, <2>2, <3>2, <4>1, Zenon
    <3>3. CASE h = [srv[s] EXCEPT !.listener = srv[s].port]
      <4>1. h.listener = srv[s].port
        BY <1>8, <3>3, Zenon DEF ServerRecord
      <4> QED
        BY <1>6, <2>2, <3>3, <4>1, Zenon
    <3> QED
      BY <3>1, <3>2, <3>3, Zenon
  <2> QED
    BY <2>1, <2>2, Zenon
<1>10. CASE p = "start"
  <2>1. w \in {"start_http", "start_ws"} /\ w \in Configuring
    BY <1>1, <1>2, <1>10, Configurers, Zenon DEF Configuring
  <2>2. s = IF w = "start_http" THEN "http" ELSE "ws"
    BY <1>3, <2>1, Zenon
  <2>3. CASE h = StartFails(srv[s]) /\ Failed(p)
    <3>1. StartFailed /\ srv' = [srv EXCEPT ![s] = StartFails(@)]
      BY <1>6, <1>10, <2>3, Zenon DEF Failed
    <3>2. "start_http" \in Left("start") => s = "http"
      <4>1. w = "start_ws" => "start_http" \notin Left("start")
        <5>1. \A v \in Left("start") : v # w => Rank(w) < Rank(v)
          BY <1>1, <1>10, AtWord, Zenon DEF NodeInv
        <5>2. Rank("start_http") = 7 /\ Rank("start_ws") = 8
          BY Zenon DEF Rank
        <5> QED
          BY <5>1, <5>2
      <4> QED
        BY <2>1, <2>2, <4>1, Zenon
    <3>3. ipc' \in BOOLEAN /\ UNCHANGED <<config, NodeState, nodeLock, inproc, late>>
      BY <1>5, Zenon DEF NodeInv, Shape
    <3> QED
      BY <1>1, <1>7, <1>10, <2>1, <3>1, <3>2, <3>3, StartFailedKeeps, Zenon
  <2>4. CASE ~(h = StartFails(srv[s]) /\ Failed(p))
    <3>1. Advance("start")
      BY <1>9, <1>10, <2>4, Zenon
    <3>2. \/ h = srv[s] /\ (srv[s].port = None \/ srv[s].listener # None)
          \/ h = [srv[s] EXCEPT !.listener = srv[s].port] /\ srv[s].port # None
      BY <1>9, <2>4, Zenon
    <3>3. Now("start", w) /\ srv' = [srv EXCEPT ![s] = h]
      BY <1>1, <1>6, <1>10, Zenon
    <3>4. UNCHANGED <<config, NodeState, nodeLock, inproc, ipc, late>>
      BY <1>5, Zenon
    <3>5. w \in {"start_http", "start_ws"}
      BY <2>1, Zenon
    <3> QED
      BY <2>2, <3>1, <3>2, <3>3, <3>4, <3>5, StartListensKeeps, Zenon
  <2> QED
    BY <2>3, <2>4, Zenon
<1>11. CASE p \in Admins
  <2>1. p # "start" /\ w = "start" /\ w \in Calling
    BY <1>1, <1>2, <1>11, Configurers, Zenon DEF Calling
  <2>2. s = proc[p].on
    BY <1>3, <2>1, Zenon
  <2>3. CASE h = StartFails(srv[s]) /\ Failed(p)
    <3>1. Continue(p, <<"unlock">>) /\ srv' = [srv EXCEPT ![proc[p].on] = StartFails(@)]
      BY <1>6, <2>1, <2>2, <2>3, Zenon DEF Failed
    <3> QED
      BY <1>1, <1>5, <1>11, <2>1, <3>1, CallFailedKeeps, Zenon
  <2>4. CASE ~(h = StartFails(srv[s]) /\ Failed(p))
    <3>1. Advance(p)
      BY <1>9, <2>4, Zenon
    <3>2. \/ h = srv[s] /\ (srv[s].port = None \/ srv[s].listener # None)
          \/ h = [srv[s] EXCEPT !.listener = srv[s].port] /\ srv[s].port # None
      BY <1>9, <2>4
    <3>3. Now(p, w) /\ srv' = [srv EXCEPT ![s] = h]
      BY <1>1, <1>6, Zenon
    <3>4. UNCHANGED <<config, NodeState, nodeLock, inproc, ipc, late>>
      BY <1>5
    <3> QED
      BY <1>11, <2>1, <2>2, <3>1, <3>2, <3>3, <3>4, CallListensKeeps, Zenon
  <2> QED
    BY <2>3, <2>4
<1> QED
  BY <1>1, <1>2, <1>10, <1>11, Configurers, Zenon

\* The end of the section under the node's lock.
LEMMA UnlockStep ==
  ASSUME NodeInv, NEW p \in Procs, Unlock(p)
  PROVE  NodeInv'
<1>1. /\ Now(p, "unlock") /\ Advance(p) /\ nodeLock' = None
      /\ UNCHANGED <<config, NodeState, Rpc, late>>
  BY Zenon DEF Unlock
<1>2. CASE p = "start"
  BY <1>1, <1>2, StartUnlocksKeeps, Zenon
<1>3. CASE p \in Admins
  BY <1>1, <1>3, CallUnlocksKeeps, Zenon
<1>4. CASE p \in Closers
  <2>1. "unlock" \in Left(p)
    BY <1>1, AtWord, Zenon DEF NodeInv
  <2> QED
    BY <1>4, <2>1, Zenon DEF NodeInv, JobWords, Closing
<1> QED
  BY <1>2, <1>3, <1>4, Zenon DEF Procs

\* The start of the lifecycles.
LEMMA StartServiceStep ==
  ASSUME NodeInv, StartService
  PROVE  NodeInv'
<1>1. /\ Now("start", "services")
      /\ UNCHANGED <<config, state, nodeLock, tracked, closes, dirLocked, stopped, Rpc, late>>
  BY Zenon DEF StartService
<1>2. CASE Advance("start") /\ startStopLock' = None /\ UNCHANGED running
  BY <1>1, <1>2, StartReturnsKeeps, Zenon
<1>3. CASE /\ startStopLock' = startStopLock /\ UNCHANGED proc
           /\ \E next \in 1..Services : running = 1..(next - 1) /\ running' = 1..next
  BY <1>1, <1>3, ServiceStartsKeeps, Zenon
<1>4. CASE /\ startStopLock' = startStopLock /\ running' = running
           /\ Continue("start", stopRPC \o <<"stop_services", "close_databases", "release">>)
  BY <1>1, <1>4, ServiceFailsKeeps, Zenon
<1> QED
  BY <1>2, <1>3, <1>4, Zenon DEF StartService

==============================================================================
