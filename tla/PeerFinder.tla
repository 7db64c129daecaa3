----------------------------- MODULE PeerFinder -----------------------------
(***************************************************************************)
(* The service manager (api/service/manager.go) and the service that looks *)
(* for peers (api/service/networkinfo/service.go), with what becomes of a  *)
(* peer (AddPeers in bnz/backend.go, AddPeer in p2p/host.go).              *)
(*                                                                         *)
(* The manager's goroutine takes one action after the other and runs it to *)
(* its end.  A search is one channel that FindPeers returned; the          *)
(* goroutines of findPeers read from s.peerInfo, the latest of them.       *)
(***************************************************************************)
EXTENDS Integers, Sequences, Absent

CONSTANTS BootNodes, ConnectionRetry,
          minFindPeerInterval, maxFindPeerInterval,
          Hosts,                 \* the peers there are
          Found,                 \* what one FindPeers may return: sequences of peers
          Self,                  \* the peer that is this node
          Addressless,           \* peers that are found without an address
          MaxActions, MaxFinds   \* bounds

ASSUME FinderAssumption ==
  /\ minFindPeerInterval \in Nat /\ maxFindPeerInterval \in Nat \ {0}
  /\ minFindPeerInterval <= maxFindPeerInterval
  /\ Found \subseteq Seq(Hosts)

VARIABLES registered,  \* the manager knows the service
          manager,     \* "idle", "init", "stop" (waits to send on stopChan)
          actions,     \* actions taken so far
          tries,       \* bootnode -> attempts left
          reached,     \* bootnodes that Init has connected to
          loop,        \* DoService: "none", "running", "ended"
          started,     \* s.started
          stoppedClosed, \* stoppedChan is closed
          panicked,    \* stoppedChan was closed twice
          interval,    \* peerInterval
          searches,    \* the peers still in each channel that FindPeers returned
          finders,     \* goroutines of findPeers: [id, pc, on, peer]
          neighbors,   \* Neighbors
          peerstore,   \* of the host: the peers with an address
          connections, \* peers that this node is connected to
          starts, stops, failed   \* history: starts, stops, and that FindPeers failed

finderVars == <<registered, manager, actions, tries, reached, loop, started, stoppedClosed, panicked,
                interval, searches, finders, neighbors, peerstore, connections, starts, stops, failed>>
Service == <<tries, reached, loop, started, stoppedClosed, panicked, starts, stops>>
Search == <<interval, searches, finders, failed>>
Peers == <<neighbors, peerstore, connections>>

FinderInit ==
  /\ registered = FALSE /\ manager = "idle" /\ actions = 0
  /\ tries = [b \in BootNodes |-> 0] /\ reached = {} /\ loop = "none" /\ started = FALSE
  /\ stoppedClosed = FALSE /\ panicked = FALSE /\ interval = minFindPeerInterval
  /\ searches = <<>> /\ finders = {} /\ neighbors = {} /\ peerstore = {} /\ connections = {}
  /\ starts = 0 /\ stops = 0 /\ failed = FALSE

------------------------------------------------------------------------------
(* The manager. *)

\* Register keeps the first service of a type.
Register ==
  /\ ~registered /\ registered' = TRUE
  /\ UNCHANGED <<manager, actions, Service, Search, Peers>>

\* TakeAction does nothing for a type that is not registered.
CanTake == ~panicked /\ registered /\ manager = "idle" /\ actions < MaxActions

\* TakeAction(Start): StartService begins with Init, which connects to the bootnodes.
TakeStart ==
  /\ CanTake /\ manager' = "init" /\ actions' = actions + 1 /\ starts' = starts + 1
  /\ tries' = [b \in BootNodes |-> ConnectionRetry] /\ reached' = {}
  /\ UNCHANGED <<registered, loop, started, stoppedClosed, panicked, stops, Search, Peers>>

\* Mutant: a service that was not started is stopped like any other.
Stoppable_Any == TRUE

\* StopService returns at once when the service has not started.
Stoppable == started

TakeStop ==
  /\ CanTake /\ actions' = actions + 1 /\ stops' = stops + (IF started THEN 1 ELSE 0)
  /\ manager' = IF Stoppable THEN "stop" ELSE "idle"
  /\ UNCHANGED <<registered, tries, reached, loop, started, stoppedClosed, panicked, starts, Search, Peers>>

------------------------------------------------------------------------------
(* Init and Run. *)

\* One goroutine per bootnode: an attempt succeeds, or fails and is repeated.
ConnectBoot(b) ==
  /\ manager = "init" /\ tries[b] > 0
  /\ \/ tries' = [tries EXCEPT ![b] = 0] /\ reached' = reached \cup {b}
     \/ tries' = [tries EXCEPT ![b] = @ - 1] /\ UNCHANGED reached
  /\ UNCHANGED <<registered, manager, actions, loop, started, stoppedClosed, panicked, starts, stops, Search, Peers>>

\* Mutant: nobody looks whether a bootnode was reached.
Connected_Any == TRUE

\* It is okay if any bootnode is connected.
Connected == reached # {}

\* wg.Wait
InitDone == manager = "init" /\ \A b \in BootNodes : tries[b] = 0

\* Without a connection StartService gives up, and also when the DHT does not bootstrap.
InitFails ==
  /\ \/ InitDone /\ ~Connected
     \/ manager = "init" /\ \A b \in BootNodes : tries[b] = ConnectionRetry
  /\ manager' = "idle"
  /\ UNCHANGED <<registered, actions, Service, Search, Peers>>

\* Run starts DoService and closes stoppedChan, which panics the second time.
Run ==
  /\ InitDone /\ Connected
  /\ manager' = "idle" /\ loop' = "running" /\ started' = TRUE
  /\ stoppedClosed' = TRUE /\ panicked' = stoppedClosed
  /\ interval' = minFindPeerInterval
  /\ UNCHANGED <<registered, actions, tries, reached, starts, stops, searches, finders, failed, Peers>>

\* The loop receives from stopChan; StopService goes on to stoppedChan, which is closed.
StopLoop ==
  /\ manager = "stop" /\ loop = "running" /\ stoppedClosed
  /\ manager' = "idle" /\ loop' = "ended"
  /\ UNCHANGED <<registered, actions, tries, reached, started, stoppedClosed, panicked, starts, stops, Search, Peers>>

------------------------------------------------------------------------------
(* DoService and findPeers. *)

\* Mutant: the interval is doubled without end.
Doubled_Always(i) == i * 2

\* The interval doubles until it is not below the maximum.
Doubled(i) == IF i < maxFindPeerInterval THEN i * 2 ELSE i

\* A tick: FindPeers, a longer interval, and a goroutine for the answer.
FindPeers ==
  /\ ~panicked /\ loop = "running" /\ Len(searches) < MaxFinds
  /\ \E found \in Found : searches' = Append(searches, found)
  /\ interval' = Doubled(interval)
  /\ finders' = finders \cup {[id |-> Len(searches) + 1, pc |-> "begin", on |-> 0, peer |-> None]}
  /\ UNCHANGED <<registered, manager, actions, Service, failed, Peers>>

\* FindPeers fails: DoService returns, and nobody receives from stopChan any more.
FindFails ==
  /\ ~panicked /\ loop = "running" /\ Len(searches) < MaxFinds
  /\ loop' = "ended" /\ failed' = TRUE
  /\ UNCHANGED <<registered, manager, actions, tries, reached, started, stoppedClosed, panicked, starts, stops,
                 interval, searches, finders, Peers>>

Turns(f, pc, on, peer) ==
  finders' = (finders \ {f}) \cup {[f EXCEPT !.pc = pc, !.on = on, !.peer = peer]}

\* range s.peerInfo: the channel of the latest search when the goroutine gets to run.
BeginRange(f) ==
  /\ f.pc = "begin" /\ Turns(f, "range", Len(searches), None)
  /\ UNCHANGED <<registered, manager, actions, Service, interval, searches, failed, Peers>>

\* Mutant: a peer that cannot be connected to is told all the same.
Connects_OrNot(p) == {TRUE}

\* Connect succeeds or fails; once DoService has ended its context is cancelled and it fails.
Connects(p) == IF loop = "running" THEN {TRUE, FALSE} ELSE {FALSE}

Foreign(p) == p # Self

\* The next peer of the channel.  A failed connection ends the loop and leaves the rest unread.
NextPeer(f) ==
  /\ f.pc = "range" /\ searches[f.on] # <<>>
  /\ LET p == Head(searches[f.on]) IN
     /\ searches' = [searches EXCEPT ![f.on] = Tail(@)]
     /\ \/ ~Foreign(p) /\ UNCHANGED <<finders, connections>>
        \/ /\ Foreign(p) /\ TRUE \in Connects(p) /\ Turns(f, "tell", f.on, p)
           /\ connections' = IF loop = "running" THEN connections \cup {p} ELSE connections
        \/ /\ Foreign(p) /\ FALSE \in Connects(p)
           /\ finders' = finders \ {f} /\ UNCHANGED connections
  /\ UNCHANGED <<registered, manager, actions, Service, interval, failed, neighbors, peerstore>>

RangeEnds(f) ==
  /\ f.pc = "range" /\ searches[f.on] = <<>> /\ finders' = finders \ {f}
  /\ UNCHANGED <<registered, manager, actions, Service, interval, searches, failed, Peers>>

\* AddPeer fails for a peer with no address, whose IP is empty too.
AddPeer(p) == {p} \ Addressless

\* peerChan <- p, with the receiver's AddPeers: a new neighbour is given to the host.
TellPeer(f) ==
  /\ f.pc = "tell" /\ Turns(f, "range", f.on, None)
  /\ neighbors' = neighbors \cup {f.peer}
  /\ peerstore' = IF f.peer \in neighbors THEN peerstore ELSE peerstore \cup AddPeer(f.peer)
  /\ UNCHANGED <<registered, manager, actions, Service, interval, searches, failed, connections>>

------------------------------------------------------------------------------

ServiceStep == \/ \E b \in BootNodes : ConnectBoot(b)
               \/ InitFails \/ Run \/ StopLoop

FinderStep == \E f \in finders : BeginRange(f) \/ NextPeer(f) \/ RangeEnds(f) \/ TellPeer(f)

FinderNext == \/ Register \/ TakeStart \/ TakeStop
              \/ ServiceStep
              \/ FindPeers \/ FindFails
              \/ FinderStep

\* The goroutines of the manager and of the service go on; the network need not answer.
FinderSpec == FinderInit /\ [][FinderNext]_finderVars /\ WF_finderVars(ServiceStep)

------------------------------------------------------------------------------
(* Properties. *)

\* The shape of the state, and the interval between two searches: it stays below twice the
\* maximum.  (It does pass the maximum: from 1280 it goes to 2560 seconds.)
FinderTypeOK ==
  /\ manager \in {"idle", "init", "stop"} /\ loop \in {"none", "running", "ended"}
  /\ interval \in minFindPeerInterval..(2 * maxFindPeerInterval - 1)
  /\ \A f \in finders : f.pc \in {"begin", "range", "tell"} /\ f.on \in 0..Len(searches)

\* A neighbour is a peer that this node was connected to, and never the node itself; the host
\* can call it unless it was found without an address.
NeighborsConnected ==
  neighbors \subseteq connections \ {Self} /\ peerstore = neighbors \ Addressless

\* A service that runs has reached a bootnode, and not yet been stopped.
RunsConnected == loop = "running" /\ starts = 1 => reached # {} /\ stops <= (IF manager = "stop" THEN 1 ELSE 0)

\* An action of the manager ends, so that the next can be taken: Init when the attempts are used
\* up, a stop when DoService still listens.  (After a failure of FindPeers, or for a second stop,
\* the manager waits for ever.)
ActionsEnd == manager # "idle" ~> manager = "idle" \/ failed \/ stops > 1

\* The service and its neighbours are connected.
PeersConsistent == FinderTypeOK /\ NeighborsConnected /\ RunsConnected
=============================================================================
