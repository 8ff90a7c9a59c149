-------------------------------- MODULE Broker --------------------------------
(***************************************************************************)
(* The MQTT broker: the listener task, one handler task per client, and    *)
(* the slots of s_clients that they share under xBrokerMutex.              *)
(*                                                                         *)
(* The listener accepts a connection, gives it a slot and starts its       *)
(* handler; the handler reads packets until the client leaves, falls       *)
(* silent or says DISCONNECT, and gives the slot back.  Descriptors of     *)
(* sockets are used again once they are closed.                            *)
(*                                                                         *)
(* A section of xBrokerMutex is one step: nothing in it waits, and nobody  *)
(* looks at the slots without the mutex.                                   *)
(***************************************************************************)
EXTENDS Integers, FiniteSets

CONSTANTS
  Conns,     (* the connections that are made to the port                    *)
  Slots,     (* the indices of s_clients                                     *)
  Fds,       (* the descriptors of sockets                                   *)
  Packets    (* how many packets a client sends before it falls silent       *)

None == "none"

ASSUME BrokerAssumption ==
  /\ Slots \subseteq Nat /\ Slots # {} /\ IsFiniteSet(Slots)
  /\ Fds \subseteq Nat /\ Fds # {}
  /\ None \notin Conns /\ Packets \in Nat

Subscribe == 130

(* The first bytes of CONNECT, PUBLISH, SUBSCRIBE, PINGREQ and DISCONNECT. *)
Headers == {16, 48, Subscribe, 192, 224}

VARIABLES
  wire,      (* the connection a descriptor stands for, None when closed     *)
  slots,     (* s_clients: [active, sock, subs], subs when it has any        *)
  count,     (* s_client_count                                               *)
  listener,  (* mqtt_broker_task: [at, sock, idx]                            *)
  handler,   (* mqtt_client_handler_task, by connection: [at, sock, idx]     *)
  left,      (* how many packets each connection has yet to send             *)
  asked,     (* history: the connections that have sent SUBSCRIBE            *)
  unheard    (* history: those a message did not reach in spite of it        *)

vars == <<wire, slots, count, listener, handler, left, asked, unheard>>

Least(S) == CHOOSE x \in S : \A y \in S : x <= y
Idle == {i \in Slots : ~slots[i].active}
Closed == {fd \in Fds : wire[fd] = None}

Listening == [at |-> "accept", sock |-> Least(Fds), idx |-> Least(Slots)]

-----------------------------------------------------------------------------
(* The listener                                                            *)

Accept(c) ==
  /\ listener.at = "accept" /\ handler[c].at = "new" /\ Closed # {}
  /\ wire' = [wire EXCEPT ![Least(Closed)] = c]
  /\ listener' = [listener EXCEPT !.at = "register", !.sock = Least(Closed)]
  /\ handler' = [handler EXCEPT ![c].at = "accepted"]
  /\ UNCHANGED <<slots, count, left, asked, unheard>>

(* Mutant: the first slot is taken whether it is in use or not.            *)
RegisterFirst ==
  /\ listener.at = "register"
  /\ slots' = [slots EXCEPT ![Least(Slots)] =
                 [active |-> TRUE, sock |-> listener.sock, subs |-> FALSE]]
  /\ count' = count + 1
  /\ listener' = [listener EXCEPT !.at = "spawn", !.idx = Least(Slots)]
  /\ UNCHANGED <<wire, handler, left, asked, unheard>>

Register ==
  /\ listener.at = "register" /\ Idle # {}
  /\ slots' = [slots EXCEPT ![Least(Idle)] =
                 [active |-> TRUE, sock |-> listener.sock, subs |-> FALSE]]
  /\ count' = count + 1
  /\ listener' = [listener EXCEPT !.at = "spawn", !.idx = Least(Idle)]
  /\ UNCHANGED <<wire, handler, left, asked, unheard>>

(* Both slots are in use: the connection is closed.                        *)
Reject ==
  /\ listener.at = "register" /\ Idle = {}
  /\ wire' = [wire EXCEPT ![listener.sock] = None]
  /\ handler' = [handler EXCEPT ![wire[listener.sock]].at = "gone"]
  /\ listener' = Listening
  /\ UNCHANGED <<slots, count, left, asked, unheard>>

(* Mutant: the listener closes the socket that it has handed over.         *)
SpawnCloses ==
  /\ listener.at = "spawn"
  /\ handler' = [handler EXCEPT ![wire[listener.sock]] =
                   [at |-> "recv", sock |-> listener.sock, idx |-> listener.idx]]
  /\ wire' = [wire EXCEPT ![listener.sock] = None]
  /\ listener' = Listening
  /\ UNCHANGED <<slots, count, left, asked, unheard>>

Spawn ==
  /\ listener.at = "spawn"
  /\ handler' = [handler EXCEPT ![wire[listener.sock]] =
                   [at |-> "recv", sock |-> listener.sock, idx |-> listener.idx]]
  /\ listener' = Listening
  /\ UNCHANGED <<wire, slots, count, left, asked, unheard>>

(* broker_free_client                                                      *)
FreeClient(i) ==
  IF slots[i].active
  THEN /\ wire' = [wire EXCEPT ![slots[i].sock] = None]
       /\ slots' = [slots EXCEPT ![i].active = FALSE, ![i].subs = FALSE]
       /\ count' = IF count > 0 THEN count - 1 ELSE count
  ELSE UNCHANGED <<wire, slots, count>>

(* Mutant: the socket is closed and its slot not given back.               *)
SpawnFailsBare ==
  /\ listener.at = "spawn"
  /\ wire' = [wire EXCEPT ![listener.sock] = None]
  /\ handler' = [handler EXCEPT ![wire[listener.sock]].at = "gone"]
  /\ listener' = Listening
  /\ UNCHANGED <<slots, count, left, asked, unheard>>

(* There is no memory for the arguments of the handler or for its task.    *)
SpawnFails ==
  /\ listener.at = "spawn"
  /\ FreeClient(listener.idx)
  /\ handler' = [handler EXCEPT ![wire[listener.sock]].at = "gone"]
  /\ listener' = Listening
  /\ UNCHANGED <<left, asked, unheard>>

-----------------------------------------------------------------------------
(* broker_publish and the handlers                                         *)

(* The connections whose slot has a subscription, to which a message goes. *)
Served == {wire[slots[i].sock] : i \in {j \in Slots : slots[j].active /\ slots[j].subs}}

Deliver == unheard' = unheard \cup (asked \ Served)

(* The other tasks publish what they measure.                              *)
Publish ==
  /\ Deliver
  /\ UNCHANGED <<wire, slots, count, listener, handler, left, asked>>

(* The handler compares the upper half of a packet's first byte with the   *)
(* types; that of SUBSCRIBE is written with its lower half.                *)
Branch(header) ==
  LET type == header - (header % 16)
  IN CASE type = 16        -> "connect"
       [] type = Subscribe -> "subscribe"
       [] type = 192       -> "ping"
       [] type = 224       -> "disconnect"
       [] type = 48        -> "publish"
       [] OTHER            -> "skip"

(* A packet is read to its end and acted on.                               *)
Receive(c, header) ==
  /\ handler[c].at = "recv" /\ left[c] > 0
  /\ left' = [left EXCEPT ![c] = @ - 1]
  /\ handler' = IF Branch(header) = "disconnect"
                THEN [handler EXCEPT ![c].at = "free"] ELSE handler
  /\ slots' = IF Branch(header) = "subscribe"
              THEN [slots EXCEPT ![handler[c].idx].subs = TRUE] ELSE slots
  /\ asked' = IF header = Subscribe THEN asked \cup {c} ELSE asked
  /\ IF Branch(header) = "publish" THEN Deliver ELSE UNCHANGED unheard
  /\ UNCHANGED <<wire, count, listener>>

(* Mutant: without SO_RCVTIMEO the handler of a silent client waits.       *)
RecvWaits(c) ==
  /\ handler[c].at = "recv" /\ left[c] > 0
  /\ handler' = [handler EXCEPT ![c].at = "free"]
  /\ UNCHANGED <<wire, slots, count, listener, left, asked, unheard>>

(* The client closes the connection, sends half a packet or, for the time  *)
(* of SO_RCVTIMEO, nothing.                                                *)
RecvFails(c) ==
  /\ handler[c].at = "recv"
  /\ handler' = [handler EXCEPT ![c].at = "free"]
  /\ UNCHANGED <<wire, slots, count, listener, left, asked, unheard>>

(* Mutant: the socket is not closed.                                       *)
LeaveOpen(c) ==
  /\ handler[c].at = "free"
  /\ slots' = [slots EXCEPT ![handler[c].idx].active = FALSE,
                            ![handler[c].idx].subs = FALSE]
  /\ count' = count - 1
  /\ handler' = [handler EXCEPT ![c].at = "gone"]
  /\ asked' = asked \ {c}
  /\ UNCHANGED <<wire, listener, left, unheard>>

(* Mutant: the count of the clients is not taken down.                     *)
LeaveCounted(c) ==
  /\ handler[c].at = "free"
  /\ wire' = [wire EXCEPT ![handler[c].sock] = None]
  /\ slots' = [slots EXCEPT ![handler[c].idx].active = FALSE,
                            ![handler[c].idx].subs = FALSE]
  /\ handler' = [handler EXCEPT ![c].at = "gone"]
  /\ asked' = asked \ {c}
  /\ UNCHANGED <<count, listener, left, unheard>>

(* The handler ends.                                                       *)
Leave(c) ==
  /\ handler[c].at = "free"
  /\ FreeClient(handler[c].idx)
  /\ handler' = [handler EXCEPT ![c].at = "gone"]
  /\ asked' = asked \ {c}
  /\ UNCHANGED <<listener, left, unheard>>

-----------------------------------------------------------------------------
Init ==
  /\ wire = [fd \in Fds |-> None]
  /\ slots = [i \in Slots |-> [active |-> FALSE, sock |-> Least(Fds), subs |-> FALSE]]
  /\ count = 0
  /\ listener = Listening
  /\ handler = [c \in Conns |-> [at |-> "new", sock |-> Least(Fds), idx |-> Least(Slots)]]
  /\ left = [c \in Conns |-> Packets]
  /\ asked = {} /\ unheard = {}

Next ==
  \/ \E c \in Conns : Accept(c)
  \/ Register \/ Reject \/ Spawn \/ SpawnFails
  \/ Publish
  \/ \E c \in Conns, header \in Headers : Receive(c, header)
  \/ \E c \in Conns : RecvFails(c) \/ Leave(c)

Spec == Init /\ [][Next]_vars

(* A task that can run runs, and a recv of a silent client times out.      *)
Fairness ==
  /\ WF_vars(Register \/ Reject \/ Spawn \/ SpawnFails)
  /\ \A c \in Conns : WF_vars(RecvFails(c)) /\ WF_vars(Leave(c))

FairSpec == Spec /\ Fairness

-----------------------------------------------------------------------------
(* Properties                                                              *)

Active == {i \in Slots : slots[i].active}
Live(c) == handler[c].at \in {"recv", "free"}

(* Type invariant.                                                         *)
TypeOK ==
  /\ wire \in [Fds -> Conns \cup {None}]
  /\ slots \in [Slots -> [active : BOOLEAN, sock : Fds, subs : BOOLEAN]]
  /\ count \in 0..Cardinality(Slots)
  /\ listener \in [at : {"accept", "register", "spawn"}, sock : Fds, idx : Slots]
  /\ handler \in [Conns -> [at : {"new", "accepted", "recv", "free", "gone"},
                            sock : Fds, idx : Slots]]
  /\ left \in [Conns -> 0..Packets]
  /\ asked \subseteq Conns /\ unheard \subseteq Conns

(* A slot in use belongs to one task, to the listener until the handler    *)
(* has been started and to one handler from then on, whatever fails in     *)
(* between: no slot is shared, and none is in use with nobody to free it.  *)
OneOwner ==
  /\ \A i \in Active :
       (listener.at = "spawn" /\ listener.idx = i) #
         (\E c \in Conns : Live(c) /\ handler[c].idx = i)
  /\ \A c, d \in Conns :
       Live(c) /\ Live(d) /\ handler[c].idx = handler[d].idx => c = d

(* A descriptor that is open is that of a slot in use, or the one the      *)
(* listener has just accepted: none leaks, and no two slots share one.     *)
SocketsAreOwned ==
  /\ \A fd \in Fds : wire[fd] # None =>
       \/ listener.at = "register" /\ listener.sock = fd
       \/ \E i \in Active : slots[i].sock = fd
  /\ \A i, j \in Active : slots[i].sock = slots[j].sock => i = j

(* Although descriptors are used again, a handler that reads and writes    *)
(* its socket without the mutex always talks to its own client.            *)
StreamsAreApart ==
  \A c \in Conns : Live(c) => /\ wire[handler[c].sock] = c
                              /\ slots[handler[c].idx].active
                              /\ slots[handler[c].idx].sock = handler[c].sock

(* s_client_count is the number of slots in use.                           *)
CountIsExact == count = Cardinality(Active)

(* FIX-09: with SO_RCVTIMEO no client keeps its slot by falling silent.    *)
SlotComesBack == \A c \in Conns : Live(c) ~> ~Live(c)

(* ISMS_MQTT_v8_0_RTOS_PERF.c:41: "CommTask publishes "online" every 2 s   *)
(* - keeps Flutter heartbeat alive".  What is published reaches those who  *)
(* have subscribed.                                                        *)
SubscribersHear == unheard = {}

=============================================================================
