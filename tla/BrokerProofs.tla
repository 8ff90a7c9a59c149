---------------------------- MODULE BrokerProofs ----------------------------
(***************************************************************************)
(* The broker for any number of connections, slots and descriptors: who    *)
(* owns a slot and a socket, and that their count is right.                *)
(***************************************************************************)
EXTENDS Broker, FiniteSetTheorems, WellFoundedInduction, TLAPS

(* The first of a set of indices or descriptors is one of them.            *)
LEMMA LeastType == \A S \in SUBSET Nat : S # {} => Least(S) \in S
<1> SUFFICES ASSUME NEW S \in SUBSET Nat, S # {} PROVE Least(S) \in S
  OBVIOUS
<1> DEFINE below == {p \in Nat \X Nat : p[1] < p[2]}
<1>1. PICK x \in S : \A y \in S : ~ (<<y, x>> \in below)
  <2>1. IsWellFoundedOn(below, Nat)
    BY NatLessThanWellFounded DEF OpToRel
  <2> HIDE DEF below
  <2> QED
    BY <2>1, WFMin
<1>2. \A y \in S : x <= y
  <2> SUFFICES ASSUME NEW y \in S PROVE x <= y
    OBVIOUS
  <2>1. <<y, x>> \notin below
    BY <1>1
  <2> QED
    BY <2>1
<1> QED
  BY <1>2 DEF Least

LEMMA LeastSlot == Least(Slots) \in Slots /\ (Idle # {} => Least(Idle) \in Idle)
<1>1. Idle \subseteq Slots
  BY DEF Idle
<1> QED
  BY <1>1, LeastType, BrokerAssumption

LEMMA LeastFd == Least(Fds) \in Fds /\ (Closed # {} => Least(Closed) \in Closed)
<1>1. Closed \subseteq Fds
  BY DEF Closed
<1> QED
  BY <1>1, LeastType, BrokerAssumption

-----------------------------------------------------------------------------
(* Types, but for that of the count, which takes the count to be right.    *)

Table ==
  /\ wire \in [Fds -> Conns \cup {None}]
  /\ slots \in [Slots -> [active : BOOLEAN, sock : Fds, subs : BOOLEAN]]
  /\ listener \in [at : {"accept", "register", "spawn"}, sock : Fds, idx : Slots]
  /\ handler \in [Conns -> [at : {"new", "accepted", "recv", "free", "gone"},
                            sock : Fds, idx : Slots]]

Notes ==
  /\ left \in [Conns -> 0..Packets]
  /\ asked \subseteq Conns /\ unheard \subseteq Conns

(* What the listener has in hand: a connection with no handler yet, whose  *)
(* descriptor no slot has before Register and one slot has after it.       *)
InHand ==
  /\ wire[listener.sock] \in Conns
  /\ handler[wire[listener.sock]].at = "accepted"
Held ==
  /\ listener.at = "register" =>
       InHand /\ \A i \in Active : slots[i].sock # listener.sock
  /\ listener.at = "spawn" =>
       /\ InHand
       /\ listener.idx \in Active /\ slots[listener.idx].sock = listener.sock

(* OneOwner, taken apart.                                                  *)
Owners ==
  /\ \A i \in Active : \/ listener.at = "spawn" /\ listener.idx = i
                       \/ \E c \in Conns : Live(c) /\ handler[c].idx = i
  /\ listener.at = "spawn" => \A c \in Conns : Live(c) => handler[c].idx # listener.idx
  /\ \A c, d \in Conns : Live(c) /\ Live(d) /\ handler[c].idx = handler[d].idx => c = d

LEMMA TableStep == Table /\ Held /\ [Next]_vars => Table'
<1> SUFFICES ASSUME Table, Held, [Next]_vars PROVE Table'
  OBVIOUS
<1> USE DEF Table
<1>1. ASSUME NEW c \in Conns, Accept(c) PROVE Table'
  BY <1>1, LeastFd DEF Accept, Closed
<1>2. CASE Register
  BY <1>2, LeastSlot DEF Register, Idle
<1>3. CASE Reject
  BY <1>3, LeastFd, LeastSlot DEF Reject, Held, InHand, Listening
<1>4. CASE Spawn
  BY <1>4, LeastFd, LeastSlot DEF Spawn, Held, InHand, Listening
<1>11. ASSUME NEW i \in Slots, FreeClient(i)
       PROVE /\ wire' \in [Fds -> Conns \cup {None}]
             /\ slots' \in [Slots -> [active : BOOLEAN, sock : Fds, subs : BOOLEAN]]
  <2>1. CASE slots[i].active
    <3>1. wire' = [wire EXCEPT ![slots[i].sock] = None]
      BY <1>11, <2>1 DEF FreeClient
    <3>2. slots' = [slots EXCEPT ![i].active = FALSE, ![i].subs = FALSE]
      BY <1>11, <2>1 DEF FreeClient
    <3> QED
      BY <3>1, <3>2
  <2>2. CASE ~slots[i].active
    BY <1>11, <2>2 DEF FreeClient
  <2> QED
    BY <2>1, <2>2
<1>5. CASE SpawnFails
  <2>1. wire' \in [Fds -> Conns \cup {None}]
        /\ slots' \in [Slots -> [active : BOOLEAN, sock : Fds, subs : BOOLEAN]]
    BY <1>5, <1>11 DEF SpawnFails
  <2> QED
    BY <1>5, <2>1, LeastFd, LeastSlot DEF SpawnFails, Held, InHand, Listening
<1>6. CASE Publish
  BY <1>6 DEF Publish
<1>7. ASSUME NEW c \in Conns, NEW header \in Headers, Receive(c, header) PROVE Table'
  BY <1>7 DEF Receive
<1>8. ASSUME NEW c \in Conns, RecvFails(c) PROVE Table'
  BY <1>8 DEF RecvFails
<1>9. ASSUME NEW c \in Conns, Leave(c) PROVE Table'
  <2>1. wire' \in [Fds -> Conns \cup {None}]
        /\ slots' \in [Slots -> [active : BOOLEAN, sock : Fds, subs : BOOLEAN]]
    BY <1>9, <1>11 DEF Leave
  <2> QED
    BY <1>9, <2>1 DEF Leave
<1>10. CASE UNCHANGED vars
  BY <1>10 DEF vars
<1> QED
  BY <1>1, <1>2, <1>3, <1>4, <1>5, <1>6, <1>7, <1>8, <1>9, <1>10 DEF Next

-----------------------------------------------------------------------------
(* What the actions do to one slot, one descriptor, one connection.        *)

(* Freeing a slot in use closes its socket and nothing else.               *)
LEMMA FreeEffect ==
  ASSUME Table, NEW i \in Active, FreeClient(i)
  PROVE  /\ \A fd \in Fds : wire'[fd] = IF fd = slots[i].sock THEN None ELSE wire[fd]
         /\ Active' = Active \ {i}
         /\ \A j \in Slots : slots'[j].sock = slots[j].sock
         /\ count' = IF count > 0 THEN count - 1 ELSE count
<1> USE DEF Table
<1>1. i \in Slots /\ slots[i].active /\ slots[i].sock \in Fds
  BY DEF Active
<1>2. /\ wire' = [wire EXCEPT ![slots[i].sock] = None]
      /\ slots' = [slots EXCEPT ![i].active = FALSE, ![i].subs = FALSE]
      /\ count' = IF count > 0 THEN count - 1 ELSE count
  BY <1>1 DEF FreeClient
<1>3. \A j \in Slots : /\ slots'[j].sock = slots[j].sock
                       /\ slots'[j].active = IF j = i THEN FALSE ELSE slots[j].active
  BY <1>1, <1>2
<1>4. Active' = Active \ {i}
  BY <1>1, <1>3 DEF Active
<1> QED
  BY <1>1, <1>2, <1>3, <1>4

(* The socket of a slot in use is open.                                    *)
LEMMA ActiveOpen ==
  ASSUME Table, Held, Owners, StreamsAreApart
  PROVE  \A i \in Active : i \in Slots /\ slots[i].sock \in Fds /\ wire[slots[i].sock] \in Conns
<1> SUFFICES ASSUME NEW i \in Active
             PROVE i \in Slots /\ slots[i].sock \in Fds /\ wire[slots[i].sock] \in Conns
  OBVIOUS
<1>1. i \in Slots /\ slots[i].sock \in Fds
  BY DEF Active, Table
<1>2. CASE listener.at = "spawn" /\ listener.idx = i
  BY <1>1, <1>2 DEF Held, InHand
<1>3. ASSUME NEW c \in Conns, Live(c), handler[c].idx = i PROVE wire[slots[i].sock] \in Conns
  BY <1>3 DEF StreamsAreApart
<1> QED
  BY <1>1, <1>2, <1>3 DEF Owners

(* An action that leaves the slots in use, the sockets, the listener and   *)
(* the live handlers as they are.                                          *)
LEMMA Quiet ==
  ASSUME Table, Held, Owners, SocketsAreOwned, StreamsAreApart,
         wire' = wire, listener' = listener, Active' = Active,
         \A i \in Slots : slots'[i].sock = slots[i].sock,
         \A c \in Conns : /\ Live(c)' <=> Live(c)
                          /\ handler'[c].idx = handler[c].idx
                          /\ handler'[c].sock = handler[c].sock
                          /\ handler[c].at = "accepted" => handler'[c].at = "accepted"
  PROVE  Held' /\ Owners' /\ SocketsAreOwned' /\ StreamsAreApart'
<1>1. \A i \in Active : i \in Slots
  BY DEF Active
<1>2. Held'
  BY <1>1 DEF Held, InHand
<1>3. Owners'
  BY DEF Owners
<1>4. SocketsAreOwned'
  BY <1>1 DEF SocketsAreOwned
<1>5. \A c \in Conns : Live(c) => handler[c].idx \in Active
  BY DEF StreamsAreApart, Active, Table
<1>6. \A c \in Conns : Live(c)' => /\ wire'[handler'[c].sock] = c
                                   /\ handler'[c].idx \in Active'
                                   /\ slots'[handler'[c].idx].sock = handler'[c].sock
  BY <1>1, <1>5 DEF StreamsAreApart
<1>7. StreamsAreApart'
  BY <1>6 DEF StreamsAreApart, Active
<1> QED
  BY <1>2, <1>3, <1>4, <1>7

-----------------------------------------------------------------------------
(* Every action keeps what is said of owners, sockets and streams.         *)
Sound == Held /\ Owners /\ SocketsAreOwned /\ StreamsAreApart

LEMMA AcceptSound ==
  ASSUME Table, Sound, NEW c \in Conns, Accept(c)
  PROVE  Sound'
<1> DEFINE fd == Least(Closed)
<1>1. fd \in Fds /\ wire[fd] = None /\ listener.at = "accept" /\ handler[c].at = "new"
  BY LeastFd DEF Accept, Closed
<1>2. /\ \A g \in Fds : wire'[g] = IF g = fd THEN c ELSE wire[g]
      /\ wire'[fd] = c /\ slots' = slots
  BY <1>1 DEF Accept, Table
<1>3. listener'.at = "register" /\ listener'.sock = fd
  BY DEF Accept, Table
<1>4. \A d \in Conns : /\ handler'[d].idx = handler[d].idx
                       /\ handler'[d].sock = handler[d].sock
                       /\ handler'[d].at = IF d = c THEN "accepted" ELSE handler[d].at
  BY DEF Accept, Table
<1> HIDE DEF fd
<1>5. \A d \in Conns : Live(d)' <=> Live(d)
  BY <1>1, <1>4 DEF Live
<1>6. Active' = Active
  BY <1>2 DEF Active
<1>7. \A i \in Active : slots[i].sock # fd
  BY <1>1, ActiveOpen, BrokerAssumption DEF Sound
<1>8. Held'
  BY <1>2, <1>3, <1>4, <1>6, <1>7 DEF Held, InHand
<1>9. Owners'
  BY <1>1, <1>3, <1>4, <1>5, <1>6 DEF Sound, Owners
<1>10. SocketsAreOwned'
  BY <1>1, <1>2, <1>3, <1>6 DEF Sound, SocketsAreOwned
<1>11. StreamsAreApart'
  <2> SUFFICES ASSUME NEW d \in Conns, Live(d)
               PROVE  /\ wire'[handler[d].sock] = d
                      /\ slots[handler[d].idx].active
                      /\ slots[handler[d].idx].sock = handler[d].sock
    BY <1>2, <1>4, <1>5 DEF StreamsAreApart
  <2>1. /\ wire[handler[d].sock] = d /\ handler[d].sock \in Fds
        /\ slots[handler[d].idx].active
        /\ slots[handler[d].idx].sock = handler[d].sock
    BY DEF Sound, StreamsAreApart, Table
  <2>2. handler[d].sock # fd
    BY <1>1, <2>1, BrokerAssumption
  <2> QED
    BY <1>2, <2>1, <2>2
<1> QED
  BY <1>8, <1>9, <1>10, <1>11 DEF Sound

LEMMA RegisterSound ==
  ASSUME Table, Sound, Register
  PROVE  Sound'
<1> DEFINE n == Least(Idle)
<1>1. /\ n \in Slots /\ ~slots[n].active /\ n \notin Active
      /\ listener.at = "register" /\ listener.sock \in Fds
  BY LeastSlot DEF Register, Idle, Active, Table
<1>2. /\ \A i \in Slots : slots'[i].active <=> slots[i].active \/ i = n
      /\ \A i \in Slots : slots'[i].sock = IF i = n THEN listener.sock ELSE slots[i].sock
      /\ wire' = wire /\ handler' = handler
  BY <1>1 DEF Register, Table
<1>3. listener'.at = "spawn" /\ listener'.sock = listener.sock /\ listener'.idx = n
  BY DEF Register, Table
<1> HIDE DEF n
<1>4. Active' = Active \cup {n}
  BY <1>1, <1>2 DEF Active
<1>5. \A c \in Conns : Live(c)' <=> Live(c)
  BY <1>2 DEF Live
<1>6. \A c \in Conns : Live(c) => handler[c].idx \in Active
  BY DEF Sound, StreamsAreApart, Active, Table
<1>7. \A i \in Active : i \in Slots /\ i # n
  BY <1>1 DEF Active
<1>8. Held'
  BY <1>1, <1>2, <1>3, <1>4 DEF Sound, Held, InHand
<1>9. Owners'
  BY <1>1, <1>2, <1>3, <1>4, <1>5, <1>6 DEF Sound, Owners
<1>10. SocketsAreOwned'
  BY <1>1, <1>2, <1>3, <1>4, <1>7 DEF Sound, SocketsAreOwned, Held
<1>11. StreamsAreApart'
  BY <1>1, <1>2, <1>5, <1>6, <1>7 DEF Sound, StreamsAreApart, Table
<1> QED
  BY <1>8, <1>9, <1>10, <1>11 DEF Sound

LEMMA RejectSound ==
  ASSUME Table, Sound, Reject
  PROVE  Sound'
<1> DEFINE e == wire[listener.sock]
<1>1. /\ listener.at = "register" /\ listener.sock \in Fds
      /\ e \in Conns /\ handler[e].at = "accepted"
      /\ \A i \in Active : slots[i].sock # listener.sock
  BY DEF Reject, Sound, Held, InHand, Table
<1>2. /\ \A g \in Fds : wire'[g] = IF g = listener.sock THEN None ELSE wire[g]
      /\ slots' = slots /\ listener'.at = "accept"
  BY <1>1 DEF Reject, Table, Listening
<1>3. \A d \in Conns : /\ handler'[d].idx = handler[d].idx
                       /\ handler'[d].sock = handler[d].sock
                       /\ handler'[d].at = IF d = e THEN "gone" ELSE handler[d].at
  BY DEF Reject, Table
<1> HIDE DEF e
<1>4. \A d \in Conns : Live(d)' <=> Live(d)
  BY <1>1, <1>3 DEF Live
<1>5. Active' = Active
  BY <1>2 DEF Active
<1>6. Held'
  BY <1>2 DEF Held
<1>7. Owners'
  BY <1>1, <1>2, <1>3, <1>4, <1>5 DEF Sound, Owners
<1>8. SocketsAreOwned'
  BY <1>2, <1>5 DEF Sound, SocketsAreOwned
<1>9. StreamsAreApart'
  <2> SUFFICES ASSUME NEW d \in Conns, Live(d)
               PROVE  /\ wire'[handler[d].sock] = d
                      /\ slots[handler[d].idx].active
                      /\ slots[handler[d].idx].sock = handler[d].sock
    BY <1>2, <1>3, <1>4 DEF StreamsAreApart
  <2>1. /\ wire[handler[d].sock] = d /\ handler[d].sock \in Fds
        /\ handler[d].idx \in Active
        /\ slots[handler[d].idx].active
        /\ slots[handler[d].idx].sock = handler[d].sock
    BY DEF Sound, StreamsAreApart, Table, Active
  <2> QED
    BY <1>1, <1>2, <2>1
<1> QED
  BY <1>6, <1>7, <1>8, <1>9 DEF Sound

LEMMA SpawnSound ==
  ASSUME Table, Sound, Spawn
  PROVE  Sound'
<1> DEFINE e == wire[listener.sock]
           n == listener.idx
<1>1. /\ listener.at = "spawn" /\ listener.sock \in Fds
      /\ e \in Conns /\ handler[e].at = "accepted"
      /\ n \in Active /\ slots[n].active /\ slots[n].sock = listener.sock
  BY DEF Spawn, Sound, Held, InHand, Table, Active
<1>2. wire' = wire /\ slots' = slots /\ listener'.at = "accept"
  BY DEF Spawn, Listening
<1>3. \A d \in Conns :
        /\ handler'[d].idx = IF d = e THEN n ELSE handler[d].idx
        /\ handler'[d].sock = IF d = e THEN listener.sock ELSE handler[d].sock
        /\ handler'[d].at = IF d = e THEN "recv" ELSE handler[d].at
  BY DEF Spawn, Table
<1>4. wire[listener.sock] = e
  OBVIOUS
<1> HIDE DEF e, n
<1>5. /\ \A d \in Conns : Live(d)' <=> Live(d) \/ d = e
      /\ ~Live(e)
  BY <1>1, <1>3 DEF Live
<1>6. Active' = Active
  BY <1>2 DEF Active
<1>7. \A d \in Conns : Live(d) => handler[d].idx # n
  BY <1>1 DEF Sound, Owners, n
<1>8. Owners'
  <2>1. ASSUME NEW i \in Active PROVE \E d \in Conns : Live(d)' /\ handler'[d].idx = i
    <3>1. CASE i = n
      BY <1>1, <1>3, <1>5, <3>1
    <3>2. CASE i # n
      <4>1. PICK d \in Conns : Live(d) /\ handler[d].idx = i
        BY <3>2 DEF Sound, Owners, n
      <4> QED
        BY <1>3, <1>5, <4>1
    <3> QED
      BY <3>1, <3>2
  <2>2. ASSUME NEW c \in Conns, NEW d \in Conns, Live(c)', Live(d)',
               handler'[c].idx = handler'[d].idx
        PROVE  c = d
    BY <1>3, <1>5, <1>7, <2>2 DEF Sound, Owners
  <2> QED
    BY <1>2, <1>6, <2>1, <2>2 DEF Owners
<1>9. SocketsAreOwned'
  BY <1>1, <1>2, <1>6 DEF Sound, SocketsAreOwned
<1>10. StreamsAreApart'
  BY <1>1, <1>2, <1>3, <1>4, <1>5 DEF Sound, StreamsAreApart
<1>11. Held'
  BY <1>2 DEF Held
<1> QED
  BY <1>8, <1>9, <1>10, <1>11 DEF Sound

LEMMA SpawnFailsSound ==
  ASSUME Table, Sound, SpawnFails
  PROVE  Sound'
<1> DEFINE e == wire[listener.sock]
           n == listener.idx
<1>1. /\ listener.at = "spawn" /\ listener.sock \in Fds
      /\ e \in Conns /\ handler[e].at = "accepted"
      /\ n \in Active /\ slots[n].sock = listener.sock
  BY DEF SpawnFails, Sound, Held, InHand, Table
<1>2. /\ \A g \in Fds : wire'[g] = IF g = slots[n].sock THEN None ELSE wire[g]
      /\ Active' = Active \ {n}
      /\ \A j \in Slots : slots'[j].sock = slots[j].sock
  BY <1>1, FreeEffect DEF SpawnFails
<1>3. listener'.at = "accept"
  BY DEF SpawnFails, Listening
<1>4. \A d \in Conns : /\ handler'[d].idx = handler[d].idx
                       /\ handler'[d].sock = handler[d].sock
                       /\ handler'[d].at = IF d = e THEN "gone" ELSE handler[d].at
  BY DEF SpawnFails, Table
<1>5. \A d \in Conns : Live(d) => handler[d].idx # n
  BY <1>1 DEF Sound, Owners
<1>6. \A i \in Active : i \in Slots
  BY DEF Active
<1>7. \A i \in Active : i # n => \E d \in Conns : Live(d) /\ handler[d].idx = i
  BY DEF Sound, Owners
<1> HIDE DEF e, n
<1>8. \A d \in Conns : Live(d)' <=> Live(d)
  BY <1>1, <1>4 DEF Live
<1>9. Owners'
  BY <1>2, <1>3, <1>4, <1>7, <1>8 DEF Sound, Owners
<1>10. SocketsAreOwned'
  BY <1>1, <1>2, <1>3, <1>6 DEF Sound, SocketsAreOwned
<1>11. StreamsAreApart'
  <2> SUFFICES ASSUME NEW d \in Conns, Live(d)
               PROVE  /\ wire'[handler[d].sock] = d
                      /\ handler[d].idx \in Active'
                      /\ slots'[handler[d].idx].sock = handler[d].sock
    BY <1>4, <1>8 DEF StreamsAreApart, Active
  <2>1. /\ wire[handler[d].sock] = d /\ handler[d].sock \in Fds
        /\ handler[d].idx \in Active /\ handler[d].idx \in Slots
        /\ slots[handler[d].idx].sock = handler[d].sock
    BY DEF Sound, StreamsAreApart, Table, Active
  <2>2. handler[d].sock # slots[n].sock
    BY <1>1, <1>5, <2>1 DEF Sound, SocketsAreOwned
  <2> QED
    BY <1>2, <1>5, <2>1, <2>2
<1>12. Held'
  BY <1>3 DEF Held
<1> QED
  BY <1>9, <1>10, <1>11, <1>12 DEF Sound

LEMMA LeaveSound ==
  ASSUME Table, Sound, NEW c \in Conns, Leave(c)
  PROVE  Sound'
<1> DEFINE n == handler[c].idx
<1>1. /\ Live(c) /\ n \in Active /\ slots[n].sock \in Fds
      /\ slots[n].sock = handler[c].sock /\ wire[slots[n].sock] = c
  BY DEF Leave, Live, Sound, StreamsAreApart, Table, Active
<1>2. /\ \A g \in Fds : wire'[g] = IF g = slots[n].sock THEN None ELSE wire[g]
      /\ Active' = Active \ {n}
      /\ \A j \in Slots : slots'[j].sock = slots[j].sock
      /\ listener' = listener
  BY <1>1, FreeEffect DEF Leave
<1>3. \A d \in Conns : /\ handler'[d].idx = handler[d].idx
                       /\ handler'[d].sock = handler[d].sock
                       /\ handler'[d].at = IF d = c THEN "gone" ELSE handler[d].at
  BY DEF Leave, Table
<1>4. \A d \in Conns : Live(d) /\ d # c => handler[d].idx # n
  BY <1>1 DEF Sound, Owners
<1>5. listener.at = "spawn" => listener.idx # n
  BY <1>1 DEF Sound, Owners
<1>6. \A i \in Active : i # n =>
        \/ listener.at = "spawn" /\ listener.idx = i
        \/ \E d \in Conns : Live(d) /\ d # c /\ handler[d].idx = i
  BY DEF Sound, Owners
<1>7. \A i \in Active : i \in Slots
  BY DEF Active
<1> HIDE DEF n
<1>8. \A d \in Conns : Live(d)' <=> Live(d) /\ d # c
  BY <1>3 DEF Live
<1>9. Held'
  <2>1. CASE listener.at \in {"register", "spawn"}
    <3>1. InHand /\ listener.sock \in Fds
      BY <2>1 DEF Sound, Held, Table
    <3>2. listener.sock # slots[n].sock
      BY <1>1, <1>5, <2>1 DEF Sound, Held, SocketsAreOwned
    <3>3. wire'[listener.sock] = wire[listener.sock] /\ wire[listener.sock] # c
      BY <1>1, <1>2, <3>1, <3>2 DEF InHand, Live
    <3>4. InHand'
      BY <1>2, <1>3, <3>1, <3>3 DEF InHand
    <3> QED
      BY <1>2, <1>5, <1>7, <3>4 DEF Sound, Held
  <2>2. CASE listener.at \notin {"register", "spawn"}
    BY <1>2, <2>2 DEF Held
  <2> QED
    BY <2>1, <2>2
<1>10. Owners'
  BY <1>2, <1>3, <1>6, <1>8 DEF Sound, Owners
<1>11. SocketsAreOwned'
  BY <1>1, <1>2, <1>7 DEF Sound, SocketsAreOwned
<1>12. StreamsAreApart'
  <2> SUFFICES ASSUME NEW d \in Conns, Live(d), d # c
               PROVE  /\ wire'[handler[d].sock] = d
                      /\ handler[d].idx \in Active'
                      /\ slots'[handler[d].idx].sock = handler[d].sock
    BY <1>3, <1>8 DEF StreamsAreApart, Active
  <2>1. /\ wire[handler[d].sock] = d /\ handler[d].sock \in Fds
        /\ handler[d].idx \in Active /\ handler[d].idx \in Slots
        /\ slots[handler[d].idx].sock = handler[d].sock
    BY DEF Sound, StreamsAreApart, Table, Active
  <2> QED
    BY <1>1, <1>2, <1>4, <2>1
<1> QED
  BY <1>9, <1>10, <1>11, <1>12 DEF Sound

LEMMA SoundStep == Table /\ Sound /\ [Next]_vars => Sound'
<1> SUFFICES ASSUME Table, Sound, [Next]_vars PROVE Sound'
  OBVIOUS
<1>1. ASSUME NEW c \in Conns, NEW header \in Headers, Receive(c, header) PROVE Sound'
  <2>1. /\ wire' = wire /\ listener' = listener
        /\ handler[c].idx \in Slots /\ handler[c].at = "recv"
    BY <1>1 DEF Receive, Table
  <2>2. \A i \in Slots : /\ slots'[i].active <=> slots[i].active
                         /\ slots'[i].sock = slots[i].sock
    <3>1. CASE Branch(header) = "subscribe"
      <4>1. slots' = [slots EXCEPT ![handler[c].idx].subs = TRUE]
        BY <1>1, <3>1 DEF Receive
      <4> QED
        BY <2>1, <4>1 DEF Table
    <3>2. CASE Branch(header) # "subscribe"
      BY <1>1, <3>2 DEF Receive
    <3> QED
      BY <3>1, <3>2
  <2>3. Active' = Active
    BY <2>2 DEF Active
  <2>4. handler' \in {handler, [handler EXCEPT ![c].at = "free"]}
    BY <1>1 DEF Receive
  <2>5. \A d \in Conns : /\ Live(d)' <=> Live(d)
                         /\ handler'[d].idx = handler[d].idx
                         /\ handler'[d].sock = handler[d].sock
                         /\ handler[d].at = "accepted" => handler'[d].at = "accepted"
    BY <2>1, <2>4 DEF Live, Table
  <2> QED
    BY <2>1, <2>2, <2>3, <2>5, Quiet DEF Sound
<1>2. ASSUME NEW c \in Conns, RecvFails(c) PROVE Sound'
  <2>1. wire' = wire /\ listener' = listener /\ slots' = slots /\ handler[c].at = "recv"
    BY <1>2 DEF RecvFails
  <2>2. Active' = Active
    BY <2>1 DEF Active
  <2>3. \A d \in Conns : /\ Live(d)' <=> Live(d)
                         /\ handler'[d].idx = handler[d].idx
                         /\ handler'[d].sock = handler[d].sock
                         /\ handler[d].at = "accepted" => handler'[d].at = "accepted"
    BY <1>2, <2>1 DEF RecvFails, Live, Table
  <2> QED
    BY <2>1, <2>2, <2>3, Quiet DEF Sound
<1>3. CASE Publish \/ UNCHANGED vars
  <2>1. wire' = wire /\ listener' = listener /\ slots' = slots /\ handler' = handler
    BY <1>3 DEF Publish, vars
  <2>2. Active' = Active /\ \A d \in Conns : Live(d)' <=> Live(d)
    BY <2>1 DEF Active, Live
  <2> QED
    BY <2>1, <2>2, Quiet DEF Sound
<1> QED
  BY <1>1, <1>2, <1>3, AcceptSound, RegisterSound, RejectSound, SpawnSound,
     SpawnFailsSound, LeaveSound DEF Next

LEMMA SoundInit == Init => Table /\ Sound
<1> SUFFICES ASSUME Init PROVE Table /\ Sound
  OBVIOUS
<1>1. Table
  BY LeastSlot, LeastFd DEF Init, Table, Listening
<1>2. Active = {} /\ \A c \in Conns : ~Live(c)
  BY DEF Init, Active, Live
<1>3. listener.at = "accept" /\ \A fd \in Fds : wire[fd] = None
  BY DEF Init, Listening
<1> QED
  BY <1>1, <1>2, <1>3 DEF Sound, Held, Owners, SocketsAreOwned, StreamsAreApart

LEMMA SoundInvariance == Spec => [](Table /\ Sound)
<1>1. Table /\ Sound /\ [Next]_vars => (Table /\ Sound)'
  BY TableStep, SoundStep DEF Sound
<1> QED
  BY SoundInit, <1>1, PTL DEF Spec

(* OneOwner, for any number of connections and slots: whatever fails       *)
(* between accept and the end of a handler, a slot in use has exactly one  *)
(* task to free it.                                                        *)
THEOREM SlotsHaveOneOwner == Spec => []OneOwner
<1>1. Table /\ Sound => OneOwner
  <2> SUFFICES ASSUME Table, Sound PROVE OneOwner
    OBVIOUS
  <2>1. ASSUME NEW i \in Active
        PROVE  (listener.at = "spawn" /\ listener.idx = i) #
                 (\E c \in Conns : Live(c) /\ handler[c].idx = i)
    <3>1. CASE listener.at = "spawn" /\ listener.idx = i
      <4>1. ~ \E c \in Conns : Live(c) /\ handler[c].idx = i
        BY <3>1 DEF Sound, Owners
      <4> QED
        BY <3>1, <4>1
    <3>2. CASE ~(listener.at = "spawn" /\ listener.idx = i)
      <4>1. \E c \in Conns : Live(c) /\ handler[c].idx = i
        BY <3>2 DEF Sound, Owners
      <4> QED
        BY <3>2, <4>1
    <3> QED
      BY <3>1, <3>2
  <2> QED
    BY <2>1 DEF OneOwner, Sound, Owners
<1> QED
  BY <1>1, SoundInvariance, PTL

(* SocketsAreOwned, for any number of descriptors: none leaks.             *)
THEOREM NoSocketLeaks == Spec => []SocketsAreOwned
<1>1. Table /\ Sound => SocketsAreOwned
  BY DEF Sound
<1> QED
  BY <1>1, SoundInvariance, PTL

(* StreamsAreApart: a handler talks to its own client for as long as it    *)
(* lives, although it uses its socket without the mutex.                   *)
THEOREM StreamsStayApart == Spec => []StreamsAreApart
<1>1. Table /\ Sound => StreamsAreApart
  BY DEF Sound
<1> QED
  BY <1>1, SoundInvariance, PTL

-----------------------------------------------------------------------------
(* The count of clients.                                                   *)

LEMMA ActiveFinite == /\ IsFiniteSet(Active) /\ Cardinality(Active) \in Nat
                      /\ Cardinality(Active) <= Cardinality(Slots)
                      /\ Cardinality(Slots) \in Nat
<1>1. Active \in SUBSET Slots
  BY DEF Active
<1> QED
  BY <1>1, BrokerAssumption, FS_Subset, FS_CardinalityType

LEMMA CountStep == Table /\ Sound /\ CountIsExact /\ [Next]_vars => CountIsExact'
<1> SUFFICES ASSUME Table, Sound, CountIsExact, [Next]_vars PROVE CountIsExact'
  OBVIOUS
<1> USE DEF CountIsExact
<1>1. ASSUME NEW i \in Active, FreeClient(i) PROVE CountIsExact'
  <2>1. Active' = Active \ {i} /\ count' = IF count > 0 THEN count - 1 ELSE count
    BY <1>1, FreeEffect
  <2>2. Cardinality(Active \ {i}) = Cardinality(Active) - 1
    BY ActiveFinite, FS_RemoveElement
  <2>3. Cardinality(Active) # 0
    BY ActiveFinite, FS_EmptySet
  <2> QED
    BY <2>1, <2>2, <2>3, ActiveFinite
<1>2. CASE Register
  <2>1. Least(Idle) \in Slots /\ Least(Idle) \notin Active
    BY <1>2, LeastSlot DEF Register, Idle, Active
  <2>2. Active' = Active \cup {Least(Idle)}
    BY <1>2, <2>1 DEF Register, Active, Table
  <2>3. Cardinality(Active \cup {Least(Idle)}) = Cardinality(Active) + 1
    BY <2>1, ActiveFinite, FS_AddElement
  <2> QED
    BY <1>2, <2>2, <2>3 DEF Register
<1>3. CASE SpawnFails
  <2>1. listener.idx \in Active
    BY <1>3 DEF SpawnFails, Sound, Held
  <2> QED
    BY <1>1, <1>3, <2>1 DEF SpawnFails
<1>4. ASSUME NEW c \in Conns, Leave(c) PROVE CountIsExact'
  <2>1. handler[c].idx \in Active
    BY <1>4 DEF Leave, Live, Sound, StreamsAreApart, Table, Active
  <2> QED
    BY <1>1, <1>4, <2>1 DEF Leave
<1>5. ASSUME NEW c \in Conns, NEW header \in Headers, Receive(c, header) PROVE CountIsExact'
  <2>1. \A i \in Slots : slots'[i].active <=> slots[i].active
    <3>1. CASE Branch(header) = "subscribe"
      <4>1. slots' = [slots EXCEPT ![handler[c].idx].subs = TRUE]
        BY <1>5, <3>1 DEF Receive
      <4> QED
        BY <4>1 DEF Table
    <3>2. CASE Branch(header) # "subscribe"
      BY <1>5, <3>2 DEF Receive
    <3> QED
      BY <3>1, <3>2
  <2>2. Active' = Active
    BY <2>1 DEF Active
  <2> QED
    BY <1>5, <2>2 DEF Receive
<1>6. ASSUME slots' = slots, count' = count PROVE CountIsExact'
  BY <1>6 DEF Active
<1>7. ASSUME NEW c \in Conns, Accept(c) \/ RecvFails(c) PROVE CountIsExact'
  BY <1>6, <1>7 DEF Accept, RecvFails
<1>8. CASE Reject \/ Spawn \/ Publish \/ UNCHANGED vars
  BY <1>6, <1>8 DEF Reject, Spawn, Publish, vars
<1> QED
  BY <1>2, <1>3, <1>4, <1>5, <1>7, <1>8 DEF Next

LEMMA NotesStep == Notes /\ [Next]_vars => Notes'
<1> SUFFICES ASSUME Notes, [Next]_vars PROVE Notes'
  OBVIOUS
<1> USE BrokerAssumption DEF Notes
<1>1. ASSUME NEW c \in Conns, NEW header \in Headers, Receive(c, header) PROVE Notes'
  <2>1. left' \in [Conns -> 0..Packets]
    BY <1>1 DEF Receive
  <2>2. asked' \subseteq Conns /\ unheard' \subseteq Conns
    BY <1>1 DEF Receive, Deliver
  <2> QED
    BY <2>1, <2>2
<1>2. ASSUME NEW c \in Conns, Accept(c) \/ RecvFails(c) \/ Leave(c) PROVE Notes'
  BY <1>2 DEF Accept, RecvFails, Leave
<1>3. CASE Publish
  BY <1>3 DEF Publish, Deliver
<1>4. CASE Register \/ Reject \/ Spawn \/ SpawnFails \/ UNCHANGED vars
  BY <1>4 DEF Register, Reject, Spawn, SpawnFails, vars
<1> QED
  BY <1>1, <1>2, <1>3, <1>4 DEF Next

LEMMA CountInvariance == Spec => [](Table /\ Notes /\ CountIsExact)
<1>1. Init => CountIsExact /\ Notes
  <2> SUFFICES ASSUME Init PROVE CountIsExact /\ Notes
    OBVIOUS
  <2>1. Active = {} /\ count = 0
    BY DEF Init, Active
  <2>2. Notes
    BY BrokerAssumption DEF Init, Notes
  <2> QED
    BY <2>1, <2>2, FS_EmptySet DEF CountIsExact
<1> QED
  BY SoundInit, TableStep, SoundStep, CountStep, NotesStep, SoundInvariance, <1>1, PTL DEF Spec

(* CountIsExact: s_client_count is the number of slots in use, although it *)
(* is kept apart from them and guarded against going below 0.              *)
THEOREM ClientsAreCounted == Spec => []CountIsExact
  BY CountInvariance, PTL

(* TypeOK: in particular the count never exceeds the slots there are.      *)
THEOREM TypeCorrect == Spec => []TypeOK
<1>1. Table /\ Notes /\ CountIsExact => TypeOK
  BY ActiveFinite DEF Table, Notes, CountIsExact, TypeOK
<1> QED
  BY <1>1, CountInvariance, PTL

=============================================================================
