------------------------------ MODULE WireProofs ------------------------------
(***************************************************************************)
(* Proofs about Wire: the length of a packet is put together as it was     *)
(* written, and the handler stays in step with the stream, for every base, *)
(* every size of its arrays and all lengths a client may use.              *)
(***************************************************************************)
EXTENDS Wire, SequenceTheorems, TLAPS

-----------------------------------------------------------------------------
(* Packets                                                                 *)

LEMMA Sizes ==
  /\ Base \in Nat /\ Base >= 2
  /\ IdSize \in Nat \ {0} /\ TopicSize \in Nat \ {0} /\ BodySize \in Nat \ {0}
  /\ Chunk \in Nat \ {0}
  /\ Strings \subseteq Nat /\ Bodies \subseteq Nat /\ Others \subseteq Nat
BY WireAssumption DEF WireAssumption

LEMMA PacketType ==
  ASSUME NEW p \in Packets
  PROVE  /\ p.type \in {"connect", "publish", "other", "ping", "disconnect"}
         /\ p.string \in Nat /\ p.id \in {0, 2} /\ p.body \in Nat
         /\ p.type = "connect" => Length(p) = 12 + p.string + p.body
         /\ p.type = "publish" => Length(p) = 2 + p.string + p.id + p.body
         /\ p.type = "other"   => Length(p) = p.body
         /\ p.type \in {"ping", "disconnect"} => Length(p) = 0
         /\ Length(p) \in Nat
<1>1. CASE p \in [type : {"connect"}, string : Strings, id : {0}, body : Bodies]
  BY <1>1, Sizes DEF Length
<1>2. CASE p \in [type : {"publish"}, string : Strings \ {0}, id : {0, 2}, body : Bodies]
  BY <1>2, Sizes DEF Length
<1>3. CASE p \in [type : {"other"}, string : {0}, id : {0}, body : Others]
  BY <1>3, Sizes DEF Length
<1>4. CASE p = Empty("ping") \/ p = Empty("disconnect")
  BY <1>4 DEF Length, Empty
<1> QED  BY <1>1, <1>2, <1>3, <1>4 DEF Packets

-----------------------------------------------------------------------------
(* Lengths                                                                 *)

(* The value of digits, the last first.                                    *)
Amount(list) ==
  CASE Len(list) = 1 -> list[1]
    [] Len(list) = 2 -> list[1] + Base * list[2]
    [] Len(list) = 3 -> list[1] + Base * (list[2] + Base * list[3])
    [] Len(list) = 4 -> list[1] + Base * (list[2] + Base * (list[3] + Base * list[4]))

LEMMA Division ==
  ASSUME NEW n \in Nat
  PROVE  /\ n \div Base \in Nat /\ n % Base \in Nat
         /\ n = (n % Base) + Base * (n \div Base)
BY Sizes

(* What the client writes is the length.                                   *)
LEMMA DigitsAmount ==
  ASSUME NEW n \in Nat
  PROVE  /\ Digits(n) \in Seq(Nat) /\ Len(Digits(n)) \in 1..4
         /\ Amount(Digits(n)) = n
<1> DEFINE second == n \div Base
           third  == second \div Base
           fourth == third \div Base
           d1 == n % Base
           d2 == second % Base
           d3 == third % Base
<1>1. second \in Nat /\ d1 \in Nat /\ n = d1 + Base * second
  BY Division
<1>2. third \in Nat /\ d2 \in Nat /\ second = d2 + Base * third
  BY <1>1, Division
<1>3. fourth \in Nat /\ d3 \in Nat /\ third = d3 + Base * fourth
  BY <1>2, Division
<1>4. Digits(n) = IF second = 0 THEN <<n>>
                  ELSE IF third = 0 THEN <<d1, second>>
                  ELSE IF fourth = 0 THEN <<d1, d2, third>>
                  ELSE <<d1, d2, d3, fourth>>
  BY DEF Digits
<1> HIDE DEF second, third, fourth, d1, d2, d3
<1>5. CASE second = 0
  <2>1. Digits(n) = <<n>>
    BY <1>4, <1>5
  <2> QED  BY <2>1 DEF Amount
<1>6. CASE second # 0 /\ third = 0
  <2>1. Digits(n) = <<d1, second>>
    BY <1>4, <1>6
  <2>2. Amount(<<d1, second>>) = d1 + Base * second
    BY DEF Amount
  <2>3. <<d1, second>> \in Seq(Nat) /\ Len(<<d1, second>>) = 2
    BY <1>1
  <2>4. Amount(Digits(n)) = n
    BY <1>1, <2>1, <2>2, Zenon
  <2> QED  BY <2>1, <2>3, <2>4
<1>7. CASE second # 0 /\ third # 0 /\ fourth = 0
  <2>1. Digits(n) = <<d1, d2, third>>
    BY <1>4, <1>7
  <2>2. Amount(<<d1, d2, third>>) = d1 + Base * (d2 + Base * third)
    BY DEF Amount
  <2>3. <<d1, d2, third>> \in Seq(Nat) /\ Len(<<d1, d2, third>>) = 3
    BY <1>1, <1>2
  <2>4. Amount(Digits(n)) = n
    BY <1>1, <1>2, <2>1, <2>2, Zenon
  <2> QED  BY <2>1, <2>3, <2>4
<1>8. CASE second # 0 /\ third # 0 /\ fourth # 0
  <2>1. Digits(n) = <<d1, d2, d3, fourth>>
    BY <1>4, <1>8
  <2>2. Amount(<<d1, d2, d3, fourth>>) = d1 + Base * (d2 + Base * (d3 + Base * fourth))
    BY DEF Amount
  <2>3. <<d1, d2, d3, fourth>> \in Seq(Nat) /\ Len(<<d1, d2, d3, fourth>>) = 4
    BY <1>1, <1>2, <1>3
  <2>4. Amount(Digits(n)) = n
    BY <1>1, <1>2, <1>3, <2>1, <2>2, Zenon
  <2> QED  BY <2>1, <2>3, <2>4
<1> QED  BY <1>5, <1>6, <1>7, <1>8

LEMMA AmountByLength ==
  ASSUME NEW list
  PROVE  /\ Len(list) = 1 => Amount(list) = list[1]
         /\ Len(list) = 2 => Amount(list) = list[1] + Base * list[2]
         /\ Len(list) = 3 => Amount(list) = list[1] + Base * (list[2] + Base * list[3])
BY DEF Amount

(* The first digit and the amount of the others.                           *)
LEMMA AmountTail ==
  ASSUME NEW list \in Seq(Nat), Len(list) \in 1..4
  PROVE  /\ Head(list) \in Nat /\ Tail(list) \in Seq(Nat) /\ Len(Tail(list)) = Len(list) - 1
         /\ Len(list) = 1 => Amount(list) = Head(list)
         /\ Len(list) > 1 => /\ Amount(Tail(list)) \in Nat
                             /\ Amount(list) = Head(list) + Base * Amount(Tail(list))
<1>0. list # <<>> /\ Head(list) = list[1] /\ Head(list) \in Nat /\ Tail(list) \in Seq(Nat)
        /\ Len(Tail(list)) = Len(list) - 1
  OBVIOUS
<1>1. \A i \in 1..4 : i <= Len(list) => list[i] \in Nat
  OBVIOUS
<1>t. \A i \in 1..(Len(list) - 1) : Tail(list)[i] = list[i + 1]
  BY <1>0, HeadTailProperties
<1>2. CASE Len(list) = 1
  BY <1>0, <1>2 DEF Amount
<1>3. CASE Len(list) = 2
  <2>1. Tail(list)[1] = list[2]
    <3>1. 1 \in 1..(Len(list) - 1) /\ 1 + 1 = 2
      BY <1>3
    <3> QED  BY <1>t, <3>1, Zenon
  <2>2. Amount(Tail(list)) = list[2]
    <3>1. Len(Tail(list)) = 1
      BY <1>0, <1>3
    <3> QED  BY <2>1, <3>1, AmountByLength, Zenon
  <2>3. Amount(list) = list[1] + Base * list[2]
    BY <1>3 DEF Amount
  <2> QED  BY <1>0, <1>1, <1>3, <2>2, <2>3
<1>4. CASE Len(list) = 3
  <2>1. Tail(list)[1] = list[2] /\ Tail(list)[2] = list[3]
    <3>1. /\ 1 \in 1..(Len(list) - 1) /\ 1 + 1 = 2
          /\ 2 \in 1..(Len(list) - 1) /\ 2 + 1 = 3
      BY <1>4
    <3> QED  BY <1>t, <3>1, Zenon
  <2>2. Amount(Tail(list)) = list[2] + Base * list[3]
    <3>1. Len(Tail(list)) = 2
      BY <1>0, <1>4
    <3>2. Amount(Tail(list)) = Tail(list)[1] + Base * Tail(list)[2]
      BY <3>1, AmountByLength, Zenon
    <3> QED  BY <2>1, <3>2, Zenon
  <2>3. Amount(list) = list[1] + Base * (list[2] + Base * list[3])
    BY <1>4 DEF Amount
  <2>4. list[2] + Base * list[3] \in Nat
    BY <1>1, <1>4, Sizes
  <2> QED  BY <1>0, <1>4, <2>2, <2>3, <2>4
<1>5. CASE Len(list) = 4
  <2>1. Tail(list)[1] = list[2] /\ Tail(list)[2] = list[3] /\ Tail(list)[3] = list[4]
    <3>1. /\ 1 \in 1..(Len(list) - 1) /\ 1 + 1 = 2
          /\ 2 \in 1..(Len(list) - 1) /\ 2 + 1 = 3
          /\ 3 \in 1..(Len(list) - 1) /\ 3 + 1 = 4
      BY <1>5
    <3> QED  BY <1>t, <3>1, Zenon
  <2>2. Amount(Tail(list)) = list[2] + Base * (list[3] + Base * list[4])
    <3>1. Len(Tail(list)) = 3
      BY <1>0, <1>5
    <3>2. Amount(Tail(list)) = Tail(list)[1] + Base * (Tail(list)[2] + Base * Tail(list)[3])
      BY <3>1, AmountByLength, Zenon
    <3> QED  BY <2>1, <3>2, Zenon
  <2>3. Amount(list) = list[1] + Base * (list[2] + Base * (list[3] + Base * list[4]))
    BY <1>5 DEF Amount
  <2>4. list[2] \in Nat /\ list[3] \in Nat /\ list[4] \in Nat
    BY <1>1, <1>5
  <2>5. list[2] + Base * (list[3] + Base * list[4]) \in Nat
    <3>1. \A a, b \in Nat : a + Base * b \in Nat
      BY Sizes
    <3>2. list[3] + Base * list[4] \in Nat
      BY <2>4, <3>1, Zenon
    <3> QED  BY <2>4, <3>1, <3>2, Zenon
  <2> QED  BY <1>0, <1>5, <2>2, <2>3, <2>5
<1> QED  BY <1>2, <1>3, <1>4, <1>5

-----------------------------------------------------------------------------
(* Where the handler stands in the packet, by what it reads.               *)

(* The weight of the digit that is read next.                              *)
Weights == {1, Base, Base * Base, Base * Base * Base}

(* The length so far and the digits to come make up the length.            *)
LengthInv ==
  at = "length" => /\ passed = 0 /\ digits \in Seq(Nat) /\ Len(digits) \in 1..4
                   /\ value.val \in Nat /\ value.mul \in Weights
                   /\ value.val + value.mul * Amount(digits) = Length(packet)

(* The bytes of a packet in front of its string.                           *)
Start == IF packet.type = "connect" THEN 10 ELSE 0

PlaceInv ==
  /\ at = "protocol"   => /\ packet.type = "connect" /\ toRead = Length(packet)
                          /\ passed = 7 - want
  /\ at = "flags"      => /\ packet.type = "connect" /\ toRead = Length(packet) - 7
                          /\ passed = 10 - want
  /\ at = "string"     => /\ packet.type \in {"connect", "publish"}
                          /\ toRead = Length(packet) - Start /\ passed = Start + 2 - want
  /\ at = "characters" => /\ packet.type \in {"connect", "publish"}
                          /\ toRead = Length(packet) - Start
                          /\ passed = Start + 2 + packet.string - want
  /\ at = "packet id"  => /\ packet.type = "publish" /\ toRead = packet.body
                          /\ passed + want = Length(packet) - packet.body
  /\ at = "body"       => /\ packet.type = "publish" /\ passed + want + toRead = Length(packet)
                          /\ toRead > 0 => packet.body >= BodySize
  /\ at = "rest"       => passed + want = Length(packet)

Places == {"type", "length", "protocol", "flags", "string", "characters", "packet id", "body",
           "rest", "left", "astray"}

TypeInv ==
  /\ packet \in Packets /\ passed \in Nat /\ want \in Nat /\ toRead \in Nat
  /\ at \in Places

StreamInv == TypeInv /\ LengthInv /\ PlaceInv /\ HandlerIsInStep

LEMMA Elsewhere ==
  ASSUME at' # "length", TypeInv', PlaceInv', HandlerIsInStep'
  PROVE  StreamInv'
BY DEF StreamInv, LengthInv

(* What is to be shown when the handler reads something but a length.      *)
LEMMA Settled ==
  ASSUME packet' \in Packets, passed' \in Nat, want' \in Nat, toRead' \in Nat,
         at' \in Places, at' # "length", PlaceInv', passed' <= Length(packet'), at' # "type"
  PROVE  StreamInv'
<1>1. TypeInv'
  BY DEF TypeInv
<1>2. HandlerIsInStep'
  <2>1. Length(packet)' = Length(packet')
    BY DEF Length
  <2> QED  BY <2>1 DEF HandlerIsInStep
<1> QED  BY <1>1, <1>2, Elsewhere

(* At the start of a packet, or at the end of the connection, there is     *)
(* nothing left to say but where the handler stands.                       *)
LEMMA Between ==
  ASSUME packet' \in Packets, passed' \in Nat, want' \in Nat, toRead' \in Nat,
         at' \in {"type", "left", "astray"}, HandlerIsInStep'
  PROVE  StreamInv'
<1>1. at' \in Places /\ at' # "length"
  BY DEF Places
<1>2. TypeInv'
  BY <1>1 DEF TypeInv
<1>3. PlaceInv'
  BY DEF PlaceInv
<1> QED  BY <1>1, <1>2, <1>3, Elsewhere

LEMMA StreamInit == Init => StreamInv
<1> SUFFICES ASSUME Init PROVE StreamInv
  OBVIOUS
<1>1. packet = Empty("ping") /\ packet \in Packets /\ Length(packet) = 0
  BY DEF Init, Packets, Empty, Length
<1>2. at = "type" /\ passed = 0 /\ want = 1 /\ toRead = 0
  BY DEF Init
<1> QED
  BY <1>1, <1>2 DEF StreamInv, TypeInv, Places, LengthInv, PlaceInv, HandlerIsInStep

(* What the handler reads after a payload has been taken as far as it      *)
(* fits, when it stands in front of the payload.                           *)
LEMMA AfterPayload ==
  ASSUME StreamInv, packet.type = "publish", UNCHANGED packet, passed' \in Nat,
         passed' = Length(packet) - packet.body, Payload(packet.body)
  PROVE  StreamInv'
<1> DEFINE taken == IF packet.body < BodySize - 1 THEN packet.body ELSE BodySize - 1
<1>0. /\ packet \in Packets /\ packet.body \in Nat /\ Length(packet) \in Nat
      /\ BodySize \in Nat /\ BodySize > 0
  BY PacketType, Sizes DEF StreamInv, TypeInv
<1>1. taken \in Nat /\ taken <= packet.body /\ (taken < packet.body => packet.body >= BodySize)
  BY <1>0
<1>2. toRead' = packet.body - taken /\ toRead' \in Nat
        /\ IF taken = 0 THEN Reads("type", 1) ELSE Reads("body", taken)
  BY <1>0, <1>1 DEF Payload
<1> HIDE DEF taken
<1>3. Length(packet)' = Length(packet)
  BY DEF Length
<1>4. CASE taken = 0
  <2>1. at' = "type" /\ want' = 1
    BY <1>2, <1>4 DEF Reads
  <2> QED
    BY <1>0, <1>1, <1>2, <1>3, <1>4, <2>1, Elsewhere
       DEF TypeInv, Places, PlaceInv, HandlerIsInStep
<1>5. CASE taken # 0
  <2>1. at' = "body" /\ want' = taken
    BY <1>2, <1>5 DEF Reads
  <2> QED
    BY <1>0, <1>1, <1>2, <1>3, <2>1, Elsewhere
       DEF TypeInv, Places, PlaceInv, HandlerIsInStep
<1> QED  BY <1>4, <1>5

LEMMA AfterTheString ==
  ASSUME StreamInv, packet.type \in {"connect", "publish"}, UNCHANGED packet,
         passed' = Start + 2 + packet.string,
         AfterString(Length(packet) - Start - 2 - packet.string)
  PROVE  StreamInv'
<1>0. packet \in Packets
  BY DEF StreamInv, TypeInv
<1>1. Length(packet)' = Length(packet) /\ passed' \in Nat
  BY <1>0, PacketType DEF Length, Start
<1>2. CASE packet.type = "connect"
  <2>1. /\ Length(packet) - Start - 2 - packet.string = packet.body /\ packet.body \in Nat
        /\ passed' = Length(packet) - packet.body
    BY <1>0, <1>2, PacketType DEF Start
  <2>2. /\ toRead' = packet.body
        /\ IF packet.body = 0 THEN Reads("type", 1) ELSE Reads("rest", packet.body)
    BY <1>2, <2>1 DEF AfterString
  <2>3. \/ at' = "type" /\ want' = 1 /\ packet.body = 0
        \/ at' = "rest" /\ want' = packet.body
    BY <2>2 DEF Reads
  <2>4. Length(packet) \in Nat /\ passed' + packet.body = Length(packet)
    BY <1>0, <1>1, <2>1, PacketType
  <2>5. CASE at' = "type"
    BY <1>0, <1>1, <2>1, <2>2, <2>3, <2>4, <2>5, Between DEF HandlerIsInStep
  <2>6. CASE at' = "rest" /\ want' = packet.body
    BY <1>0, <1>1, <2>1, <2>2, <2>4, <2>6, Elsewhere
       DEF TypeInv, Places, PlaceInv, HandlerIsInStep
  <2> QED  BY <2>3, <2>5, <2>6
<1>3. CASE packet.type = "publish"
  <2>1. /\ Length(packet) - Start - 2 - packet.string = packet.id + packet.body
        /\ packet.id \in {0, 2} /\ packet.body \in Nat
        /\ passed' = 2 + packet.string /\ Length(packet) \in Nat
        /\ Length(packet) = 2 + packet.string + packet.id + packet.body
    BY <1>0, <1>3, PacketType DEF Start
  <2>2. CASE packet.id = 2
    <3>0. AfterString(2 + packet.body)
      BY <2>1, <2>2
    <3>a. packet.type # "connect" /\ packet.id > 0 /\ 2 + packet.body >= 2
            /\ (2 + packet.body) - 2 = packet.body
      BY <1>3, <2>1, <2>2
    <3>b. toRead' = (2 + packet.body) - 2 /\ Reads("packet id", 2)
      BY <3>0, <3>a, Zenon DEF AfterString
    <3>1. toRead' = packet.body /\ at' = "packet id" /\ want' = 2
      BY <3>a, <3>b DEF Reads
    <3>2. at' \in Places /\ at' # "length" /\ at' # "type"
      BY <3>1 DEF Places
    <3>3. packet' \in Packets /\ want' \in Nat /\ toRead' \in Nat
      BY <1>0, <2>1, <3>1
    <3>4. Length(packet') = Length(packet) /\ passed' + 2 = Length(packet) - packet.body
      BY <1>0, <2>1, <2>2, PacketType
    <3>5. passed' <= Length(packet')
      BY <1>0, <1>1, <2>1, <3>4, PacketType
    <3>6. PlaceInv'
      BY <1>3, <3>1, <3>4 DEF PlaceInv
    <3> QED  BY <1>1, <3>2, <3>3, <3>5, <3>6, Settled
  <2>3. CASE packet.id = 0
    <3>1. Payload(packet.body)
      BY <1>3, <2>1, <2>3 DEF AfterString
    <3>2. passed' = Length(packet) - packet.body
      BY <1>0, <2>1, <2>3, PacketType
    <3> QED  BY <1>1, <1>3, <3>1, <3>2, AfterPayload
  <2> QED  BY <2>1, <2>2, <2>3
<1> QED  BY <1>2, <1>3

LEMMA BeginStep == StreamInv /\ Begin => StreamInv'
<1> SUFFICES ASSUME StreamInv, Begin PROVE StreamInv'
  OBVIOUS
<1>1. /\ packet' \in Packets /\ digits' = Digits(Length(packet')) /\ passed' = 0
      /\ value' = [val |-> 0, mul |-> 1] /\ at' = "length" /\ want' = 1 /\ toRead' = toRead
  BY DEF Begin, Reads
<1>2. Length(packet') \in Nat
  BY <1>1, PacketType
<1>3. /\ digits' \in Seq(Nat) /\ Len(digits') \in 1..4
      /\ Amount(digits') = Length(packet')
  BY <1>1, <1>2, DigitsAmount
<1>4. Length(packet)' = Length(packet') /\ Amount(digits)' = Amount(digits')
  BY DEF Length, Amount
<1>5. LengthInv'
  BY <1>1, <1>2, <1>3, <1>4 DEF LengthInv, Weights
<1>6. TypeInv'
  BY <1>1 DEF StreamInv, TypeInv, Places
<1>7. PlaceInv' /\ HandlerIsInStep'
  BY <1>1, <1>2, <1>4 DEF PlaceInv, HandlerIsInStep
<1> QED  BY <1>5, <1>6, <1>7 DEF StreamInv

(* The branch for a packet, when the handler has its length right.         *)
LEMMA DispatchStep ==
  ASSUME StreamInv, UNCHANGED <<packet, passed>>, passed = 0, Dispatch(Length(packet))
  PROVE  StreamInv'
<1>0. packet \in Packets /\ Length(packet) \in Nat /\ toRead' = Length(packet)
  BY PacketType DEF StreamInv, TypeInv, Dispatch
<1>1. Length(packet)' = Length(packet)
  BY DEF Length
<1>2. CASE packet.type = "connect"
  <2>1. Length(packet) >= 12
    BY <1>0, <1>2, PacketType
  <2>2. at' = "protocol" /\ want' = 7
    BY <1>0, <1>2, <2>1 DEF Dispatch, Reads
  <2> QED
    BY <1>0, <1>1, <1>2, <2>1, <2>2, Elsewhere
       DEF TypeInv, Places, PlaceInv, HandlerIsInStep
<1>3. CASE packet.type = "publish"
  <2>1. at' = "string" /\ want' = 2
    BY <1>3 DEF Dispatch, Reads
  <2> QED
    BY <1>0, <1>1, <1>3, <2>1, Elsewhere
       DEF TypeInv, Places, PlaceInv, HandlerIsInStep, Start
<1>4. CASE packet.type = "other"
  <2>1. at' = "rest" /\ want' = Length(packet)
    BY <1>4 DEF Dispatch, Reads
  <2> QED
    BY <1>0, <1>1, <2>1, Elsewhere
       DEF TypeInv, Places, PlaceInv, HandlerIsInStep
<1>5. CASE packet.type \in {"ping", "disconnect"}
  <2>1. Length(packet) = 0
    BY <1>0, <1>5, PacketType
  <2>2. (at' = "type" /\ want' = 1) \/ (at' = "left" /\ want' = 0)
    BY <1>5 DEF Dispatch, Reads
  <2> QED
    BY <1>0, <1>1, <2>1, <2>2, Between DEF HandlerIsInStep
<1> QED  BY <1>0, <1>2, <1>3, <1>4, <1>5, PacketType

LEMMA DecodeStep == StreamInv /\ Decode => StreamInv'
<1> SUFFICES ASSUME StreamInv, Decode PROVE StreamInv'
  OBVIOUS
<1> DEFINE val == value.val + Head(digits) * value.mul
           mul == value.mul * Base
<1>0. /\ at = "length" /\ passed = 0 /\ digits \in Seq(Nat) /\ Len(digits) \in 1..4
      /\ value.val \in Nat /\ value.mul \in Weights
      /\ value.val + value.mul * Amount(digits) = Length(packet)
  BY DEF Decode, StreamInv, LengthInv
<1>1. /\ UNCHANGED <<packet, passed>> /\ value' = [val |-> val, mul |-> mul]
      /\ digits' = Tail(digits)
      /\ IF mul > Base * Base * Base THEN Reads("left", 0) /\ UNCHANGED toRead
         ELSE IF Tail(digits) # <<>> THEN UNCHANGED <<at, want, toRead>>
         ELSE Dispatch(val)
  BY DEF Decode
<1>2. Length(packet)' = Length(packet) /\ packet \in Packets /\ Length(packet) \in Nat
  BY <1>1, PacketType DEF Length, StreamInv, TypeInv
<1>3. /\ Base \in Nat /\ Base >= 2 /\ value.mul \in Nat
      /\ Base * Base \in Nat /\ Base * Base * Base \in Nat
  BY <1>0, Sizes DEF Weights
<1>4. Head(digits) \in Nat /\ val \in Nat /\ mul \in Nat
  <2>1. Head(digits) \in Nat
    BY <1>0, AmountTail
  <2>2. Head(digits) * value.mul \in Nat
    BY <1>3, <2>1
  <2>3. value.mul * Base \in Nat
    BY <1>3
  <2> QED  BY <1>0, <2>1, <2>2, <2>3
<1>5. CASE mul > Base * Base * Base
  <2>1. at' = "left" /\ want' = 0 /\ toRead' = toRead /\ toRead \in Nat
    BY <1>1, <1>5 DEF Reads, StreamInv, TypeInv
  <2>2. HandlerIsInStep'
    BY <1>0, <1>1, <1>2, <2>1 DEF HandlerIsInStep
  <2> QED  BY <1>0, <1>1, <1>2, <2>1, <2>2, Between
<1>6. CASE ~(mul > Base * Base * Base) /\ Tail(digits) # <<>>
  <2>1. UNCHANGED <<at, want, toRead>>
    BY <1>1, <1>6
  <2>2. Len(digits) > 1 /\ Tail(digits) \in Seq(Nat) /\ Len(Tail(digits)) \in 1..4
    <3>1. Tail(digits) \in Seq(Nat) /\ Len(Tail(digits)) = Len(digits) - 1
      BY <1>0, AmountTail
    <3>2. Len(Tail(digits)) # 0
      BY <1>6, <3>1
    <3>3. ASSUME NEW n \in 1..4, n - 1 # 0
          PROVE  n > 1 /\ n - 1 \in 1..4
      BY <3>3
    <3>4. Len(digits) \in 1..4 /\ Len(digits) - 1 # 0
      BY <1>0, <3>1, <3>2
    <3>5. Len(digits) > 1 /\ Len(digits) - 1 \in 1..4
      BY <3>3, <3>4, Zenon
    <3> QED  BY <3>1, <3>5, Zenon
  <2>3. /\ Amount(Tail(digits)) \in Nat
        /\ Amount(digits) = Head(digits) + Base * Amount(Tail(digits))
    BY <1>0, <2>2, AmountTail
  <2>4. val + mul * Amount(Tail(digits)) = value.val + value.mul * Amount(digits)
    <3> DEFINE h == Head(digits)
               a == Amount(Tail(digits))
               v == value.val
               m == value.mul
    <3>2. /\ Head(digits) \in Nat /\ value.mul \in Nat /\ Base \in Nat
          /\ Amount(Tail(digits)) \in Nat /\ value.val \in Nat
      BY <1>0, <1>3, <1>4, <2>3, Zenon
    <3>3. val + mul * Amount(Tail(digits))
            = value.val + value.mul * (Head(digits) + Base * Amount(Tail(digits)))
      <4>1. h \in Nat /\ a \in Nat /\ v \in Nat /\ m \in Nat /\ Base \in Nat
        BY <3>2, Zenon
      <4> HIDE DEF h, a, v, m
      <4>2. (v + h * m) + (m * Base) * a = v + m * (h + Base * a)
        BY <4>1
      <4> QED  BY <4>2, Zenon DEF h, a, v, m
    <3> QED  BY <2>3, <3>3, Zenon
  <2>5. mul \in Weights
    <3>1. value.mul # Base * Base * Base
      <4>1. (Base * Base * Base) * Base > Base * Base * Base
        <5>1. Base * Base * Base >= 1
          <6>1. Base * Base >= 1
            BY <1>3
          <6> QED  BY <1>3, <6>1
        <5>2. ASSUME NEW c \in Nat, c >= 1, NEW b \in Nat, b >= 2
              PROVE  c * b > c
          BY <5>2
        <5> QED  BY <1>3, <5>1, <5>2
      <4> QED  BY <1>6, <4>1
    <3>2. value.mul = 1 \/ value.mul = Base \/ value.mul = Base * Base
      BY <1>0, <3>1 DEF Weights
    <3>3. mul = Base \/ mul = Base * Base \/ mul = Base * Base * Base
      BY <1>3, <3>2
    <3> QED  BY <3>3 DEF Weights
  <2>6. LengthInv'
    <3>1. value'.val = val /\ value'.mul = mul /\ Amount(digits)' = Amount(Tail(digits))
            /\ passed' = 0
      BY <1>0, <1>1 DEF Amount
    <3>2. Weights' = Weights
      BY DEF Weights
    <3> QED  BY <1>0, <1>1, <1>2, <1>4, <2>2, <2>4, <2>5, <3>1, <3>2 DEF LengthInv
  <2> QED
    BY <1>0, <1>1, <1>2, <2>1, <2>6 DEF StreamInv, TypeInv, Places, PlaceInv, HandlerIsInStep
<1>7. CASE ~(mul > Base * Base * Base) /\ Tail(digits) = <<>>
  <2>1. Len(digits) = 1 /\ Amount(digits) = Head(digits)
    <3>1. Len(Tail(digits)) = Len(digits) - 1 /\ Len(Tail(digits)) = 0
      BY <1>0, <1>7, AmountTail
    <3> QED  BY <1>0, <3>1, AmountTail
  <2>2. val = Length(packet)
    BY <1>0, <1>3, <1>4, <2>1
  <2>3. Dispatch(Length(packet))
    BY <1>1, <1>7, <2>2
  <2> QED  BY <1>0, <1>1, <2>3, DispatchStep
<1> QED  BY <1>5, <1>6, <1>7

LEMMA RecvStep == StreamInv /\ Recv => StreamInv'
<1> SUFFICES ASSUME StreamInv, Recv PROVE StreamInv'
  OBVIOUS
<1>1. PICK bytes \in 0..want :
        /\ passed' = passed + bytes
        /\ IF bytes = want THEN Continue ELSE want' = want - bytes /\ UNCHANGED <<at, toRead>>
  BY DEF Recv
<1>2. at \notin {"type", "length", "left", "astray"} /\ UNCHANGED <<packet, digits, value>>
  BY DEF Recv
<1>3. /\ packet \in Packets /\ passed \in Nat /\ want \in Nat /\ toRead \in Nat
      /\ at \in Places /\ bytes \in Nat /\ bytes <= want /\ Length(packet) \in Nat
  BY <1>1, PacketType DEF StreamInv, TypeInv
<1>4. Length(packet)' = Length(packet) /\ Start' = Start /\ passed' \in Nat
  BY <1>1, <1>2, <1>3 DEF Length, Start
<1>5. Start \in {0, 10} /\ (packet.type = "connect" => Start = 10)
        /\ (packet.type = "publish" => Start = 0)
  BY DEF Start
<1>6. /\ packet.string \in Nat /\ packet.id \in Nat /\ packet.body \in Nat
      /\ packet.type = "connect" => Length(packet) = 12 + packet.string + packet.body
      /\ packet.type = "publish" => Length(packet) = 2 + packet.string + packet.id + packet.body
  BY <1>3, PacketType
<1>7. CASE bytes # want
  <2>1. want' = want - bytes /\ UNCHANGED <<at, toRead>> /\ want' \in Nat
    BY <1>1, <1>3, <1>7
  <2>3. passed' + want' = passed + want /\ packet' = packet /\ Length(packet') = Length(packet)
    BY <1>1, <1>2, <1>3, <2>1
  <2>4. passed' = passed + bytes
    BY <1>1
  <2>p. PlaceInv /\ Start \in Nat
    BY <1>5 DEF StreamInv
  <2>5. PlaceInv'
    <3>1. CASE at = "protocol"
      <4>1. packet.type = "connect" /\ toRead = Length(packet) /\ passed = 7 - want
        BY <2>p, <3>1, Zenon DEF PlaceInv
      <4>2. passed' = 7 - want'
        BY <1>3, <2>1, <2>3, <2>4, <2>p, <4>1
      <4>3. at' = "protocol" /\ toRead' = toRead
        BY <2>1, <3>1
      <4> QED  BY <1>4, <2>3, <4>1, <4>2, <4>3 DEF PlaceInv
    <3>2. CASE at = "flags"
      <4>1. packet.type = "connect" /\ toRead = Length(packet) - 7 /\ passed = 10 - want
        BY <2>p, <3>2, Zenon DEF PlaceInv
      <4>2. passed' = 10 - want'
        BY <1>3, <2>1, <2>3, <2>4, <2>p, <4>1
      <4>3. at' = "flags" /\ toRead' = toRead
        BY <2>1, <3>2
      <4> QED  BY <1>4, <2>3, <4>1, <4>2, <4>3 DEF PlaceInv
    <3>3. CASE at = "string"
      <4>1. packet.type \in {"connect", "publish"} /\ toRead = Length(packet) - Start
              /\ passed = Start + 2 - want
        BY <2>p, <3>3, Zenon DEF PlaceInv
      <4>2. passed' = Start + 2 - want'
        BY <1>3, <2>1, <2>3, <2>4, <2>p, <4>1
      <4>3. at' = "string" /\ toRead' = toRead
        BY <2>1, <3>3
      <4> QED  BY <1>4, <2>3, <4>1, <4>2, <4>3 DEF PlaceInv
    <3>4. CASE at = "characters"
      BY <1>3, <1>4, <1>6, <2>1, <2>3, <2>p, <3>4 DEF PlaceInv
    <3>5. CASE at = "packet id"
      BY <1>3, <1>4, <2>1, <2>3, <2>p, <3>5 DEF PlaceInv
    <3>6. CASE at = "body"
      BY <1>3, <1>4, <2>1, <2>3, <2>p, <3>6 DEF PlaceInv
    <3>7. CASE at = "rest"
      BY <1>3, <1>4, <2>1, <2>3, <2>p, <3>7 DEF PlaceInv
    <3> QED
      BY <1>2, <1>3, <3>1, <3>2, <3>3, <3>4, <3>5, <3>6, <3>7 DEF Places
  <2>6. passed + want <= Length(packet)
    <3>1. CASE at = "protocol"
      <4>1. packet.type = "connect" /\ passed = 7 - want
        BY <2>p, <3>1, Zenon DEF PlaceInv
      <4> QED  BY <1>3, <1>6, <4>1
    <3>2. CASE at = "flags"
      <4>1. packet.type = "connect" /\ passed = 10 - want
        BY <2>p, <3>2, Zenon DEF PlaceInv
      <4> QED  BY <1>3, <1>6, <4>1
    <3>3. CASE at = "string"
      BY <1>3, <1>5, <1>6, <2>p, <3>3 DEF PlaceInv
    <3>4. CASE at = "characters"
      BY <1>3, <1>5, <1>6, <2>p, <3>4 DEF PlaceInv
    <3>5. CASE at = "packet id"
      <4>1. passed + want = Length(packet) - packet.body
        BY <2>p, <3>5, Zenon DEF PlaceInv
      <4> QED  BY <1>3, <1>6, <4>1
    <3>6. CASE at = "body"
      <4>1. passed + want + toRead = Length(packet)
        BY <2>p, <3>6, Zenon DEF PlaceInv
      <4> QED  BY <1>3, <4>1
    <3>7. CASE at = "rest"
      <4>1. passed + want = Length(packet)
        BY <2>p, <3>7, Zenon DEF PlaceInv
      <4> QED  BY <1>3, <4>1
    <3> QED
      BY <1>2, <1>3, <3>1, <3>2, <3>3, <3>4, <3>5, <3>6, <3>7 DEF Places
  <2>7. passed' <= Length(packet')
    BY <1>1, <1>3, <2>3, <2>6
  <2> QED
    BY <1>2, <1>3, <1>4, <2>1, <2>3, <2>5, <2>7, Settled
<1>8. CASE bytes = want
  <2>0. Continue /\ passed' = passed + want
    BY <1>1, <1>8
  <2>1. CASE at = "protocol"
    <3>1. packet.type = "connect" /\ toRead = Length(packet) /\ passed' = 7 /\ toRead >= 12
      BY <1>3, <1>6, <2>0, <2>1 DEF StreamInv, PlaceInv
    <3>2. toRead' = toRead - 7 /\ at' = "flags" /\ want' = 3
      BY <1>3, <2>0, <2>1, <3>1 DEF Continue, Reads
    <3>3. at' \in Places /\ at' # "length" /\ at' # "type"
      BY <3>2 DEF Places
    <3>4. packet' \in Packets /\ want' \in Nat /\ toRead' \in Nat
      BY <1>2, <1>3, <3>1, <3>2
    <3>5. Length(packet') = Length(packet) /\ passed' <= Length(packet')
      BY <1>2, <1>3, <3>1
    <3>6. PlaceInv'
      BY <1>2, <3>1, <3>2, <3>5 DEF PlaceInv
    <3> QED  BY <1>4, <3>3, <3>4, <3>5, <3>6, Settled
  <2>2. CASE at = "flags"
    <3>1. packet.type = "connect" /\ toRead = Length(packet) - 7 /\ passed' = 10
            /\ Length(packet) >= 12
      BY <1>3, <1>6, <2>0, <2>2 DEF StreamInv, PlaceInv
    <3>2. toRead' = toRead - 3 /\ at' = "string" /\ want' = 2
      BY <2>0, <2>2 DEF Continue, Reads
    <3>3. at' \in Places /\ at' # "length" /\ at' # "type"
      BY <3>2 DEF Places
    <3>4. packet' \in Packets /\ want' \in Nat /\ toRead' \in Nat
      BY <1>2, <1>3, <3>1, <3>2
    <3>5. Length(packet') = Length(packet) /\ passed' <= Length(packet') /\ Start' = 10
      BY <1>2, <1>3, <1>4, <1>5, <3>1
    <3>6. PlaceInv'
      BY <1>2, <1>3, <3>1, <3>2, <3>5 DEF PlaceInv
    <3> QED  BY <1>4, <3>3, <3>4, <3>5, <3>6, Settled
  <2>3. CASE at = "string"
    <3>1. packet.type \in {"connect", "publish"} /\ toRead = Length(packet) - Start
            /\ passed' = Start + 2
      BY <1>3, <1>5, <2>0, <2>3 DEF StreamInv, PlaceInv
    <3>2. ReadString
      BY <2>0, <2>3 DEF Continue
    <3>3. CASE packet.string = 0
      <4>1. AfterString(toRead - 2) /\ toRead - 2 = Length(packet) - Start - 2 - packet.string
        BY <1>3, <1>5, <3>1, <3>2, <3>3 DEF ReadString
      <4>2. passed' = Start + 2 + packet.string
        BY <1>5, <3>1, <3>3
      <4> QED  BY <1>2, <3>1, <4>1, <4>2, AfterTheString
    <3>4. CASE packet.string # 0
      <4>1. at' = "characters" /\ want' = packet.string /\ toRead' = toRead
        BY <3>2, <3>4 DEF ReadString, Reads
      <4>2. at' \in Places /\ at' # "length" /\ at' # "type"
        BY <4>1 DEF Places
      <4>3. packet' \in Packets /\ want' \in Nat /\ toRead' \in Nat
        BY <1>2, <1>3, <1>6, <4>1
      <4>4. Length(packet') = Length(packet) /\ packet' = packet
        BY <1>2
      <4>5. passed' <= Length(packet')
        BY <1>3, <1>5, <1>6, <3>1, <4>4
      <4>6. PlaceInv'
        BY <1>4, <1>5, <1>6, <3>1, <4>1, <4>4 DEF PlaceInv
      <4> QED  BY <1>4, <4>2, <4>3, <4>5, <4>6, Settled
    <3> QED  BY <3>3, <3>4
  <2>4. CASE at = "characters"
    <3>1. packet.type \in {"connect", "publish"} /\ toRead = Length(packet) - Start
            /\ passed' = Start + 2 + packet.string
      BY <1>3, <1>5, <1>6, <2>0, <2>4 DEF StreamInv, PlaceInv
    <3>2. AfterString(toRead - 2 - packet.string)
      BY <2>0, <2>4 DEF Continue
    <3> QED  BY <1>2, <3>1, <3>2, AfterTheString
  <2>5. CASE at = "packet id"
    <3>1. packet.type = "publish" /\ toRead = packet.body
            /\ passed' = Length(packet) - packet.body
      BY <1>3, <1>6, <2>0, <2>5 DEF StreamInv, PlaceInv
    <3>2. Payload(toRead)
      BY <2>0, <2>5 DEF Continue
    <3> QED  BY <1>2, <1>4, <3>1, <3>2, AfterPayload
  <2>6. CASE at \in {"body", "rest"}
    <3>1. at' = "type" /\ want' = 1 /\ toRead' = toRead
      BY <2>0, <2>6 DEF Continue, Reads
    <3>2. /\ passed' <= Length(packet)
          /\ \/ passed' = Length(packet)
             \/ packet.type = "publish" /\ packet.body >= BodySize
      <4>1. CASE at = "body"
        BY <1>3, <2>0, <4>1 DEF StreamInv, PlaceInv
      <4>2. CASE at = "rest"
        BY <1>3, <2>0, <4>2 DEF StreamInv, PlaceInv
      <4> QED  BY <2>6, <4>1, <4>2
    <3>3. HandlerIsInStep'
      BY <1>2, <1>4, <3>2 DEF HandlerIsInStep
    <3> QED  BY <1>2, <1>3, <1>4, <3>1, <3>3, Between
  <2> QED  BY <1>2, <1>3, <2>1, <2>2, <2>3, <2>4, <2>5, <2>6 DEF Places
<1> QED  BY <1>7, <1>8

LEMMA StreamStep == StreamInv /\ [Next]_vars => StreamInv'
<1> SUFFICES ASSUME StreamInv, [Next]_vars PROVE StreamInv'
  OBVIOUS
<1>1. CASE RecvFails \/ GoesAstray
  <2>1. at' \in {"left", "astray"} /\ UNCHANGED <<packet, digits, passed, want, value, toRead>>
    <3>1. CASE RecvFails
      BY <3>1 DEF RecvFails
    <3>2. CASE GoesAstray
      BY <3>2 DEF GoesAstray
    <3> QED  BY <1>1, <3>1, <3>2
  <2>2. Length(packet)' = Length(packet)
    BY <2>1 DEF Length
  <2>3. packet \in Packets /\ passed \in Nat /\ want \in Nat /\ toRead \in Nat
          /\ passed <= Length(packet)
    BY DEF StreamInv, TypeInv, HandlerIsInStep
  <2>4. HandlerIsInStep'
    BY <2>1, <2>2, <2>3 DEF HandlerIsInStep
  <2> QED  BY <2>1, <2>3, <2>4, Between
<1>2. CASE UNCHANGED vars
  <2>1. Length(packet)' = Length(packet) /\ Amount(digits)' = Amount(digits) /\ Start' = Start
    BY <1>2 DEF vars, Length, Amount, Start
  <2> QED
    BY <1>2, <2>1 DEF vars, StreamInv, TypeInv, LengthInv, PlaceInv, HandlerIsInStep
<1> QED
  BY <1>1, <1>2, BeginStep, DecodeStep, RecvStep DEF Next

(* The handler stays in step with the stream: when it reads the type of a  *)
(* packet it stands at the start of one, unless the payload before was too *)
(* long for JSON_BUF_SIZE, and it never reads beyond the packet it is in;  *)
(* for every base, every size of the arrays, every length and every way    *)
(* the bytes come in.                                                      *)
THEOREM HandlersStayInStep == Spec => []HandlerIsInStep
<1>1. StreamInv => HandlerIsInStep
  BY DEF StreamInv
<1> QED  BY <1>1, StreamInit, StreamStep, PTL DEF Spec

=============================================================================
