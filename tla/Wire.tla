-------------------------------- MODULE Wire --------------------------------
(***************************************************************************)
(* How a client handler of the broker takes the stream of a client apart.  *)
(*                                                                         *)
(* MQTT has no marks between packets: the handler knows where the next one *)
(* begins only because each branch reads exactly the bytes of its packet,  *)
(* by a remaining length that it decodes digit by digit, from a socket     *)
(* that returns as many bytes as have arrived.  The client is a correct    *)
(* one of MQTT 3.1.1; what the bytes say, but for lengths, is left out.    *)
(***************************************************************************)
EXTENDS Integers, Sequences

CONSTANTS
  Base,       (* 128, the base of a remaining length                         *)
  IdSize,     (* the array for the identifier of a client                    *)
  TopicSize,  (* MAX_TOPIC_LEN                                               *)
  BodySize,   (* JSON_BUF_SIZE                                               *)
  Chunk,      (* the arrays in which the rest of a packet is thrown away     *)
  Strings,    (* the lengths of identifiers and topics of the client         *)
  Bodies,     (* the lengths of its payloads                                 *)
  Others      (* the remaining lengths of its packets of other types         *)

ASSUME WireAssumption ==
  /\ Base \in Nat \ {0, 1} /\ {IdSize, TopicSize, BodySize, Chunk} \subseteq Nat \ {0}
  /\ Strings \cup Bodies \cup Others \subseteq Nat

-----------------------------------------------------------------------------
(* What a client sends.  A SUBSCRIBE is among the others, see Broker.      *)

Empty(type) == [type |-> type, string |-> 0, id |-> 0, body |-> 0]

Packets ==
  [type : {"connect"}, string : Strings, id : {0}, body : Bodies]
    \cup [type : {"publish"}, string : Strings \ {0}, id : {0, 2}, body : Bodies]
    \cup [type : {"other"}, string : {0}, id : {0}, body : Others]
    \cup {Empty("ping"), Empty("disconnect")}

(* Ten bytes of a CONNECT come before the identifier; a body follows: the  *)
(* will and the name and password, or the payload.                         *)
Length(packet) ==
  CASE packet.type = "connect" -> 10 + 2 + packet.string + packet.body
    [] packet.type = "publish" -> 2 + packet.string + packet.id + packet.body
    [] OTHER                   -> packet.body

(* The digits of a length, the last first, and at least one; MQTT has four *)
(* at most.                                                                *)
Digits(length) ==
  LET second == length \div Base
      third  == second \div Base
      fourth == third \div Base
  IN  IF second = 0 THEN <<length>>
      ELSE IF third = 0 THEN <<length % Base, second>>
      ELSE IF fourth = 0 THEN <<length % Base, second % Base, third>>
      ELSE <<length % Base, second % Base, third % Base, fourth>>

-----------------------------------------------------------------------------
VARIABLES
  packet,   (* what the client is sending                                    *)
  digits,   (* the digits of its length that are still to come               *)
  passed,   (* how many bytes after them the handler has read                *)
  at,       (* what the handler reads                                        *)
  want,     (* how many bytes of it are missing                              *)
  value,    (* val and mul, of mqtt_decode_remaining_len                     *)
  toRead    (* to_read, how many bytes the handler believes are left         *)

vars == <<packet, digits, passed, at, want, value, toRead>>

Reads(place, bytes) == at' = place /\ want' = bytes

(* recv of the type of the next packet.                                    *)
Begin ==
  /\ at = "type" /\ passed = Length(packet)
  /\ packet' \in Packets /\ digits' = Digits(Length(packet')) /\ passed' = 0
  /\ value' = [val |-> 0, mul |-> 1]
  /\ Reads("length", 1) /\ UNCHANGED toRead

(* Which branch it takes, with a remaining length.                         *)
Dispatch(length) ==
  /\ toRead' = length
  /\ CASE packet.type = "connect"    -> IF length >= 7 THEN Reads("protocol", 7)
                                        ELSE Reads("rest", length)
       [] packet.type = "publish"    -> Reads("string", 2)
       [] packet.type = "other"      -> Reads("rest", length)
       [] packet.type = "ping"       -> Reads("type", 1)
       [] packet.type = "disconnect" -> Reads("left", 0)

(* mqtt_decode_remaining_len.  The digit after the third is refused.       *)
Decode ==
  /\ at = "length"
  /\ LET val == value.val + Head(digits) * value.mul
         mul == value.mul * Base
     IN  /\ value' = [val |-> val, mul |-> mul]
         /\ digits' = Tail(digits)
         /\ IF mul > Base * Base * Base THEN Reads("left", 0) /\ UNCHANGED toRead
            ELSE IF Tail(digits) # <<>> THEN UNCHANGED <<at, want, toRead>>
            ELSE Dispatch(val)
  /\ UNCHANGED <<packet, passed>>

(* What is read next, when the bytes wanted at a place have come.          *)
Identifier == IF packet.type = "connect" THEN IdSize ELSE TopicSize

(* The payload, as far as there is room for it.                            *)
Payload(bytes) ==
  LET taken == IF bytes < BodySize - 1 THEN bytes ELSE BodySize - 1
  IN  toRead' = bytes - taken /\ IF taken = 0 THEN Reads("type", 1) ELSE Reads("body", taken)

AfterString(bytes) ==
  IF packet.type = "connect"
  THEN toRead' = bytes /\ IF bytes = 0 THEN Reads("type", 1) ELSE Reads("rest", bytes)
  ELSE IF packet.id > 0 /\ bytes >= 2
       THEN toRead' = bytes - 2 /\ Reads("packet id", 2)
       ELSE Payload(bytes)

(* Mutant: a string that does not fit is left where it is.                 *)
ReadStringThatFits ==
  IF packet.string = 0 \/ packet.string >= Identifier
  THEN AfterString(toRead - 2 - packet.string)
  ELSE Reads("characters", packet.string) /\ UNCHANGED toRead

(* mqtt_read_string has its length: the characters go to the array, or, if *)
(* there are too many, nowhere.                                            *)
ReadString ==
  IF packet.string = 0 THEN AfterString(toRead - 2)
  ELSE Reads("characters", packet.string) /\ UNCHANGED toRead

Continue ==
  CASE at = "protocol"   -> /\ toRead' = toRead - 7
                            /\ Reads(IF toRead >= 10 THEN "flags" ELSE "string",
                                     IF toRead >= 10 THEN 3 ELSE 2)
    [] at = "flags"      -> toRead' = toRead - 3 /\ Reads("string", 2)
    [] at = "string"     -> ReadString
    [] at = "characters" -> AfterString(toRead - 2 - packet.string)
    [] at = "packet id"  -> Payload(toRead)
    [] at \in {"body", "rest"} -> Reads("type", 1) /\ UNCHANGED toRead

Room == IF at = "rest" \/ (at = "characters" /\ packet.string >= Identifier) THEN Chunk ELSE want

(* recv of some of the bytes that are wanted.                              *)
Recv ==
  /\ at \notin {"type", "length", "left", "astray"}
  /\ \E bytes \in 0..want :
       /\ bytes <= Room /\ (bytes > 0 \/ want = 0)
       /\ passed' = passed + bytes
       /\ IF bytes = want THEN Continue
          ELSE want' = want - bytes /\ UNCHANGED <<at, toRead>>
  /\ UNCHANGED <<packet, digits, value>>

(* recv fails: the connection is closed or times out.  Three reads are not *)
(* looked at; when the client goes on after a time-out in one of them, what*)
(* it sends is taken for what it is not, and the model ends.               *)
RecvFails ==
  /\ at \notin {"left", "astray"}
  /\ at' \in IF at \in {"protocol", "flags", "packet id"} THEN {"left", "astray"} ELSE {"left"}
  /\ UNCHANGED <<packet, digits, passed, want, value, toRead>>

(* It takes the rest of a packet for the next one: the model ends too.     *)
GoesAstray ==
  /\ at = "type" /\ passed # Length(packet)
  /\ at' = "astray"
  /\ UNCHANGED <<packet, digits, passed, want, value, toRead>>

Init ==
  /\ packet = Empty("ping") /\ digits = <<>> /\ passed = 0
  /\ at = "type" /\ want = 1 /\ value = [val |-> 0, mul |-> 1] /\ toRead = 0

Next == Begin \/ Decode \/ Recv \/ RecvFails \/ GoesAstray

Spec == Init /\ [][Next]_vars

-----------------------------------------------------------------------------
(* Properties                                                              *)

(* The handler stays in step with the stream: when it reads the type of a  *)
(* packet it stands at the start of one, whatever the packet before was,   *)
(* however its length was written and its bytes came in, and if a string   *)
(* did not fit.  A payload that does not fit into JSON_BUF_SIZE is the one *)
(* exception: its rest is left in the stream.  And before that it never    *)
(* reads beyond the packet it is in.                                       *)
HandlerIsInStep ==
  /\ passed <= Length(packet)
  /\ at = "type" => \/ passed = Length(packet)
                    \/ packet.type = "publish" /\ packet.body >= BodySize

=============================================================================
