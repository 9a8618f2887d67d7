---------------------------- MODULE Serialization ----------------------------
(***************************************************************************)
(* The payloads of messages for shared data structures                        *)
(* (src/src/shared/SharedSerialization.cc, src/src/shared/BinarySerializer.cc): *)
(* integers of fixed width and strings behind their length.  A channel may      *)
(* hand over any other payload, here one damaged a little.                     *)
(***************************************************************************)
EXTENDS Integers, Sequences, FiniteSets, SequencesExt

CONSTANTS
  ByteBits, IntBytes,  \* bits of a byte, bytes of an integer: 8, 8
  Messages,            \* batches, requests and replies
  REQ, RESP,           \* the tags, of different lengths
  MaxDamage            \* bound on the damage to a payload

VARIABLES message, payload, damage
serializationVars == <<message, payload, damage>>

Byte == 0 .. 2 ^ ByteBits - 1
Wrap == 2 ^ (ByteBits * IntBytes)
Signed(n) == IF n >= Wrap \div 2 THEN n - Wrap ELSE n

-----------------------------------------------------------------------------
(* BinarySerializer *)

\* Big-endian, two's complement
AppendInt64(n) ==
  [i \in 1 .. IntBytes |-> ((n % Wrap) \div 2 ^ (ByteBits * (IntBytes - i))) % 2 ^ ByteBits]
AppendString(s) == AppendInt64(Len(s)) \o s

\* The map is walked in the order of its keys.
SerializeBatch(batch) ==
  LET keys == SetToSortSeq(DOMAIN batch, LAMBDA a, b : Len(a) < Len(b))
  IN AppendInt64(2 * Len(keys)) \o
     FlattenSeq([i \in DOMAIN keys |-> AppendString(keys[i]) \o AppendString(batch[keys[i]])])

SerializeRequest(uuid, contents) ==
  AppendString(REQ) \o AppendString(uuid) \o AppendString(contents)

SerializeReply(uuid, status, contents) ==
  AppendString(RESP) \o AppendString(uuid) \o AppendInt64(status) \o AppendString(contents)

Serialize(m) ==
  CASE m.kind = "batch" -> SerializeBatch(m.batch)
    [] m.kind = "request" -> SerializeRequest(m.uuid, m.contents)
    [] m.kind = "reply" -> SerializeReply(m.uuid, m.status, m.contents)

-----------------------------------------------------------------------------
(* BinaryDeserializer: source and currentPosition, good until something fails, *)
(* and what was consumed last                                                  *)

Deserializer(source) == [source |-> source, at |-> 0, good |-> TRUE, last |-> <<>>]
BytesLeft(d) == Len(d.source) - d.at
\* The size is a size_t: a negative one is huge.
CanConsume(d, n) == n % Wrap <= BytesLeft(d)
Unparsed(d) == [d EXCEPT !.good = FALSE]

ConsumeRawBytes(d, n) ==
  IF ~d.good \/ ~CanConsume(d, n) THEN Unparsed(d)
  ELSE [d EXCEPT !.last = SubSeq(d.source, d.at + 1, d.at + n), !.at = @ + n]

ConsumeInt64(d) ==
  LET raw == ConsumeRawBytes(d, IntBytes)
  IN IF ~raw.good THEN raw
     ELSE [raw EXCEPT !.last =
             Signed(FoldLeft(LAMBDA n, byte : n * 2 ^ ByteBits + byte, 0, @))]

ConsumeString(d) ==
  LET size == ConsumeInt64(d)
  IN IF ~size.good THEN size ELSE ConsumeRawBytes(size, size.last)

Refused == [kind |-> "refused"]

ParseBatch(source) ==
  LET elements == ConsumeInt64(Deserializer(source))
      step(state, i) ==
        LET d == ConsumeString(state.d) IN
        [d |-> d, key |-> d.last,
         out |-> IF d.good /\ i % 2 = 0
                 THEN [k \in DOMAIN state.out \cup {state.key} |->
                         IF k = state.key THEN d.last ELSE state.out[k]]
                 ELSE state.out]
      end == FoldLeft(step, [d |-> elements, key |-> <<>>, out |-> <<>>],
                      [i \in 1 .. elements.last |-> i])
  IN IF ~elements.good \/ elements.last < 0 \/ elements.last % 2 # 0 THEN Refused
     ELSE IF end.d.good THEN [kind |-> "batch", batch |-> end.out] ELSE Refused

ParseRequest(source) ==
  LET tag == ConsumeString(Deserializer(source))
      uuid == ConsumeString(tag)
      contents == ConsumeString(uuid)
  IN IF contents.good /\ tag.last = REQ /\ BytesLeft(contents) = 0
     THEN [kind |-> "request", uuid |-> uuid.last, contents |-> contents.last]
     ELSE Refused

\* Mutant: bytes behind the reply are not looked at.
ParseReplyPrefix(source) ==
  LET tag == ConsumeString(Deserializer(source))
      uuid == ConsumeString(tag)
      status == ConsumeInt64(uuid)
      contents == ConsumeString(status)
  IN IF contents.good /\ tag.last = RESP
     THEN [kind |-> "reply", uuid |-> uuid.last, status |-> status.last,
           contents |-> contents.last]
     ELSE Refused

ParseReply(source) ==
  LET tag == ConsumeString(Deserializer(source))
      uuid == ConsumeString(tag)
      status == ConsumeInt64(uuid)
      contents == ConsumeString(status)
  IN IF contents.good /\ tag.last = RESP /\ BytesLeft(contents) = 0
     THEN [kind |-> "reply", uuid |-> uuid.last, status |-> status.last,
           contents |-> contents.last]
     ELSE Refused

-----------------------------------------------------------------------------
SerializationInit ==
  message \in Messages /\ payload = Serialize(message) /\ damage = 0

Damage(p) == payload' = p /\ damage' = damage + 1 /\ UNCHANGED message
SerializationNext ==
  /\ damage < MaxDamage
  /\ \/ \E n \in 0 .. Len(payload) - 1 : Damage(SubSeq(payload, 1, n))
     \/ \E b \in Byte : Damage(Append(payload, b))
     \/ \E i \in DOMAIN payload, b \in Byte : Damage([payload EXCEPT ![i] = b])

-----------------------------------------------------------------------------
(* Properties *)

\* A payload is parsed to the message it was made from; a request or a reply is
\* accepted only if it is, byte for byte, the payload of what it is taken for;
\* and part of a batch is never taken for a batch.
ParsedAsSerialized ==
  LET request == ParseRequest(payload)
      reply == ParseReply(payload)
      batch == ParseBatch(payload)
      whole == Serialize(message)
  IN /\ payload = whole =>
          message = CASE message.kind = "request" -> request
                      [] message.kind = "reply" -> reply
                      [] message.kind = "batch" -> batch
     /\ request # Refused => Serialize(request) = payload
     /\ reply # Refused => Serialize(reply) = payload
     /\ (message.kind = "batch" /\ IsStrictPrefix(payload, whole)) => batch = Refused
=============================================================================
