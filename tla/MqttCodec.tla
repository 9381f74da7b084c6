----------------------------- MODULE MqttCodec -----------------------------
(***************************************************************************)
(* The MQTT packs of gate/base/mqtt/mqtt.go as bytes: ReadPack, which      *)
(* takes one pack from a stream, and DelayWritePack, which writes one.     *)
(*                                                                         *)
(* A stream is a sequence of bytes.  The reading operators take a position *)
(* in it and say where they stop; a byte that is not there reads as 0, and *)
(* a result whose "end" lies beyond the stream is one the code does not    *)
(* get: it waits for the missing bytes, or sees the end of the stream.     *)
(***************************************************************************)
EXTENDS Integers, Sequences

CONSTANT MaxPackLength \* max_pack_length (MaxPackSize, 65535 by default)

ASSUME MaxPackAssumption == MaxPackLength \in Nat

CONNECT == 1
CONNACK == 2
PUBLISH == 3
PUBACK == 4
PUBREC == 5
PUBREL == 6
PUBCOMP == 7
SUBSCRIBE == 8
SUBACK == 9
UNSUBSCRIBE == 10
UNSUBACK == 11
PINGREQ == 12
PINGRESP == 13
DISCONNECT == 14

Acks == {PUBACK, PUBREC, PUBREL, PUBCOMP, UNSUBACK}

\* A Pack: its type, the flags of the fixed header and the variable part
Pack(type, dup, qos, variable) ==
    [type |-> type, dup |-> dup, qos |-> qos, variable |-> variable]

NoVariable == [nil |-> TRUE]

-----------------------------------------------------------------------------
(* Numbers and strings *)

Byte(b, i) == IF i \in DOMAIN b THEN b[i] ELSE 0

readInt(b, i) == 256 * Byte(b, i) + Byte(b, i + 1)

\* A string and its length n; next is the position after it
readString(b, i) ==
    LET n == readInt(b, i)
    IN  [n |-> n, s |-> [k \in 1..n |-> Byte(b, i + 1 + k)], next |-> i + 2 + n]

\* uint16: what is longer is cut
writeInt(n) == <<(n \div 256) % 256, n % 256>>

writeString(s) == writeInt(Len(s)) \o s

\* Seven bits of the length at a time, the lowest first
getRemainingLength[n \in Nat] ==
    IF n < 128 THEN <<n>> ELSE <<128 + (n % 128)>> \o getRemainingLength[n \div 128]

\* The loop over the bytes of the length stops at the third.
lengthBytes(b) ==
    IF Byte(b, 2) < 128 THEN 1 ELSE IF Byte(b, 3) < 128 THEN 2 ELSE 3

remainingLength(b) ==
    LET digit(k) == IF k <= lengthBytes(b) THEN Byte(b, 1 + k) % 128 ELSE 0
    IN  digit(1) + 128 * digit(2) + 128 * 128 * digit(3)

-----------------------------------------------------------------------------
(* ReadPack.  A reading result: the last byte taken, whether an error is   *)
(* returned, and the pack.  "lax": the end of the stream is not an error   *)
(* once that many bytes are there.                                         *)

Taken(end, pack) == [end |-> end, err |-> FALSE, pack |-> pack, lax |-> FALSE, from |-> end]
Failed(end, pack) == [Taken(end, pack) EXCEPT !.err = TRUE]

parse_flags(f) ==
    [user_name |-> f \div 128 = 1,
     password |-> (f \div 64) % 2 = 1,
     will_flag |-> (f \div 4) % 2 = 1,
     clean_session |-> (f \div 2) % 2 = 1]

\* An optional string of CONNECT, or nothing
optString(present, b, i) ==
    IF present THEN readString(b, i) ELSE [n |-> 0, s |-> <<>>, next |-> i]

\* payload counts down what is left, without the two length bytes of each string.
\* The identifier is refused with return_code 2 when it is empty or longer than 64.
readConnect(b, i, h) ==
    LET protocol == readString(b, i)
        j == protocol.next
        flags == parse_flags(Byte(b, j + 1))
        id == readString(b, j + 4)
        payload == h.length - 2 - protocol.n - 4 - id.n
        topic == optString(flags.will_flag, b, id.next)
        msg == optString(flags.will_flag, b, topic.next)
        left == payload - topic.n - msg.n
        uname == optString(flags.user_name /\ left > 0, b, msg.next)
        left2 == left - uname.n
        upassword == optString(flags.password /\ left2 > 0, b, uname.next)
        conn == [protocol |-> protocol.s, version |-> Byte(b, j), flags |-> flags,
                 keep_alive_timer |-> readInt(b, j + 2), id |-> id.s,
                 will |-> <<topic.s, msg.s>>, uname |-> uname.s, upassword |-> upassword.s]
        pack == Pack(CONNECT, h.dup, h.qos, conn)
    IN  IF protocol.n > h.length - 4 THEN Failed(protocol.next - 1, pack)
        ELSE IF id.n > 64 \/ id.n < 1 THEN Failed(id.next - 1, pack)
        ELSE IF flags.will_flag /\ payload - topic.n < 0 THEN Failed(topic.next - 1, pack)
        ELSE IF flags.user_name /\ left > 0 /\ left2 < 0 THEN Failed(uname.next - 1, pack)
        ELSE IF flags.password /\ left2 > 0 /\ left2 - upassword.n < 0
             THEN Failed(upassword.next - 1, pack)
        ELSE Taken(upassword.next - 1, pack)

readPublish(b, i, h) ==
    LET topic == readString(b, i)
        vlen == h.length - topic.n - 2
        id == IF h.qos > 0 THEN 2 ELSE 0
        size == IF vlen - id > 0 THEN vlen - id ELSE 0
        msg == [k \in 1..size |-> Byte(b, topic.next + id + k - 1)]
        pub == [topic_name |-> topic.s, msg |-> msg,
                mid |-> IF h.qos > 0 THEN readInt(b, topic.next) ELSE 0]
    IN  IF topic.n < 1 \/ (h.qos > 0 /\ vlen < 2)
        THEN Failed(topic.next - 1, Pack(PUBLISH, h.dup, h.qos, NoVariable))
        ELSE Taken(topic.next + id + size - 1, Pack(PUBLISH, h.dup, h.qos, pub))

\* The packs that consist of a message id, and SUBACK with a QoS
readAck(b, i, h) ==
    IF h.length # 2 THEN Failed(i - 1, Pack(h.type, h.dup, h.qos, NoVariable))
    ELSE Taken(i + 1, Pack(h.type, h.dup, h.qos, [mid |-> readInt(b, i)]))

readSuback(b, i, h) ==
    IF h.length # 3 THEN Failed(i - 1, Pack(SUBACK, h.dup, h.qos, NoVariable))
    ELSE Taken(i + 2, Pack(SUBACK, h.dup, h.qos,
                           [mid |-> readInt(b, i), Qos |-> Byte(b, i + 2)]))

\* The topics of SUBSCRIBE (q = 1: each with a QoS) and of UNSUBSCRIBE (q = 0), while
\* more than 3 of vlen bytes are left.  The loop has an err of its own: it stops where
\* the bytes end, and UNSUBSCRIBE keeps a name of which bytes are missing.
readTopics(b, i, vlen, q) ==
    LET from[j \in Nat, left \in Int] ==
            LET top == readString(b, j)
                rest == from[top.next + q, left - 2 - top.n - q]
                topic == [name |-> top.s, Qos |-> IF q = 1 THEN Byte(b, top.next) ELSE 0]
            IN  IF left <= 3 THEN [topics |-> <<>>, end |-> j - 1]
                ELSE IF j + 1 > Len(b) THEN [topics |-> <<>>, end |-> j + 1]
                ELSE IF q = 1 /\ top.next > Len(b) THEN [topics |-> <<>>, end |-> top.next]
                ELSE [topics |-> <<topic>> \o rest.topics, end |-> rest.end]
    IN  from[i, vlen]

\* r: what readTopics has found.  Only a missing message id is an error.
Topics(b, i, h, r) ==
    [end |-> r.end, err |-> FALSE, lax |-> TRUE, from |-> i + 1,
     pack |-> Pack(h.type, h.dup, h.qos, [mid |-> readInt(b, i), topics |-> r.topics])]

readSubscribe(b, i, h) == Topics(b, i, h, readTopics(b, i + 2, h.length, 1))
readUnsubscribe(b, i, h) == Topics(b, i, h, readTopics(b, i + 2, h.length, 0))

\* The variable part by the type of the pack.  PINGREQ and DISCONNECT are left alone;
\* of a type the gate does not know (CONNACK, PINGRESP, ...) the bytes are skipped.
ReadPack(b) ==
    LET first == Byte(b, 1)
        i == 2 + lengthBytes(b)
        h == [type |-> first \div 16, dup |-> (first \div 8) % 2, qos |-> (first \div 2) % 4,
              length |-> remainingLength(b)]
        empty == Pack(h.type, h.dup, h.qos, NoVariable)
    IN  IF h.length > MaxPackLength THEN Failed(i - 1, empty)
        ELSE CASE h.type = CONNECT -> readConnect(b, i, h)
               [] h.type = PUBLISH -> readPublish(b, i, h)
               [] h.type \in Acks -> readAck(b, i, h)
               [] h.type = SUBACK -> readSuback(b, i, h)
               [] h.type = SUBSCRIBE -> readSubscribe(b, i, h)
               [] h.type = UNSUBSCRIBE -> readUnsubscribe(b, i, h)
               [] h.type \in {PINGREQ, DISCONNECT} -> Taken(i - 1, empty)
               [] OTHER -> Taken(i - 1 + h.length, empty)

-----------------------------------------------------------------------------
(* DelayWritePack and the packs the gate builds.  (No pack of type         *)
(* SUBSCRIBE or UNSUBSCRIBE is built anywhere.)                            *)

writePublish(qos, pub) ==
    LET id == IF qos > 0 THEN writeInt(pub.mid) ELSE <<>>
    IN  getRemainingLength[2 + Len(id) + Len(pub.topic_name) + Len(pub.msg)]
        \o writeString(pub.topic_name) \o id \o pub.msg

writeConnack(ack) == <<2, 0, ack.return_code>>
writeAck(ack) == <<2>> \o writeInt(ack.mid)
writeSuback(ack) == <<3>> \o writeInt(ack.mid) \o <<ack.Qos>>

\* Mutant of DelayWritePack: the length of PUBLISH is one byte.
DelayWritePack_OneByte(p) ==
    LET body == writeString(p.variable.topic_name) \o p.variable.msg
    IN  <<16 * p.type + 8 * p.dup + 2 * p.qos>> \o
        (CASE p.type = CONNACK -> writeConnack(p.variable)
          [] p.type = PUBLISH -> <<getRemainingLength[Len(body)][1]>> \o body
          [] p.type \in Acks -> writeAck(p.variable)
          [] p.type = SUBACK -> writeSuback(p.variable)
          [] p.type = PINGRESP -> <<0>>)

DelayWritePack(p) ==
    <<16 * p.type + 8 * p.dup + 2 * p.qos>> \o
    (CASE p.type = CONNACK -> writeConnack(p.variable)
      [] p.type = PUBLISH -> writePublish(p.qos, p.variable)
      [] p.type \in Acks -> writeAck(p.variable)
      [] p.type = SUBACK -> writeSuback(p.variable)
      [] p.type = PINGRESP -> <<0>>)

GetConnAckPack(code) == Pack(CONNACK, 0, 0, [return_code |-> code])
GetPubPack(qos, dup, mid, topic, msg) ==
    Pack(PUBLISH, dup, qos, [topic_name |-> topic, mid |-> mid, msg |-> msg])
GetPubAckPack(mid) == Pack(PUBACK, 0, 0, [mid |-> mid])
GetPubRECPack(mid) == Pack(PUBREC, 0, 0, [mid |-> mid])
GetPubRELPack(mid) == Pack(PUBREL, 0, 1, [mid |-> mid])
GetPubCOMPPack(mid) == Pack(PUBCOMP, 0, 0, [mid |-> mid])
GetSubAckPack(mid) == Pack(SUBACK, 0, 0, [mid |-> mid, Qos |-> 0])
GetUNSubAckPack(mid) == Pack(UNSUBACK, 0, 0, [mid |-> mid])
GetPingResp(qos, dup) == Pack(PINGRESP, dup, qos, NoVariable)
=============================================================================
