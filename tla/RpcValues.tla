----------------------------- MODULE RpcValues -----------------------------
(***************************************************************************)
(* The values of an RPC as they travel (rpc/util/argsutil.go,              *)
(* utils/params_bytes.go, rpc/reply.go, the serializer of the gate in      *)
(* gate/base/mqtt_gate.go, the parameters of rpc/base/rpc_server.go):      *)
(* parameters and results are encoded as a type name and bytes, decoded on *)
(* the other side, and a caller may convert the result it got.             *)
(*                                                                         *)
(* A value is its Go type and its datum.  A byte has Radix values; an int  *)
(* of 4 or 8 bytes is a number, a float its bits.  JSON and the encoders   *)
(* of messages are opaque, but for what they lose.                         *)
(***************************************************************************)
EXTENDS Integers, Sequences

CONSTANT Radix \* values of a byte: 256 in the code

ASSUME RadixAssumption == Radix \in Nat /\ Radix > 1 /\ Radix % 2 = 0

Value(t, v) == [t |-> t, v |-> v]
Nil == Value("nil", <<>>)
NilPtr == <<>> \* the datum of a nil pointer

Encoded(type, bytes) == [type |-> type, bytes |-> bytes]
Error == [error |-> TRUE]
IsError(x) == x = Error

-----------------------------------------------------------------------------
(* params_bytes.go *)

BigEndian(u, n) == [k \in 1..n |-> (u \div Radix^(n - k)) % Radix]
LittleEndian(u, n) == [k \in 1..n |-> (u \div Radix^(k - 1)) % Radix]

FromBigEndian(b) ==
    LET f[k \in 0..Len(b)] == IF k = 0 THEN 0 ELSE Radix * f[k - 1] + b[k] IN f[Len(b)]
FromLittleEndian(b) == FromBigEndian([k \in DOMAIN b |-> b[Len(b) + 1 - k]])

Signed(u, n) == IF 2 * u >= Radix^n THEN u - Radix^n ELSE u

BoolToBytes(v) == <<IF v THEN 1 ELSE 0>>
BytesToBool(b) == b[1] # 0
Int32ToBytes(i) == BigEndian(i % Radix^4, 4)
BytesToInt32(b) == Signed(FromBigEndian(b), 4)
Int64ToBytes(i) == BigEndian(i % Radix^8, 8)
BytesToInt64(b) == Signed(FromBigEndian(b), 8)
Float32ToBytes(bits) == LittleEndian(bits, 4)
BytesToFloat32(b) == FromLittleEndian(b)
Float64ToBytes(bits) == LittleEndian(bits, 8)
BytesToFloat64(b) == FromLittleEndian(b)

\* A map's datum stands for a key or a value in it: a string, one that is not UTF-8
\* ("invalid"), an int, a float64 or something that JSON has no form for.  JSON does
\* not tell an int from a float64, and json.Marshal writes U+FFFD for what is not UTF-8
\* ("replaced") and reports no error.
Marshalable(m) == m # "other"
JSONString(m) == IF m = "invalid" THEN "replaced" ELSE m
MapToBytes(m) == <<JSONString(m)>>
BytesToMap(b) == IF b[1] = "int" THEN "float64" ELSE b[1]
MapToBytesString(m) == <<JSONString(m)>>
BytesToMapString(b) == b[1]

-----------------------------------------------------------------------------
(* The serializer of the gate, for sessions and ProtocolMarshal.  A process *)
(* has it registered (reg) if a gate is among the modules of its app.       *)

\* The datum of a session: its identity and settings, its span and its topic.  Clone
\* gives the copy a new span and no topic.
SessionData(id, span, topic) == <<id, span, topic>>
TopicIn(s) == s[3]
Clone(s) == SessionData(s[1], "new", <<>>)

Pointers == {"session", "protocolMarshal", "proto", "marshaler", "pointer"}

Serialize(reg, a) ==
    CASE ~reg -> Error
      [] a.t = "session" /\ a.v # NilPtr -> Encoded("SESSION", a.v)
      [] a.t = "protocolMarshal" /\ a.v # NilPtr -> Encoded("ProtocolMarshal", a.v)
      [] OTHER -> Error

Deserialize(reg, type, bytes) ==
    CASE ~reg -> Error
      [] type = "SESSION" -> Value("session", Clone(bytes))
      [] type = "ProtocolMarshal" -> Value("protocolMarshal", bytes)
      [] OTHER -> Error

-----------------------------------------------------------------------------
(* argsutil.go *)

\* Values of other types: what the serializer takes, then messages by pointer.  A nil
\* pointer is null; values of other types are refused (int and structs among them).
\* The session is a Marshaler too, but the serializer comes first.
Other2Bytes(reg, a) ==
    IF ~IsError(Serialize(reg, a)) THEN Serialize(reg, a)
    ELSE IF a.t \notin Pointers THEN Error
    ELSE IF a.v = NilPtr THEN Encoded("null", <<>>)
    ELSE IF a.t = "proto" THEN Encoded("proto@T", a.v)
    ELSE IF a.t \in {"marshaler", "session"} THEN Encoded("marshal@T", a.v)
    ELSE Error

ArgsTypeAnd2Bytes(reg, a) ==
    CASE a.t = "nil" -> Encoded("null", <<>>)
      [] a.t \in {"bytes", "string"} -> Encoded(a.t, a.v)
      [] a.t = "bool" -> Encoded("bool", BoolToBytes(a.v))
      [] a.t = "int32" -> Encoded("int", Int32ToBytes(a.v))
      [] a.t = "int64" -> Encoded("long", Int64ToBytes(a.v))
      [] a.t = "float32" -> Encoded("float", Float32ToBytes(a.v))
      [] a.t = "float64" -> Encoded("double", Float64ToBytes(a.v))
      [] a.t = "map" -> IF Marshalable(a.v) THEN Encoded("map", MapToBytes(a.v)) ELSE Error
      [] a.t = "mapstr" -> Encoded("mapstr", MapToBytesString(a.v))
      [] a.t = "trace" -> Encoded("trace", a.v)
      [] OTHER -> Other2Bytes(reg, a)

\* Messages stay bytes here.  The span of a trace is replaced by a new one.
Bytes2Args(reg, type, bytes) ==
    CASE type \in {"marshal@T", "proto@T"} -> Value("bytes", bytes)
      [] type = "null" -> Nil
      [] type \in {"string", "bytes"} -> Value(type, bytes)
      [] type = "bool" -> Value("bool", BytesToBool(bytes))
      [] type = "int" -> Value("int32", BytesToInt32(bytes))
      [] type = "long" -> Value("int64", BytesToInt64(bytes))
      [] type = "float" -> Value("float32", BytesToFloat32(bytes))
      [] type = "double" -> Value("float64", BytesToFloat64(bytes))
      [] type = "map" -> Value("map", BytesToMap(bytes))
      [] type = "mapstr" -> Value("mapstr", BytesToMapString(bytes))
      [] type = "trace" -> Value("trace", <<bytes[1], "new">>)
      [] OTHER -> Deserialize(reg, type, bytes)

\* _runFunc: a parameter of type p is unmarshalled by its own type when it is a message,
\* whatever the type name says; bytes for another type are taken as JSON (opaque
\* here: not JSON), and Call panics on a value that is not assignable.
Param(reg, p, e) ==
    IF p \in {"proto", "marshaler"} THEN Value(p, IF e.bytes = <<>> THEN <<"empty">> ELSE e.bytes)
    ELSE LET v == Bytes2Args(reg, e.type, e.bytes)
         IN  IF IsError(v) \/ v.t \in {"nil", p} THEN v ELSE Error

\* RPCClient.Call and CallNR encode the parameters in order; the first that cannot be
\* encoded ends the call before anything is sent.
EncodeParams(reg, params) ==
    LET e == [k \in DOMAIN params |-> ArgsTypeAnd2Bytes(reg, params[k])]
    IN  [err |-> \E k \in DOMAIN e : IsError(e[k]), args |-> e]

\* CallArgs: the result of a call that was answered
Result(reg, e) == Bytes2Args(reg, e.type, e.bytes)

-----------------------------------------------------------------------------
(* reply.go: a result of the wanted type, ErrNil for nil, an error for the rest *)

Reply(wanted, reply) == IF ~IsError(reply) /\ reply.t = wanted THEN reply ELSE Error

ReplyInt(reply) == Reply("int64", reply)
Int64(reply) == Reply("int64", reply)
Float64(reply) == Reply("float64", reply)
String(reply) == Reply("string", reply)
Bytes(reply) == Reply("bytes", reply)
Bool(reply) == Reply("bool", reply)
StringMap(reply) == Reply("mapstr", reply)
InterfaceMap(reply) == Reply("map", reply)
\* Into a message the caller gives
Marshal(reply) == IF IsError(Bytes(reply)) THEN Error ELSE Value("marshaler", reply.v)
Proto(reply) == IF IsError(Bytes(reply)) THEN Error ELSE Value("proto", reply.v)

-----------------------------------------------------------------------------
(* Values at the boundaries of their types *)

Half(n) == Radix^n \div 2
Ints(n) == {-Half(n), -Half(n) + 1, -Radix, -1, 0, 1, Radix - 1, Radix, Half(n) - 1}
Bits(n) == {0, 1, Radix, Half(n), Radix^n - 1}

Boundaries ==
    {Nil} \cup {Value("bool", v) : v \in BOOLEAN}
    \cup {Value("int32", i) : i \in Ints(4)} \cup {Value("int64", i) : i \in Ints(8)}
    \cup {Value("float32", f) : f \in Bits(4)} \cup {Value("float64", f) : f \in Bits(8)}
    \cup {Value(t, b) : t \in {"bytes", "string"}, b \in {<<>>, <<0>>, <<1, 0>>}}
    \cup {Value("map", m) : m \in {"string", "invalid", "int", "float64", "other"}}
    \cup {Value("mapstr", m) : m \in {"string", "invalid"}}
    \cup {Value("trace", <<"root", "span">>), Value("session", SessionData("s", "span", <<1>>))}
    \cup {Value(t, <<"data">>) : t \in Pointers \ {"session"}}
    \cup {Value(t, NilPtr) : t \in Pointers}
    \cup {Value("int", <<1>>), Value("struct", <<1>>)}

\* Values no type name exists for
Refused == {"int", "struct", "pointer"}

\* What JSON and Clone make of a value on its way: a number in a map is a float64, a
\* string in a map that is not UTF-8 is another one, a trace has a new span, a session a
\* new span and no topic.  Any other value is the same on the other side.
Travelled(a) ==
    CASE a.t \in {"map", "mapstr"} /\ a.v = "invalid" -> Value(a.t, "replaced")
      [] a.t = "map" /\ a.v = "int" -> Value("map", "float64")
      [] a.t = "trace" -> Value("trace", <<a.v[1], "new">>)
      [] a.t = "session" -> Value("session", SessionData(a.v[1], "new", <<>>))
      [] OTHER -> a

\* What a parameter looks like to a handler that declares its type.  A nil pointer to a
\* message is an empty message.  Without the serializer (reg) no handler gets a session.
AsParam(reg, a) ==
    CASE a.t \in {"proto", "marshaler"} /\ a.v = NilPtr -> Value(a.t, <<"empty">>)
      [] a.t \in Pointers \ {"proto", "marshaler"} /\ a.v = NilPtr -> Nil
      [] ~reg /\ a.t \in {"session", "protocolMarshal"} /\ a.v # NilPtr -> Error
      [] OTHER -> Travelled(a)

Unencodable(a) == (a.t \in Refused /\ a.v # NilPtr) \/ (a.t = "map" /\ ~Marshalable(a.v))

\* What the caller gets from a handler that returns a: messages as bytes, and so a
\* session, if the process of the handler has no serializer.
AsResult(reg, a) ==
    CASE Unencodable(a) -> Error
      [] a.t \in Pointers /\ a.v = NilPtr -> Nil
      [] a.t \in {"proto", "marshaler"} /\ a.v # NilPtr -> Value("bytes", a.v)
      [] ~reg /\ a.t = "session" /\ a.v # NilPtr -> Value("bytes", a.v)
      [] ~reg /\ a.t = "protocolMarshal" /\ a.v # NilPtr -> Error
      [] OTHER -> Travelled(a)

\* A value given to Call by a process with the serializer arrives at a handler that
\* declares its type as AsParam says, or Call refuses it.
ParamAsGiven(reg, a) ==
    LET e == EncodeParams(TRUE, <<a>>)
    IN  IF Unencodable(a) THEN e.err
        ELSE ~e.err /\ Param(reg, a.t, e.args[1]) = AsParam(reg, a)

\* What a caller gets from a result with the converter for its type is the result of the
\* handler as AsResult says, and every other converter gives an error.
ReplyAsReturned(reg, a) ==
    LET e == ArgsTypeAnd2Bytes(reg, a)
        r == IF IsError(e) THEN Error ELSE Result(TRUE, e)
        res == AsResult(reg, a)
        Of(t) == ~IsError(res) /\ res.t = t
        Only(t, x) == x = IF Of(t) THEN res ELSE Error
    IN  /\ Only("int64", ReplyInt(r)) /\ Only("int64", Int64(r))
        /\ Only("float64", Float64(r)) /\ Only("string", String(r))
        /\ Only("bytes", Bytes(r)) /\ Only("bool", Bool(r))
        /\ Only("mapstr", StringMap(r)) /\ Only("map", InterfaceMap(r))
        /\ Proto(r) = IF Of("bytes") THEN Value("proto", res.v) ELSE Error
        /\ Marshal(r) = IF Of("bytes") THEN Value("marshaler", res.v) ELSE Error
=============================================================================
