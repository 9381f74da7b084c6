---------------------------- MODULE GateRequest ----------------------------
(***************************************************************************)
(* The requests of one client through the gate: the bytes of its packs     *)
(* (MqttCodec), the handshake of agent.Run and the packs waitPack answers, *)
(* the workers that route a PUBLISH to a module (gate/base/mqtt_agent.go,  *)
(* or gate/uriroute/uri_route.go when it is set as the route handler), the *)
(* value a module returns (RpcValues) and the answer to the client.        *)
(*                                                                         *)
(* The stream from the client may end at any byte.  Workers run at the     *)
(* same time and share the session of the connection.  How packs get       *)
(* through the write buffer is PackQueue's subject: here a pack is written *)
(* when it is handed over.                                                 *)
(***************************************************************************)
EXTENDS MqttCodec, RpcValues, FiniteSets, SequencesExt

CONSTANTS Connects,   \* CONNECT packs a client may begin with
          Packs,      \* packs it may send then
          TopicOf,    \* TopicOf[c]: what there is to a topic of the one byte c
          Results,    \* what a handler may return, besides an error
          MaxTasks,   \* bound on ConcurrentTasks
          MaxPacks    \* bound on the packs a client sends

VARIABLES
    conf,    \* the gate: uri (a URIRoute routes), parsing (it has DataParsing), tasks;
             \* registered: the module's process has the serializer of the gate
    up,      \* bytes on their way from the client
    sent,    \* packs the client has sent
    ended,   \* the client's stream has ended, maybe within a pack
    phase,   \* agent.Run: "handshake", "loop" or "closed"
    read,    \* packs read from the stream
    work,    \* work[k]: where the worker of the k-th pack read is
    topic,   \* the topic in the connection's session
    seen,    \* the calls of handlers: of which pack, with which session and argument
    wrote    \* packs written to the client, each with the pack it answers

requestVars == <<conf, up, sent, ended, phase, read, work, topic, seen, wrote>>
client == <<up, sent, ended>>

Busy == {"other", "route", "uri", "call"}

RequestInit ==
    /\ conf \in [uri : BOOLEAN, parsing : BOOLEAN, tasks : 1..MaxTasks,
                 registered : BOOLEAN]
    /\ conf.parsing => conf.uri
    /\ up = <<>> /\ sent = <<>> /\ ended = FALSE
    /\ phase = "handshake"
    /\ read = <<>>
    /\ work = <<>>
    /\ topic = <<>>
    /\ seen = <<>>
    /\ wrote = <<>>

-----------------------------------------------------------------------------
(* The client *)

FlagBits(f) == (IF f.user_name THEN 128 ELSE 0) + (IF f.password THEN 64 ELSE 0)
               + (IF f.will_flag THEN 4 ELSE 0) + (IF f.clean_session THEN 2 ELSE 0)

TopicBytes(topics, type) ==
    FlattenSeq([i \in DOMAIN topics |->
        writeString(topics[i].name)
        \o (IF type = SUBSCRIBE THEN <<topics[i].Qos>> ELSE <<>>)])

\* The variable part as MQTT has it
Body(p) ==
    LET v == p.variable
        opt(present, s) == IF present THEN writeString(s) ELSE <<>>
    IN  CASE p.type = CONNECT ->
               writeString(v.protocol) \o <<v.version, FlagBits(v.flags)>>
               \o writeInt(v.keep_alive_timer) \o writeString(v.id)
               \o opt(v.flags.will_flag, v.will[1]) \o opt(v.flags.will_flag, v.will[2])
               \o opt(v.flags.user_name, v.uname) \o opt(v.flags.password, v.upassword)
          [] p.type = PUBLISH ->
               writeString(v.topic_name)
               \o (IF p.qos > 0 THEN writeInt(v.mid) ELSE <<>>) \o v.msg
          [] p.type \in {SUBSCRIBE, UNSUBSCRIBE} ->
               writeInt(v.mid) \o TopicBytes(v.topics, p.type)
          [] p.type \in Acks -> writeInt(v.mid)
          [] OTHER -> <<>>

ClientBytes(p) == <<16 * p.type + 8 * p.dup + 2 * p.qos>>
                  \o getRemainingLength[Len(Body(p))] \o Body(p)

\* A client uses topics of the form its gate routes.
Suits(p) == p.type = PUBLISH => TopicOf[p.variable.topic_name[1]].uri = conf.uri

Send(p) ==
    /\ phase # "closed" /\ ~ended
    /\ Len(sent) < MaxPacks
    /\ p \in (IF sent = <<>> THEN Connects ELSE Packs)
    /\ Suits(p)
    /\ up' = up \o ClientBytes(p)
    /\ sent' = Append(sent, p)
    /\ UNCHANGED <<conf, ended, phase, read, work, topic, seen, wrote>>

\* The connection is cut: the last n bytes never arrive
Cut(n) ==
    /\ phase # "closed" /\ ~ended
    /\ n \in 0..Len(up)
    /\ up' = SubSeq(up, 1, Len(up) - n)
    /\ ended' = TRUE
    /\ UNCHANGED <<conf, sent, phase, read, work, topic, seen, wrote>>

-----------------------------------------------------------------------------
(* The reader *)

\* ReadPack returns r: the bytes are there or there will be no more
Arrived(r) == ended \/ r.end <= Len(up)

\* Mutant of ReadFails: the error of io.ReadFull is lost.
ReadFails_Short(r) == r.err

\* ... with an error
ReadFails(r) == r.err \/ (r.end > Len(up) /\ ~(r.lax /\ r.from <= Len(up)))

Rest(r) == IF r.end < Len(up) THEN SubSeq(up, r.end + 1, Len(up)) ELSE <<>>

Closed == /\ phase' = "closed"
          /\ UNCHANGED <<conf, client, read, work, topic, seen, wrote>>

Written(packs, k) == [i \in DOMAIN packs |-> [pack |-> packs[i], to |-> k]]

\* agent.Run: the first pack has to be CONNECT
Greeted(r) ==
    /\ Arrived(r)
    /\ IF ReadFails(r) \/ r.pack.type # CONNECT THEN Closed
       ELSE /\ read' = <<r.pack>>
            /\ up' = Rest(r)
            /\ work' = <<"done">>
            /\ wrote' = Written(<<GetConnAckPack(0)>>, 1)
            /\ phase' = "loop"
            /\ UNCHANGED <<conf, sent, ended, topic, seen>>

FirstPack == phase = "handshake" /\ Greeted(ReadPack(up))

\* waitPack: the packs that answer p at once (a SUBSCRIBE has no more topics than bytes)
Replies(p) ==
    LET v == p.variable
    IN  CASE p.type = CONNECT -> <<GetConnAckPack(0)>>
          [] p.type = PUBLISH /\ p.qos = 1 -> <<GetPubAckPack(v.mid)>>
          [] p.type = PUBLISH /\ p.qos = 2 -> <<GetPubRECPack(v.mid)>>
          [] p.type = PUBREC -> <<GetPubRELPack(v.mid)>>
          [] p.type = PUBREL -> <<GetPubCOMPPack(v.mid)>>
          [] p.type = SUBSCRIBE ->
               [i \in 1..Cardinality({j \in 1..MaxPackLength :
                                         j \in DOMAIN v.topics /\ v.topics[j].Qos = 2})
                  |-> GetSubAckPack(v.mid)]
          [] p.type = UNSUBSCRIBE -> <<GetUNSubAckPack(v.mid)>>
          [] p.type = PINGREQ -> <<GetPingResp(0, p.dup)>>
          [] OTHER -> <<>>

Forwarded == {PUBLISH, SUBSCRIBE, UNSUBSCRIBE, PINGREQ}

Full == Cardinality({k \in DOMAIN work : work[k] \in Busy}) >= conf.tasks

\* toResult and ProtocolMarshal: the data of a ProtocolMarshal, or the value or the error
\* as JSON; a value JSON has no form for (a NaN) makes an error.  The three are told
\* apart by their first byte here.
NaN == Radix^8 - 1
Data(res) ==
    CASE IsError(res) -> <<3>>
      [] ~IsError(res) /\ res.t = "protocolMarshal" -> res.v
      [] ~IsError(res) /\ res.t = "float64" /\ res.v = NaN -> <<3>>
      [] OTHER -> <<2>>

\* Mutant of Answer: the answer goes out with the topic of the session.
Answer_SessionTopic(p, res) == <<GetPubPack(0, 0, 1, topic, Data(res))>>

\* toResult writes a PUBLISH with the topic of the request (QoS 0 sends no id)
Answer(p, res) == <<GetPubPack(0, 0, 1, p.variable.topic_name, Data(res))>>

\* waitPack and OnRecover for the pack p, the k-th.  With tasks workers at work a PUBLISH
\* is answered with an error; for another pack OnRecover panics on its type, which ends
\* Listen_loop.
Accepted(p, k) ==
    LET fwd == p.type \in Forwarded
        refused == fwd /\ Full /\ p.type = PUBLISH
    IN  /\ read' = Append(read, p)
        /\ wrote' = wrote \o Written(Replies(p)
                                     \o (IF refused THEN Answer(p, Error) ELSE <<>>), k)
        /\ work' = Append(work, IF refused THEN "refused"
                                ELSE IF ~fwd \/ Full THEN "done"
                                ELSE IF p.type = PUBLISH THEN "route" ELSE "other")
        /\ phase' = IF fwd /\ Full /\ ~refused THEN "closed" ELSE "loop"
        /\ UNCHANGED <<conf, sent, ended, topic, seen>>

\* ReadPackInLoop
Looped(r) ==
    /\ Arrived(r)
    /\ IF ReadFails(r) THEN Closed
       ELSE Accepted(r.pack, Len(read) + 1) /\ up' = Rest(r)

Listen == phase = "loop" /\ Looped(ReadPack(up))

-----------------------------------------------------------------------------
(* The workers (recoverworker) *)

Topic(k) == TopicOf[read[k].variable.topic_name[1]]
WorkerGoto(k, l) == work' = [work EXCEPT ![k] = l]

\* Nothing is done for SUBSCRIBE, UNSUBSCRIBE and PINGREQ
WorkerOther(k) ==
    /\ work[k] = "other"
    /\ WorkerGoto(k, "done")
    /\ UNCHANGED <<conf, client, phase, read, topic, seen, wrote>>

\* The worker ends, with an answer if one is needed
Ends(k, needed, res) ==
    /\ WorkerGoto(k, "done")
    /\ wrote' = IF needed THEN wrote \o Written(Answer(read[k], res), k) ELSE wrote

\* {...} is tried as JSON and passed on as a map, anything else as bytes
Braced(m) == m # <<>> /\ m[1] = 123 /\ m[Len(m)] = 125
BadJSON(m) == Braced(m) /\ m # <<123, 125>>
ArgOf(m) == Encoded(IF Braced(m) THEN "map" ELSE "bytes", m)

\* The session of the connection, or a clone of it, with the topic t
SessionWith(t) == SessionData("connection", "span", t)

\* The module is called with a session that has the topic t, and arg.  The handler gets
\* the session as the serializer decodes it; without the serializer the module answers
\* with an error.  CallNRArgs has no answer to wait for.
Calls(k, t, arg, needed) ==
    /\ LET s == Param(conf.registered, "session", Encoded("SESSION", SessionWith(t)))
       IN  seen' = IF IsError(s) THEN seen
                   ELSE Append(seen, [of |-> k, session |-> s.v, arg |-> arg])
    /\ WorkerGoto(k, IF needed THEN "call" ELSE "done")
    /\ UNCHANGED wrote

\* [moduleType@moduleID]/[handler]/[msgid]: no answer without msgid, but for a topic of
\* one part.  The session of the call is a clone with the topic of the request; if that
\* is not UTF-8, Serializable fails and the worker just ends.
Route(k, found) ==
    /\ work[k] = "route" /\ ~conf.uri
    /\ LET t == Topic(k)
           v == read[k].variable
           msgid == t.parts = 3
       IN  IF t.parts < 2 THEN Ends(k, TRUE, Error) /\ UNCHANGED seen
           ELSE IF ~t.hd \/ ~found \/ BadJSON(v.msg) THEN Ends(k, msgid, Error) /\ UNCHANGED seen
           ELSE IF ~t.utf8 THEN Ends(k, FALSE, Error) /\ UNCHANGED seen
           ELSE Calls(k, v.topic_name, ArgOf(v.msg), msgid)
    /\ UNCHANGED <<conf, client, phase, read, topic>>

\* OnRoute: the topic is parsed and set in the session all workers share
UriTopic(k) ==
    /\ work[k] = "route" /\ conf.uri
    /\ IF Topic(k).parsed
       THEN /\ topic' = read[k].variable.topic_name
            /\ WorkerGoto(k, "uri")
            /\ UNCHANGED wrote
       ELSE Ends(k, TRUE, Error) /\ UNCHANGED topic
    /\ UNCHANGED <<conf, client, phase, read, seen>>

\* Mutant of UriRoute: after the call with the bean the default call is made as well.
UriRoute_Twice(k, found, bean) ==
    /\ work[k] = "uri"
    /\ bean => conf.parsing
    /\ LET v == read[k].variable
           msg_id == Topic(k).msg_id
           call == [of |-> k, session |-> Clone(SessionWith(topic)), arg |-> ArgOf(v.msg)]
       IN  IF ~found \/ BadJSON(v.msg) \/ ~Topic(k).utf8 \/ ~conf.registered
           THEN Ends(k, msg_id, Error) /\ UNCHANGED seen
           ELSE /\ seen' = seen \o (IF bean THEN <<call, call>> ELSE <<call>>)
                /\ WorkerGoto(k, IF msg_id THEN "call" ELSE "done")
                /\ UNCHANGED wrote
    /\ UNCHANGED <<conf, client, phase, read, topic>>

\* ... then the module is found by scheme and host, or not.  What DataParsing makes of
\* the message goes out with the shared session, the message itself with a clone that
\* has the topic of the request.  Without msg_id nothing is answered.
UriRoute(k, found, bean) ==
    /\ work[k] = "uri"
    /\ bean => conf.parsing
    /\ LET v == read[k].variable
           msg_id == Topic(k).msg_id
           fails == IF bean THEN ~TopicOf[topic[1]].utf8
                    ELSE BadJSON(v.msg) \/ ~Topic(k).utf8
       IN  IF ~found \/ fails THEN Ends(k, msg_id, Error) /\ UNCHANGED seen
           ELSE IF bean THEN Calls(k, topic, Encoded("bytes", v.msg), msg_id)
           ELSE Calls(k, v.topic_name, ArgOf(v.msg), msg_id)
    /\ UNCHANGED <<conf, client, phase, read, topic>>

\* A handler was called for the k-th pack
Handled(k) == \E i \in DOMAIN seen : seen[i].of = k

\* The call returns what the handler did, as far as it could be encoded
Returned(v) ==
    LET e == ArgsTypeAnd2Bytes(conf.registered, v)
    IN  IF IsError(e) THEN Error ELSE Result(TRUE, e)

ReturnResult(k, v) ==
    /\ work[k] = "call" /\ Handled(k)
    /\ Ends(k, TRUE, Returned(v))
    /\ UNCHANGED <<conf, client, phase, read, topic, seen>>

\* ... or an error: the handler's, or its deadline has passed
ReturnError(k) ==
    /\ work[k] = "call"
    /\ Ends(k, TRUE, Error)
    /\ UNCHANGED <<conf, client, phase, read, topic, seen>>

RequestNext ==
    \/ \E p \in Connects \cup Packs : Send(p)
    \/ \E n \in 0..Len(up) : Cut(n)
    \/ FirstPack \/ Listen
    \/ \E k \in DOMAIN work :
         \/ WorkerOther(k) \/ UriTopic(k) \/ ReturnError(k)
         \/ \E found \in BOOLEAN : Route(k, found)
         \/ \E found, bean \in BOOLEAN : UriRoute(k, found, bean)
         \/ \E v \in Results : ReturnResult(k, v)

RequestSpec == RequestInit /\ [][RequestNext]_requestVars

-----------------------------------------------------------------------------
(* Properties *)

\* The lengths around which the remaining length takes another byte; what is longer than
\* 2097151 ReadPack does not read back (the third byte of the length is its last).
Lengths == {0, 1, 127, 128, 129, 16383, 16384, 16385, 65535, 2097151}

\* The gate reads the packs the client sent, in order and as they were sent, whatever
\* comes before and after them in the stream and wherever the stream ends: a pack cut off
\* is not delivered, except for SUBSCRIBE and UNSUBSCRIBE, of which ReadPack delivers
\* what is there (ReadPack, mqtt.go:304).
PacksArrive ==
    /\ \A n \in Lengths : remainingLength(<<0>> \o getRemainingLength[n]) = n
    /\ Len(read) <= Len(sent)
    /\ \A k \in DOMAIN read :
         \/ read[k] = sent[k]
         \/ /\ ended /\ k = Len(read)
            /\ read[k].type = sent[k].type /\ read[k].type \in {SUBSCRIBE, UNSUBSCRIBE}

\* What ReadPack has found in a stream of n bytes
Found(r, n) ==
    [r.pack EXCEPT !.variable = IF r.err \/ r.end > n THEN NoVariable ELSE @]

\* The packs in a stream of bytes
Unpack(b) ==
    LET from[n \in Nat] ==
            LET rest == SubSeq(b, n + 1, Len(b))
                step(r) == <<Found(r, Len(rest))>> \o from[n + r.end]
            IN  IF n >= Len(b) THEN <<>> ELSE step(ReadPack(rest))
    IN  from[0]

\* The bytes the gate has written
Down == FlattenSeq([i \in DOMAIN wrote |-> DelayWritePack(wrote[i].pack)])

\* The bytes the gate writes are the packs it meant to write: read back they are the same
\* packs in the same order, a PUBLISH with its topic and data (DelayWritePack, mqtt.go:651).
FramesReadable ==
    LET got == Unpack(Down)
    IN  /\ Len(got) = Len(wrote)
        /\ \A i \in DOMAIN got :
             LET p == wrote[i].pack
             IN  /\ got[i].type = p.type
                 /\ p.type = PUBLISH => got[i].variable = [p.variable EXCEPT !.mid = 0]
                 /\ p.type \in Acks \cup {SUBACK} => got[i].variable = p.variable

Needed(k) ==
    \/ work[k] = "refused"
    \/ ~conf.uri /\ (Topic(k).parts < 2 \/ Topic(k).parts = 3)
    \/ conf.uri /\ (Topic(k).parsed => Topic(k).msg_id)

Answers(k) == {i \in DOMAIN wrote : wrote[i].to = k /\ wrote[i].pack.type = PUBLISH}

\* A request is answered once, with its own topic, when its worker has ended or it was
\* refused, if the client asked for an answer or the request could not even be read; and
\* never otherwise, however the requests of a connection overlap (recoverworker,
\* mqtt_agent.go:253, and OnRoute, uri_route.go:74).  A topic that is not UTF-8 is left
\* out for recoverworker, which drops the request (mqtt_agent.go:341).
OneAnswer ==
    \A k \in DOMAIN read : read[k].type = PUBLISH /\ (conf.uri \/ Topic(k).utf8) =>
        /\ Cardinality(Answers(k)) =
             (IF work[k] \in {"done", "refused"} /\ Needed(k) THEN 1 ELSE 0)
        /\ \A i \in Answers(k) :
             wrote[i].pack.variable.topic_name = read[k].variable.topic_name

\* A handler is called at most once for a request, with the message of the request (or
\* what DataParsing made of it).  The topic in its session is empty: OnRoute writes
\* the topic of every request into the session all share (uri_route.go:95) and passes it
\* on (uri_route.go:121), but decoding drops it, so that no handler sees the topic of
\* another request.  A request no handler was called for is answered, if at all, with
\* an error.
HandlerSees ==
    /\ \A i \in DOMAIN seen :
         /\ seen[i].of \in DOMAIN read
         /\ seen[i].arg.bytes = read[seen[i].of].variable.msg
         /\ TopicIn(seen[i].session) = <<>>
         /\ \A j \in DOMAIN seen : seen[j].of = seen[i].of => i = j
    /\ \A k \in DOMAIN read : Handled(k) \/
         \A i \in Answers(k) : wrote[i].pack.variable.msg = Data(Error)

=============================================================================
