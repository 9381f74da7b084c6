--------------------------- MODULE MCGateRequest ---------------------------
EXTENDS GateRequest

\* What there is to a topic: for the default router its parts, whether the handler
\* begins with HD_; for URIRoute whether it and its query can be parsed, and whether the
\* query has a msg_id
Plain(parts, hd, utf8) == [uri |-> FALSE, parts |-> parts, hd |-> hd, utf8 |-> utf8]
Uri(parsed, msg_id, utf8) ==
    [uri |-> TRUE, parsed |-> parsed, msg_id |-> msg_id, utf8 |-> utf8]

MCTopicOf == <<Plain(3, TRUE, TRUE), Plain(2, TRUE, TRUE), Plain(1, FALSE, TRUE),
               Plain(3, FALSE, TRUE), Plain(3, TRUE, FALSE),
               Uri(TRUE, TRUE, TRUE), Uri(TRUE, FALSE, TRUE), Uri(FALSE, FALSE, TRUE),
               Uri(TRUE, TRUE, FALSE)>>

Flags(u, p, w) == [user_name |-> u, password |-> p, will_flag |-> w, clean_session |-> TRUE]
Connect(f, id) ==
    Pack(CONNECT, 0, 0,
         [protocol |-> <<77>>, version |-> 3, flags |-> f, keep_alive_timer |-> 300, id |-> id,
          will |-> IF f.will_flag THEN <<<<1>>, <<>>>> ELSE <<<<>>, <<>>>>,
          uname |-> IF f.user_name THEN <<7>> ELSE <<>>,
          upassword |-> IF f.password THEN <<8>> ELSE <<>>])

MCConnects == {Connect(Flags(FALSE, FALSE, FALSE), <<5>>),
               Connect(Flags(TRUE, TRUE, TRUE), <<5>>),
               Connect(Flags(TRUE, FALSE, FALSE), <<>>)}

\* Messages: empty, an object, braces that are no JSON, and one of 125 bytes, with which the
\* pack has a length of two bytes
Long == [i \in 1..125 |-> 9]
Msgs == {<<>>, <<123, 125>>, <<123, 1, 125>>}
Request(t, qos, m) == GetPubPack(qos, 0, IF qos > 0 THEN 259 ELSE 0, <<t>>, m)
Topics2 == <<[name |-> <<1>>, Qos |-> 2], [name |-> <<1, 2>>, Qos |-> 0]>>

MCPacks ==
    {Request(t, 0, m) : t \in {1, 6}, m \in Msgs}
    \cup {Request(t, 0, <<>>) : t \in {2, 3, 4, 5, 7, 8, 9}}
    \cup {Request(1, 0, Long), Request(1, 1, <<9>>), Request(6, 2, <<9>>)}
    \cup {Pack(PUBREC, 0, 0, [mid |-> 1]), Pack(PUBREL, 0, 1, [mid |-> 1]),
           Pack(PUBACK, 0, 0, [mid |-> 1]),
           Pack(PINGREQ, 0, 0, NoVariable), Pack(DISCONNECT, 0, 0, NoVariable),
           Pack(SUBSCRIBE, 0, 1, [mid |-> 2, topics |-> Topics2]),
           Pack(UNSUBSCRIBE, 0, 1, [mid |-> 2, topics |->
                [i \in 1..2 |-> [name |-> Topics2[i].name, Qos |-> 0]]])}

MCResults == {Nil, Value("map", "int"), Value("protocolMarshal", Long), Value("float64", NaN),
              Value("struct", <<1>>)}
=============================================================================
