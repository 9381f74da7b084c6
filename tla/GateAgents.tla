----------------------------- MODULE GateAgents -----------------------------
(***************************************************************************)
(* The connections of a gate and its end (gate/base/mqtt_gate.go Run,      *)
(* mqtt_agent.go, gate_handler.go, network/tcp_server.go, ws_server_x.go). *)
(* Every connection has a goroutine of its own: it is counted by the wait  *)
(* group of its server, shakes hands, enters the table of the sessions,    *)
(* listens (module PackQueue is that loop in detail) and is cleaned up.    *)
(* Close of an agent only starts a goroutine that closes the connection,   *)
(* and a connection is not closed while a Write of it blocks; the session  *)
(* learner hears of a new session on yet another goroutine.                *)
(*                                                                         *)
(* The gate's Run serves until closeSig, closes the agents in the table,   *)
(* then the WebSocket server, then the TCP server; each waits for the      *)
(* goroutines its wait group has counted by then.                          *)
(***************************************************************************)
EXTENDS Integers, FiniteSets

CONSTANTS TCP,   \* the connections clients may open to the TCP server
          WS     \* and to the WebSocket server

ASSUME AgentsAssumption ==
    /\ IsFiniteSet(TCP) /\ IsFiniteSet(WS)
    /\ TCP \cap WS = {}

Conns == TCP \cup WS

VARIABLES
    place,      \* place[c]: where the goroutine of c is
    conn,       \* conn[c]: "open", "left" (the client has gone) or "closed" (by the gate)
    session,    \* session[c]: agent.session # nil
    protocolOK, \* protocolOK[c]: agent.protocol_ok
    closing,    \* closing[c]: a goroutine of agent.Close has yet to close c
    blocked,    \* blocked[c]: a Write holds the lock of c until its bytes are out
    hello,      \* hello[c]: the learner's Connect is "no", "pending" or "told"
    bye,        \* bye[c]: the learner's DisConnect was called
    sessions,   \* handler.sessions, the connections in it
    agentNum,   \* handler.agentNum
    main,       \* where the gate's Run is
    sweep,      \* OnDestroy: the entries Range has yet to visit
    swept,      \* the entries it found and visited (no state of the program)
    acceptor    \* TCPServer.run: "starting", "accepting" or "ended"

agent == <<session, protocolOK>>
net == <<conn, closing, blocked>>
learner == <<hello, bye>>
table == <<sessions, agentNum>>
gate == <<main, sweep, swept, acceptor>>
agentsVars == <<place, agent, net, learner, table, gate>>

Places == {"idle", "accepted", "handshake", "ack", "store", "count", "listen", "stuck",
           "ran", "onclose", "tell", "delete", "uncount", "finish", "done"}
Mains == {"serve", "sweep", "wsClose", "wsWait", "wsAsleep", "wsAwake",
          "tcpClose", "lnWait", "tcpWait", "tcpAsleep", "tcpAwake",
          "returned", "panicked"}

AgentsTypeOK ==
    /\ place \in [Conns -> Places]
    /\ conn \in [Conns -> {"open", "left", "closed"}]
    /\ session \in [Conns -> BOOLEAN] /\ protocolOK \in [Conns -> BOOLEAN]
    /\ closing \in [Conns -> BOOLEAN] /\ blocked \in [Conns -> BOOLEAN]
    /\ bye \in [Conns -> BOOLEAN]
    /\ hello \in [Conns -> {"no", "pending", "told"}]
    /\ sessions \subseteq Conns /\ agentNum \in Int
    /\ main \in Mains /\ sweep \subseteq Conns /\ swept \subseteq Conns
    /\ acceptor \in {"starting", "accepting", "ended"}

\* Run has started both servers
AgentsInit ==
    /\ place = [c \in Conns |-> "idle"]
    /\ conn = [c \in Conns |-> "open"]
    /\ session = [c \in Conns |-> FALSE]
    /\ protocolOK = [c \in Conns |-> FALSE]
    /\ closing = [c \in Conns |-> FALSE]
    /\ blocked = [c \in Conns |-> FALSE]
    /\ hello = [c \in Conns |-> "no"]
    /\ bye = [c \in Conns |-> FALSE]
    /\ sessions = {}
    /\ agentNum = 0
    /\ main = "serve"
    /\ sweep = {} /\ swept = {}
    /\ acceptor = "starting"

GoesTo(c, l) == place' = [place EXCEPT ![c] = l]

\* The connections a wait group counts: between its Add and its Done
Counted(S) == {c \in S : place[c] \notin {"idle", "accepted", "done"}}

-----------------------------------------------------------------------------
(* The servers *)

\* A closed listener accepts nothing
tcpOpen == main \notin {"lnWait", "tcpWait", "tcpAsleep", "tcpAwake", "returned"}
wsOpen == main \in {"serve", "sweep", "wsClose"}

\* TCPServer.run enters its loop; the loop ends when Accept fails.
RunStarts == /\ acceptor = "starting"
             /\ acceptor' = "accepting"
             /\ UNCHANGED <<place, agent, net, learner, table, main, sweep, swept>>

RunEnds == /\ acceptor = "accepting" /\ ~tcpOpen
           /\ acceptor' = "ended"
           /\ UNCHANGED <<place, agent, net, learner, table, main, sweep, swept>>

\* A connection is accepted and has a goroutine, which no wait group counts yet.
TCPAccept(c) == /\ place[c] = "idle" /\ c \in TCP /\ acceptor = "accepting" /\ tcpOpen
                /\ GoesTo(c, "accepted")
                /\ UNCHANGED <<agent, net, learner, table, gate>>

WSAccept(c) == /\ place[c] = "idle" /\ c \in WS /\ wsOpen
               /\ GoesTo(c, "accepted")
               /\ UNCHANGED <<agent, net, learner, table, gate>>

\* The goroutine is counted and Run of its agent begins.
RunAgent(c) == /\ place[c] = "accepted"
               /\ GoesTo(c, "handshake")
               /\ UNCHANGED <<agent, net, learner, table, gate>>

\* The http server drops a connection that is not upgraded to a WebSocket.
NotUpgraded(c) == /\ place[c] = "accepted" /\ c \in WS
                  /\ GoesTo(c, "done")
                  /\ conn' = [conn EXCEPT ![c] = "closed"]
                  /\ UNCHANGED <<agent, closing, blocked, learner, table, gate>>

-----------------------------------------------------------------------------
(* agent.Run *)

\* The client's CONNECT is read and the session made.
Handshake(c) == /\ place[c] = "handshake" /\ conn[c] = "open"
                /\ session' = [session EXCEPT ![c] = TRUE]
                /\ GoesTo(c, "ack")
                /\ UNCHANGED <<protocolOK, net, learner, table, gate>>

\* agent.Close starts a goroutine; on a closed connection that does nothing.
Close(c) == closing' = [closing EXCEPT ![c] = conn[c] # "closed"]

\* Run returns; its deferred Close is started.
Returns(c) == GoesTo(c, "ran") /\ Close(c)

\* The first pack cannot be read, or is no CONNECT.
HandshakeFails(c) == /\ place[c] = "handshake"
                     /\ Returns(c)
                     /\ UNCHANGED <<agent, conn, blocked, learner, table, gate>>

\* CONNACK is written; to a client that has gone it may still succeed.
AckSent(c) == /\ place[c] = "ack" /\ conn[c] # "closed"
              /\ protocolOK' = [protocolOK EXCEPT ![c] = TRUE]
              /\ GoesTo(c, "store")
              /\ UNCHANGED <<session, net, learner, table, gate>>

AckFails(c) == /\ place[c] = "ack" /\ conn[c] # "open"
               /\ Returns(c)
               /\ UNCHANGED <<agent, conn, blocked, learner, table, gate>>

\* handler.Connect enters the session in the table,
ConnectStore(c) == /\ place[c] = "store"
                   /\ sessions' = sessions \cup {c}
                   /\ GoesTo(c, "count")
                   /\ UNCHANGED <<agent, net, learner, agentNum, gate>>

\* counts it and starts the goroutine that tells the learner.
ConnectCount(c) == /\ place[c] = "count"
                   /\ agentNum' = agentNum + 1
                   /\ hello' = [hello EXCEPT ![c] = "pending"]
                   /\ GoesTo(c, "listen")
                   /\ UNCHANGED <<agent, net, bye, sessions, gate>>

LearnerConnect(c) == /\ hello[c] = "pending"
                     /\ hello' = [hello EXCEPT ![c] = "told"]
                     /\ UNCHANGED <<place, agent, net, bye, table, gate>>

\* Listen_loop ends: the client says DISCONNECT, is silent for too long, or the
\* connection fails.
ListenEnds(c) == /\ place[c] = "listen"
                 /\ Returns(c)
                 /\ UNCHANGED <<agent, conn, blocked, learner, table, gate>>

\* Listen_loop sends to the full fch of a flusher that ended when its Flush failed:
\* nobody receives, and the writers that could close the queue wait as well
\* (Orphaned in module PackQueue). After a failed Flush nothing is written any more.
ListenStuck(c) == /\ place[c] = "listen" /\ ~blocked[c]
                  /\ GoesTo(c, "stuck")
                  /\ UNCHANGED <<agent, net, learner, table, gate>>

\* Mutant of OverTime: the timer closes the agents that have a session.
OverTime_Inverted(c) ==
    /\ place[c] = "listen" /\ session[c] /\ conn[c] # "closed" /\ ~closing[c]
    /\ Close(c)
    /\ UNCHANGED <<place, agent, conn, blocked, learner, table, gate>>

\* The timer Run has started fires, and an agent without a session is closed. With a
\* session, or after Run, its firing changes nothing.
OverTime(c) ==
    /\ place[c] = "handshake" /\ ~session[c] /\ conn[c] # "closed" /\ ~closing[c]
    /\ Close(c)
    /\ UNCHANGED <<place, agent, conn, blocked, learner, table, gate>>

\* The flusher, or a writer whose pack does not fit into the buffer, writes more than
\* the client takes: it holds the lock of the connection (that of the frame writer on
\* a WebSocket). CONNACK is too short to block. A Write that still blocks when the
\* client has gone began before.
WriteBlocks(c) == /\ place[c] = "listen" /\ conn[c] = "open" /\ ~blocked[c]
                  /\ blocked' = [blocked EXCEPT ![c] = TRUE]
                  /\ UNCHANGED <<place, agent, conn, closing, learner, table, gate>>

\* The client takes the bytes, is gone, or the deadline passes.
WriteEnds(c) == /\ blocked[c]
                /\ blocked' = [blocked EXCEPT ![c] = FALSE]
                /\ UNCHANGED <<place, agent, conn, closing, learner, table, gate>>

\* The goroutine of Close runs, and waits for the lock.
CloseConn(c) == /\ closing[c] /\ ~blocked[c]
                /\ closing' = [closing EXCEPT ![c] = FALSE]
                /\ conn' = [conn EXCEPT ![c] = "closed"]
                /\ UNCHANGED <<place, agent, blocked, learner, table, gate>>

\* The client goes; once Run has returned nothing depends on it.
Leave(c) == /\ conn[c] = "open"
            /\ place[c] \in {"accepted", "handshake", "ack", "store", "count", "listen"}
            /\ conn' = [conn EXCEPT ![c] = "left"]
            /\ UNCHANGED <<place, agent, closing, blocked, learner, table, gate>>

-----------------------------------------------------------------------------
(* The server's cleanup: tcpConn.Close, agent.OnClose, wait group Done *)

\* Close waits for a Write that blocks, but on a WebSocket it takes no lock and returns
\* at once when another Close waits already. That connection is closed with the
\* handler; nobody writes to it or reads from it until then.
Cleanup(c) == /\ place[c] = "ran"
              /\ ~blocked[c] \/ (c \in WS /\ closing[c])
              /\ conn' = [conn EXCEPT ![c] = "closed"]
              /\ closing' = [closing EXCEPT ![c] = FALSE]
              /\ blocked' = [blocked EXCEPT ![c] = FALSE]
              /\ GoesTo(c, "onclose")
              /\ UNCHANGED <<agent, learner, table, gate>>

\* Mutant of DisConnectTell: only a session that is in the table is reported.
DisConnectTell_Listed(c) ==
    /\ place[c] = "onclose"
    /\ bye' = [bye EXCEPT ![c] = session[c] /\ c \in sessions]
    /\ GoesTo(c, IF session[c] THEN "delete" ELSE "finish")
    /\ UNCHANGED <<agent, net, hello, table, gate>>

\* handler.DisConnect tells the learner (whose panic is recovered) and, if there is
\* a session,
DisConnectTell(c) ==
    /\ place[c] = "onclose"
    /\ bye' = [bye EXCEPT ![c] = session[c]]
    /\ GoesTo(c, IF session[c] THEN "delete" ELSE "finish")
    /\ UNCHANGED <<agent, net, hello, table, gate>>

\* Mutant of DisConnectDelete: the agents whose handshake failed are counted too.
DisConnectDelete_All(c) ==
    /\ place[c] = "delete"
    /\ sessions' = sessions \ {c}
    /\ GoesTo(c, "uncount")
    /\ UNCHANGED <<agent, net, learner, agentNum, gate>>

\* deletes it from the table
DisConnectDelete(c) ==
    /\ place[c] = "delete"
    /\ sessions' = sessions \ {c}
    /\ GoesTo(c, IF protocolOK[c] THEN "uncount" ELSE "finish")
    /\ UNCHANGED <<agent, net, learner, agentNum, gate>>

\* and from the count, if the handshake had succeeded.
DisConnectUncount(c) == /\ place[c] = "uncount"
                        /\ agentNum' = agentNum - 1
                        /\ GoesTo(c, "finish")
                        /\ UNCHANGED <<agent, net, learner, sessions, gate>>

\* Where Wait is when the last counted goroutine of c's server is done: a waiter
\* that sleeps is woken.
Woken(c) ==
    CASE main = "wsAsleep" /\ Counted(WS) = {c} -> "wsAwake"
      [] main = "tcpAsleep" /\ Counted(TCP) = {c} -> "tcpAwake"
      [] OTHER -> main

Finish(c) == /\ place[c] = "finish"
             /\ GoesTo(c, "done")
             /\ main' = Woken(c)
             /\ UNCHANGED <<agent, net, learner, table, sweep, swept, acceptor>>

-----------------------------------------------------------------------------
(* The handler's Close, called by a module, and the gate's Run *)

HandlerClose(c) == /\ c \in sessions
                   /\ Close(c)
                   /\ UNCHANGED <<place, agent, conn, blocked, learner, table, gate>>

\* Run's <-closeSig; OnDestroy starts to range over the table.
CloseSig == /\ main = "serve"
            /\ main' = "sweep"
            /\ sweep' = sessions
            /\ UNCHANGED <<place, agent, net, learner, table, swept, acceptor>>

\* Mutant of SweepVisit: the entry is deleted, its agent not closed.
SweepVisit_NoClose(c) ==
    /\ main = "sweep" /\ c \in sweep
    /\ sweep' = sweep \ {c}
    /\ swept' = swept \cup ({c} \cap sessions)
    /\ sessions' = sessions \ {c}
    /\ UNCHANGED <<place, agent, net, learner, agentNum, main, acceptor>>

\* OnDestroy: Range passes over entries deleted since; it closes and deletes others.
SweepVisit(c) ==
    /\ main = "sweep" /\ c \in sweep
    /\ sweep' = sweep \ {c}
    /\ swept' = swept \cup ({c} \cap sessions)
    /\ sessions' = sessions \ {c}
    /\ IF c \in sessions THEN Close(c) ELSE UNCHANGED closing
    /\ UNCHANGED <<place, agent, conn, blocked, learner, agentNum, main, acceptor>>

Advance(from, to) == /\ main = from
                     /\ main' = to
                     /\ UNCHANGED <<place, agent, net, learner, table, sweep, swept, acceptor>>

SweepEnds == sweep = {} /\ Advance("sweep", "wsClose")
WSClose == Advance("wsClose", "wsWait")
TCPClose == Advance("tcpClose", "lnWait")
LnWait == acceptor # "accepting" /\ Advance("lnWait", "tcpWait")

\* Wait of a wait group passes when it counts nobody and sleeps when it does. A
\* sleeper that finds a new goroutine counted when it wakes panics.
WSWait == \/ Advance("wsWait", IF Counted(WS) = {} THEN "tcpClose" ELSE "wsAsleep")
          \/ Advance("wsAwake", IF Counted(WS) = {} THEN "tcpClose" ELSE "panicked")

TCPWait == \/ Advance("tcpWait", IF Counted(TCP) = {} THEN "returned" ELSE "tcpAsleep")
           \/ Advance("tcpAwake", IF Counted(TCP) = {} THEN "returned" ELSE "panicked")

-----------------------------------------------------------------------------
\* What the code does by itself, and what clients, modules and the application do
ConnStep(c) ==
    \/ RunAgent(c) \/ AckSent(c) \/ AckFails(c) \/ ConnectStore(c) \/ ConnectCount(c)
    \/ conn[c] # "open" /\ ~blocked[c] /\ (HandshakeFails(c) \/ ListenEnds(c))
    \/ Cleanup(c) \/ DisConnectTell(c) \/ DisConnectDelete(c) \/ DisConnectUncount(c)
    \/ Finish(c)

MainStep == \/ SweepEnds \/ WSClose \/ WSWait \/ TCPClose \/ LnWait \/ TCPWait
            \/ \E c \in Conns : SweepVisit(c)

Environment(c) == \/ TCPAccept(c) \/ WSAccept(c) \/ NotUpgraded(c) \/ Leave(c)
                  \/ Handshake(c) \/ HandshakeFails(c) \/ ListenEnds(c) \/ ListenStuck(c)
                  \/ WriteBlocks(c) \/ WriteEnds(c) \/ HandlerClose(c)

\* The deadline of a Write passes when no pack is read any more: every pack that is
\* read renews it.
Deadline(c) == (place[c] # "listen" \/ conn[c] # "open") /\ WriteEnds(c)

AgentsNext ==
    \/ \E c \in Conns : \/ ConnStep(c) \/ Environment(c) \/ LearnerConnect(c)
                        \/ OverTime(c) \/ CloseConn(c)
    \/ RunStarts \/ RunEnds \/ CloseSig \/ MainStep

AgentsSpec == AgentsInit /\ [][AgentsNext]_agentsVars

\* Goroutines that can run do, and timers and deadlines fire; a lock that is free
\* again and again is given to everyone who waits for it. A client, a module and the
\* application may do nothing.
FairSpec == /\ AgentsSpec
            /\ \A c \in Conns : /\ WF_agentsVars(ConnStep(c)) /\ SF_agentsVars(CloseConn(c))
                                /\ WF_agentsVars(OverTime(c)) /\ WF_agentsVars(Deadline(c))
                                /\ WF_agentsVars(LearnerConnect(c))
            /\ WF_agentsVars(RunStarts) /\ WF_agentsVars(RunEnds) /\ WF_agentsVars(MainStep)

-----------------------------------------------------------------------------
(* Properties *)

Entered == {"count", "listen", "stuck"}
Leaving == {"ran", "onclose", "delete"}

\* The table holds exactly the connections between Connect and DisConnect whose
\* handshake succeeded (less those OnDestroy has dropped), and agentNum counts them:
\* a failed handshake, the sweep and the cleanup may meet in any order.
TableAndCount ==
    /\ \A c \in sessions : place[c] \in Entered \cup Leaving /\ protocolOK[c] /\ session[c]
    /\ main = "serve" => \A c \in Conns : place[c] \in Entered => c \in sessions
    /\ agentNum = Cardinality({c \in Conns :
          /\ protocolOK[c]
          /\ place[c] \in {"listen", "stuck", "ran", "onclose", "delete", "uncount"}})

\* A client that never completes the handshake does not hold its goroutine: the
\* OverTime timer closes the connection.
HandshakeBounded == \A c \in Conns : place[c] = "handshake" ~> place[c] # "handshake"

\* Once the gate has closed a connection its session leaves the table, and the
\* learner hears of the end of every session it is told the begin of: it has heard
\* both in the end, in either order. The end of a session whose CONNACK failed is
\* told without its begin. Nothing is told of a session whose Listen_loop is stuck.
ClosedIsTold ==
    \A c \in Conns : conn[c] = "closed" ~>
        (\/ place[c] = "stuck"
         \/ /\ place[c] = "done" /\ c \notin sessions /\ bye[c] = session[c]
            /\ hello[c] = "told" <=> protocolOK[c])

\* What the end of the gate needs of a connection: its Listen_loop is not stuck, no
\* Write blocks for ever, and a client that came too late for OnDestroy does not stay.
Yields(c) ==
    /\ [](place[c] # "stuck")
    /\ []<>(~blocked[c])
    /\ []<>(~(place[c] = "listen" /\ conn[c] = "open" /\ c \notin swept))

\* The gate's Run returns after closeSig (or Wait panics) if every connection yields:
\* clients that never leave, but were in the table, are closed by OnDestroy, and the
\* agents are closed before the listeners.
DestroyReturns ==
    (\A c \in Conns : Yields(c)) => (main = "sweep" ~> main \in {"returned", "panicked"})
=============================================================================
