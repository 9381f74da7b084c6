----------------------------- MODULE PackQueue -----------------------------
(***************************************************************************)
(* One connection of the gate (gate/base/mqtt/pack_queue.go and            *)
(* mqtt_client_server.go).  Its reader (Listen_loop, on the goroutine of   *)
(* agent.Run) answers and forwards packs, the workers it starts and the    *)
(* pushers of the gate write packs into a buffer, and the flusher empties  *)
(* the buffer into the connection.  A writer leaves a token in fch for the *)
(* flusher after it has released writelock; Close takes no lock at all.    *)
(*                                                                         *)
(* A section under writelock is one action; every other access to shared   *)
(* state (a channel operation, each assignment of Close) is its own.       *)
(***************************************************************************)
EXTENDS Naturals

CONSTANTS Workers,   \* the places in agent.ch (ConcurrentTasks)
          Pushers,   \* other goroutines that write: the gate's Send, Push, ...
          Reader,    \* the goroutine of Listen_loop
          Cap,       \* capacity of fch
          BufSize,   \* packs the bufio.Writer holds
          MaxTopics, \* bound: topics of a SUBSCRIBE
          MaxInbox   \* bound: packs received and not yet read

Writers == Workers \cup Pushers
Procs == Writers \cup {Reader}

ASSUME ConstAssumption == /\ Cap \in Nat \ {0} /\ BufSize \in Nat \ {0}
                          /\ MaxTopics \in Nat /\ MaxInbox \in Nat
                          /\ Reader \notin Writers /\ Workers \cap Pushers = {}

VARIABLES
    status,     \* queue.status: "connected" or "closed"
    writeError, \* queue.writeError # nil
    fch,        \* tokens in fch
    fchClosed,  \* fch is closed
    buffered,   \* packs in the bufio.Writer
    broken,     \* the bufio.Writer has failed, and so every later use of it
    conn,       \* "up", "broken" (peer gone, deadline passed) or "closed"
    inbox,      \* packs the peer has sent
    isStop,     \* client.isStop
    flusher,    \* where the flusher is
    pc,         \* pc[p]: where writer or reader p is
    pack,       \* the pack the reader handles: the replies it still needs, whom
                \* it is forwarded to
    failed,     \* waitPack's err: the last reply could not be written
    cont        \* where the reader goes on after WritePack or Close

queue == <<status, writeError, fch, fchClosed>>
stream == <<buffered, broken>>
reading == <<pack, failed, cont, inbox, isStop>>
vars == <<queue, stream, conn, reading, flusher, pc>>

\* What the reader does with a pack: CONNECT, PUBREC and PUBREL are answered;
\* PUBLISH is answered (unless QoS is 0) and forwarded; UNSUBSCRIBE and PINGREQ too,
\* SUBSCRIBE is answered once per topic with QoS 2; others are ignored.
Packs == [replies : {0, 1}, to : {"nobody", "publish"}]
         \cup [replies : 0..MaxTopics, to : {"other"}]
NoPack == [replies |-> 0, to |-> "nobody"]

Closing == {"closeErr", "closeFch", "closeStatus", "closeConn"}
Sending == {"send", "sendErr"}   \* before the token; sendErr: the write failed
Places == {"idle", "work", "check", "read", "handle", "forwarded", "ended", "panicked",
           "write"} \cup Sending \cup Closing

TypeOK == /\ status \in {"connected", "closed"}
          /\ writeError \in BOOLEAN
          /\ fch \in 0..Cap /\ fchClosed \in BOOLEAN
          /\ buffered \in 0..BufSize /\ broken \in BOOLEAN
          /\ conn \in {"up", "broken", "closed"}
          /\ inbox \in 0..MaxInbox
          /\ isStop \in BOOLEAN
          /\ flusher \in {"check", "recv", "flush", "ended"}
          /\ pc \in [Procs -> Places]
          /\ pack \in [replies : Nat, to : {"nobody", "publish", "other"}]
          /\ failed \in BOOLEAN
          /\ cont \in {"handle", "forwarded", "ended"}

\* Listen_loop has started the flusher; a pusher may write at any time, a worker
\* when the reader has forwarded a pack to it.
Init == /\ status = "connected"
        /\ writeError = FALSE
        /\ fch = 0
        /\ fchClosed = FALSE
        /\ buffered = 0
        /\ broken = FALSE
        /\ conn = "up"
        /\ inbox = 0
        /\ isStop = FALSE
        /\ flusher = "check"
        /\ pc = [p \in Procs |-> IF p = Reader THEN "check"
                                 ELSE IF p \in Workers THEN "idle" ELSE "work"]
        /\ pack = NoPack
        /\ failed = FALSE
        /\ cont = "handle"

isConnected == status = "connected"

Goto(p, l) == pc' = [pc EXCEPT ![p] = l]

\* Where p goes on when WritePack or Close returns
Back(p) == IF p = Reader THEN cont ELSE "work"

\* WritePack returns to p with an error or without: waitPack keeps the error of a
\* reply, toResult's is ignored.
Returns(p, e) ==
    /\ Goto(p, Back(p))
    /\ failed' = IF p = Reader /\ cont = "handle" THEN e ELSE failed

-----------------------------------------------------------------------------
(* WritePack *)

\* Disconnected, failed before, or the buffer is full
WriteRefused(p) ==
    /\ pc[p] = "write"
    /\ ~isConnected \/ writeError \/ buffered = BufSize
    /\ Returns(p, TRUE)
    /\ UNCHANGED <<queue, stream, conn, flusher, pack, cont, inbox, isStop>>

\* DelayWritePack: the pack fits into the buffer
WriteBuffered(p) ==
    /\ pc[p] = "write"
    /\ isConnected /\ ~writeError /\ buffered < BufSize /\ ~broken
    /\ buffered' = buffered + 1
    /\ Goto(p, "send")
    /\ UNCHANGED <<queue, broken, conn, flusher, reading>>

\* Mutant of WriteThrough: no token, as the buffer was just written out.
WriteThrough_NoToken(p) ==
    /\ pc[p] = "write"
    /\ isConnected /\ ~writeError /\ buffered < BufSize /\ ~broken
    /\ conn = "up"
    /\ buffered' \in {0, 1}
    /\ Returns(p, FALSE)
    /\ UNCHANGED <<queue, broken, conn, flusher, pack, cont, inbox, isStop>>

\* ... or what is in the buffer goes out to make room for it
WriteThrough(p) ==
    /\ pc[p] = "write"
    /\ isConnected /\ ~writeError /\ buffered < BufSize /\ ~broken
    /\ conn = "up"
    /\ buffered' \in {0, 1}
    /\ Goto(p, "send")
    /\ UNCHANGED <<queue, broken, conn, flusher, reading>>

\* ... and that fails, or the bufio.Writer failed before.  (A closed TCPConn writes
\* nothing and returns no error, which bufio reports as a short write.)
WriteFails(p) ==
    /\ pc[p] = "write"
    /\ isConnected /\ ~writeError /\ buffered < BufSize
    /\ broken \/ conn # "up"
    /\ broken' = TRUE
    /\ Goto(p, "sendErr")
    /\ UNCHANGED <<queue, buffered, conn, flusher, reading>>

\* fch <- struct{}{}, then Close if the write failed
Send(p) ==
    /\ pc[p] \in Sending
    /\ ~fchClosed
    /\ fch < Cap
    /\ fch' = fch + 1
    /\ IF pc[p] = "send" THEN Returns(p, FALSE) ELSE Goto(p, "closeErr") /\ UNCHANGED failed
    /\ UNCHANGED <<status, writeError, fchClosed, stream, conn, flusher, pack, cont,
                   inbox, isStop>>

\* Mutant of SendPanics: the panic is not recovered and the send waits.
SendPanics_Waits(p) ==
    /\ FALSE /\ pc[p] \in Sending
    /\ UNCHANGED vars

\* A send to the closed channel panics; WritePack recovers and calls Close.
SendPanics(p) ==
    /\ pc[p] \in Sending
    /\ fchClosed
    /\ Goto(p, "closeErr")
    /\ UNCHANGED <<queue, stream, conn, flusher, reading>>

-----------------------------------------------------------------------------
(* Close, by any goroutine and by several at once *)

CloseSetsError(p) ==
    /\ pc[p] = "closeErr"
    /\ writeError' = TRUE
    /\ Goto(p, "closeFch")
    /\ UNCHANGED <<status, fch, fchClosed, stream, conn, flusher, reading>>

\* Mutant of CloseFch: the channel stays open.
CloseFch_Missing(p) ==
    /\ pc[p] = "closeFch"
    /\ Goto(p, "closeStatus")
    /\ UNCHANGED <<queue, stream, conn, flusher, reading>>

\* CloseFch: closing a closed channel panics and is recovered
CloseFch(p) ==
    /\ pc[p] = "closeFch"
    /\ fchClosed' = TRUE
    /\ Goto(p, "closeStatus")
    /\ UNCHANGED <<status, writeError, fch, stream, conn, flusher, reading>>

CloseStatus(p) ==
    /\ pc[p] = "closeStatus"
    /\ status' = "closed"
    /\ Goto(p, "closeConn")
    /\ UNCHANGED <<writeError, fch, fchClosed, stream, conn, flusher, reading>>

\* conn.Close; when the reader closed the queue for its own error, its loop ends and
\* Listen_loop sets isStop.
CloseConn(p) ==
    /\ pc[p] = "closeConn"
    /\ conn' = "closed"
    /\ Returns(p, TRUE)
    /\ isStop' = (isStop \/ (p = Reader /\ cont = "ended"))
    /\ UNCHANGED <<queue, stream, flusher, pack, cont, inbox>>

-----------------------------------------------------------------------------
(* Flusher *)

FlusherCheck ==
    /\ flusher = "check"
    /\ flusher' = IF isConnected THEN "recv" ELSE "ended"
    /\ UNCHANGED <<queue, stream, conn, reading, pc>>

\* <-fch
FlusherRecv ==
    /\ flusher = "recv"
    /\ fch > 0
    /\ fch' = fch - 1
    /\ flusher' = "flush"
    /\ UNCHANGED <<status, writeError, fchClosed, stream, conn, reading, pc>>

\* fch is closed and empty
FlusherDrained ==
    /\ flusher = "recv"
    /\ fch = 0
    /\ fchClosed
    /\ flusher' = "ended"
    /\ UNCHANGED <<queue, stream, conn, reading, pc>>

\* Mutant of Flush: the flusher ends after it has flushed.
Flush_Once ==
    /\ flusher = "flush"
    /\ isConnected
    /\ buffered = 0 \/ (conn = "up" /\ ~broken)
    /\ buffered' = 0
    /\ flusher' = "ended"
    /\ UNCHANGED <<queue, broken, conn, reading, pc>>

\* Under writelock: Flush, unless the queue was closed or nothing is buffered
Flush ==
    /\ flusher = "flush"
    /\ isConnected
    /\ buffered = 0 \/ (conn = "up" /\ ~broken)
    /\ buffered' = 0
    /\ flusher' = "check"
    /\ UNCHANGED <<queue, broken, conn, reading, pc>>

\* Flush fails and the flusher ends; it does not call Close.
FlushFails ==
    /\ flusher = "flush"
    /\ isConnected
    /\ buffered > 0
    /\ conn # "up" \/ broken
    /\ broken' = TRUE
    /\ flusher' = "ended"
    /\ UNCHANGED <<queue, buffered, conn, reading, pc>>

FlusherClosed ==
    /\ flusher = "flush"
    /\ ~isConnected
    /\ flusher' = "ended"
    /\ UNCHANGED <<queue, stream, conn, reading, pc>>

-----------------------------------------------------------------------------
(* ReadPackInLoop and waitPack *)

ReaderCheck ==
    /\ pc[Reader] = "check"
    /\ Goto(Reader, IF isConnected THEN "read" ELSE "ended")
    /\ isStop' = ~isConnected
    /\ UNCHANGED <<queue, stream, conn, flusher, pack, failed, cont, inbox>>

ReadPack ==
    /\ pc[Reader] = "read"
    /\ inbox > 0
    /\ inbox' = inbox - 1
    /\ pack' \in Packs
    /\ Goto(Reader, "handle")
    /\ UNCHANGED <<queue, stream, conn, flusher, failed, cont, isStop>>

\* The connection or the alive time ended, or the bytes are no pack: Close.
ReadError ==
    /\ pc[Reader] = "read"
    /\ cont' = "ended"
    /\ Goto(Reader, "closeErr")
    /\ UNCHANGED <<queue, stream, conn, flusher, pack, failed, inbox, isStop>>

\* A reply of waitPack
Reply ==
    /\ pc[Reader] = "handle"
    /\ pack.replies > 0
    /\ pack' = [pack EXCEPT !.replies = @ - 1]
    /\ Goto(Reader, "write")
    /\ UNCHANGED <<queue, stream, conn, flusher, failed, cont, inbox, isStop>>

\* waitPack returns to the loop, which ends with Close if a reply failed
WaitPackReturns ==
    IF failed
    THEN /\ cont' = "ended"
         /\ pc' = [pc EXCEPT ![Reader] = "closeErr"]
    ELSE /\ cont' = "handle"
         /\ pc' = [pc EXCEPT ![Reader] = "check"]

HandleReturns ==
    /\ \/ pc[Reader] = "handle" /\ pack.replies = 0 /\ pack.to = "nobody"
       \/ pc[Reader] = "forwarded"
    /\ WaitPackReturns
    /\ pack' = NoPack
    /\ failed' = FALSE
    /\ UNCHANGED <<queue, stream, conn, flusher, inbox, isStop>>

\* OnRecover: Wait finds a place and go recoverworker(pack)
Forward ==
    /\ pc[Reader] = "handle" /\ pack.replies = 0 /\ pack.to # "nobody"
    /\ \E w \in Workers :
         /\ pc[w] = "idle"
         /\ pc' = [pc EXCEPT ![w] = "work", ![Reader] = "forwarded"]
    /\ UNCHANGED <<queue, stream, conn, flusher, reading>>

\* OnRecover: the work queue is full.  A PUBLISH is answered with the error ...
ForwardRefused ==
    /\ pc[Reader] = "handle" /\ pack.replies = 0 /\ pack.to = "publish"
    /\ \A w \in Workers : pc[w] # "idle"
    /\ cont' = "forwarded"
    /\ Goto(Reader, "write")
    /\ UNCHANGED <<queue, stream, conn, flusher, pack, failed, inbox, isStop>>

\* ... any other pack is taken for a PUBLISH: a panic that ends Listen_loop, which
\* recovers without Close.
ForwardPanics ==
    /\ pc[Reader] = "handle" /\ pack.replies = 0 /\ pack.to = "other"
    /\ \A w \in Workers : pc[w] # "idle"
    /\ Goto(Reader, "panicked")
    /\ UNCHANGED <<queue, stream, conn, flusher, reading>>

\* agent.Run closes the connection when Listen_loop has returned.
RunReturns ==
    /\ pc[Reader] \in {"ended", "panicked"}
    /\ conn # "closed"
    /\ conn' = "closed"
    /\ UNCHANGED <<queue, stream, flusher, pc, reading>>

-----------------------------------------------------------------------------
(* Writers *)

\* WriteMsg: refused once the reader has ended, else WritePack
WriteMsg(p) ==
    /\ pc[p] = "work"
    /\ p \in Writers
    /\ ~isStop
    /\ Goto(p, "write")
    /\ UNCHANGED <<queue, stream, conn, flusher, reading>>

\* recoverworker ends, with or without an answer: Finish
Finish(w) ==
    /\ pc[w] = "work"
    /\ Goto(w, "idle")
    /\ UNCHANGED <<queue, stream, conn, flusher, reading>>

-----------------------------------------------------------------------------
(* The peer and the gate (external) *)

PeerSends ==
    /\ conn = "up"
    /\ inbox < MaxInbox
    /\ inbox' = inbox + 1
    /\ UNCHANGED <<queue, stream, conn, flusher, pc, pack, failed, cont, isStop>>

ConnBreaks ==
    /\ conn = "up"
    /\ conn' = "broken"
    /\ UNCHANGED <<queue, stream, flusher, pc, reading>>

\* agent.Close, called by the gate
AgentClose ==
    /\ conn # "closed"
    /\ conn' = "closed"
    /\ UNCHANGED <<queue, stream, flusher, pc, reading>>

-----------------------------------------------------------------------------
\* The steps of WritePack and Close
QueueStep(p) == \/ WriteRefused(p) \/ WriteBuffered(p) \/ WriteThrough(p) \/ WriteFails(p)
                \/ Send(p) \/ SendPanics(p)
                \/ CloseSetsError(p) \/ CloseFch(p) \/ CloseStatus(p) \/ CloseConn(p)

FlusherStep == \/ FlusherCheck \/ FlusherRecv \/ FlusherDrained
               \/ Flush \/ FlushFails \/ FlusherClosed

ReaderStep == \/ ReaderCheck \/ ReadPack
              \/ conn # "up" /\ ReadError
              \/ Reply \/ HandleReturns \/ Forward \/ ForwardRefused \/ ForwardPanics
              \/ RunReturns

Next == \/ \E p \in Procs : QueueStep(p)
        \/ FlusherStep
        \/ ReaderStep \/ ReadError
        \/ \E p \in Writers : WriteMsg(p)
        \/ \E w \in Workers : Finish(w)
        \/ PeerSends \/ ConnBreaks \/ AgentClose

Spec == Init /\ [][Next]_vars

\* Goroutines run, and those that wait to send are served in their order; a read of a connection that is not up ends.  Nothing obliges a
\* worker to write, and what it waits for is not part of the queue.
Fairness == /\ \A p \in Procs : WF_vars(QueueStep(p)) /\ SF_vars(Send(p))
            /\ WF_vars(FlusherStep)
            /\ WF_vars(ReaderStep)

FairSpec == Spec /\ Fairness

-----------------------------------------------------------------------------
(* Properties *)

\* The flusher has ended and nobody has closed the queue.
Orphaned == flusher = "ended" /\ isConnected

\* No pack is forgotten in the buffer: while the queue is open and the flusher runs,
\* a buffered pack has a token in fch, a writer about to send one or the flusher
\* about to flush (the token is sent after writelock is released, pack_queue.go:148).
TokenForBuffered ==
    buffered > 0 /\ isConnected /\ ~fchClosed /\ flusher # "ended"
        => fch > 0 \/ flusher = "flush" \/ \E p \in Procs : pc[p] \in Sending

\* What is written reaches the connection or the connection has failed.
FlushedOrBroken == buffered > 0 ~> (buffered = 0 \/ conn # "up")

\* Close releases everybody, though it takes no lock and a send to fch may be under
\* way: the flusher and the reader end and no writer waits or closes any more.
CloseReleases ==
    status = "closed" ~> /\ flusher = "ended"
                         /\ pc[Reader] \in {"ended", "panicked"}
                         /\ \A p \in Writers : pc[p] \notin Sending \cup Closing

\* A writer that waits for room in fch gets on: the flusher takes tokens as long as
\* it runs, and Close wakes the writer.  The one exception is an orphaned queue.
SendReturns == \A p \in Procs : pc[p] \in Sending ~> (pc[p] \notin Sending \/ Orphaned)

=============================================================================
