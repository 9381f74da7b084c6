-------------------------- MODULE PackQueueProofs --------------------------
(* Type correctness and TokenForBuffered, for any number of writers and any *)
(* capacity of fch and of the buffer.                                       *)
EXTENDS PackQueue, TLAPS

IInv == TypeOK /\ TokenForBuffered

USE ConstAssumption DEF Procs, Writers, Sending, Closing, Places, isConnected

\* A connection starts with an empty buffer.
LEMMA InitInv == Init => IInv
<1> SUFFICES ASSUME Init PROVE IInv
  OBVIOUS
<1>1. pack \in [replies : Nat, to : {"nobody", "publish", "other"}]
  BY DEF Init, NoPack
<1>2. pc \in [Procs -> Places]
  BY DEF Init
<1>3. TypeOK
  <2>1. fch \in 0..Cap /\ buffered \in 0..BufSize /\ inbox \in 0..MaxInbox
    BY DEF Init
  <2> QED  BY <1>1, <1>2, <2>1, Zenon DEF Init, TypeOK
<1>4. TokenForBuffered
  BY DEF Init, TokenForBuffered
<1> QED  BY <1>3, <1>4 DEF IInv

\* A refused write changes nothing but where the writer is.
LEMMA RefusedInv == ASSUME IInv, NEW p \in Procs, WriteRefused(p) PROVE IInv'
<1>1. UNCHANGED <<status, writeError, fch, fchClosed, buffered, broken, conn, flusher, pack,
                  cont, inbox, isStop>>
  BY DEF WriteRefused, queue, stream
<1>2. failed' \in BOOLEAN
  BY Zenon DEF IInv, TypeOK, WriteRefused, Returns
<1>3. pc' \in [Procs -> Places]
  BY DEF IInv, TypeOK, WriteRefused, Returns, Goto, Back
<1>4. TypeOK'
  BY <1>1, <1>2, <1>3 DEF IInv, TypeOK
<1>5. TokenForBuffered'
  BY <1>1 DEF IInv, TypeOK, TokenForBuffered, WriteRefused, Returns, Goto, Back
<1> QED  BY <1>4, <1>5 DEF IInv

\* A write, whatever becomes of the pack, leaves its writer about to send.
LEMMA WriteInv ==
    ASSUME IInv, NEW p \in Procs, WriteBuffered(p) \/ WriteThrough(p) \/ WriteFails(p)
    PROVE  IInv'
<1> USE DEF IInv, WriteBuffered, WriteThrough, WriteFails, Goto, queue, reading
<1>1. broken' \in BOOLEAN
  BY Zenon DEF TypeOK
<1>2. TypeOK'
  BY <1>1 DEF TypeOK
<1>3. pc'[p] \in Sending
  BY DEF TypeOK
<1>4. TokenForBuffered'
  BY <1>3 DEF TokenForBuffered
<1> QED  BY <1>2, <1>4

\* A writer that stops being about to send has left its token.
LEMMA SendInv == ASSUME IInv, NEW p \in Procs, Send(p) PROVE IInv'
<1> USE DEF IInv, Send, Returns, Goto, Back, stream
<1>1. failed' \in BOOLEAN
  BY Zenon DEF TypeOK
<1>2. pc' \in [Procs -> Places]
  BY DEF TypeOK
<1>3. TypeOK'
  BY <1>1, <1>2 DEF TypeOK
<1>4. fch' > 0
  BY DEF TypeOK
<1>5. TokenForBuffered'
  BY <1>4 DEF TokenForBuffered
<1> QED  BY <1>3, <1>5

\* A writer that panicked met a closed channel.
LEMMA PanicInv == ASSUME IInv, NEW p \in Procs, SendPanics(p) PROVE IInv'
<1> USE DEF IInv, SendPanics, Goto, queue, stream, reading
<1>1. TypeOK'
  BY DEF TypeOK
<1>2. TokenForBuffered'
  BY DEF TypeOK, TokenForBuffered
<1> QED  BY <1>1, <1>2

\* Close moves on a process that is not about to send.
LEMMA CloseInv ==
    ASSUME IInv, NEW p \in Procs,
           CloseSetsError(p) \/ CloseFch(p) \/ CloseStatus(p) \/ CloseConn(p)
    PROVE  IInv'
<1> USE DEF IInv, CloseSetsError, CloseFch, CloseStatus, CloseConn, Returns, Goto, Back, queue,
        stream, reading
<1>1. /\ writeError' \in BOOLEAN /\ fchClosed' \in BOOLEAN
      /\ failed' \in BOOLEAN /\ isStop' \in BOOLEAN
  BY Zenon DEF TypeOK
<1>2. pc' \in [Procs -> Places]
  BY DEF TypeOK
<1>3. TypeOK'
  BY <1>1, <1>2 DEF TypeOK
<1>4. TokenForBuffered'
  BY DEF TypeOK, TokenForBuffered
<1> QED  BY <1>3, <1>4

\* The flusher flushes after it has taken a token, all that is buffered.
LEMMA FlusherInv == ASSUME IInv, FlusherStep PROVE IInv'
<1> USE DEF IInv, FlusherStep, FlusherCheck, FlusherRecv, FlusherDrained, Flush, FlushFails,
        FlusherClosed, queue, stream, reading
<1>1. broken' \in BOOLEAN
  BY Zenon DEF TypeOK
<1>2. TypeOK'
  BY <1>1 DEF TypeOK
<1>3. TokenForBuffered'
  BY DEF TypeOK, TokenForBuffered
<1> QED  BY <1>2, <1>3

\* The reader writes through WritePack only.
LEMMA ReaderInv == ASSUME IInv, ReaderStep \/ ReadError PROVE IInv'
<1> USE DEF IInv, Goto, queue, stream, reading
<1>1. CASE ReaderCheck
  BY <1>1 DEF ReaderCheck, TypeOK, TokenForBuffered
<1>2. CASE ReadPack
  BY <1>2 DEF ReadPack, Packs, TypeOK, TokenForBuffered
<1>3. CASE ReadError
  BY <1>3 DEF ReadError, TypeOK, TokenForBuffered
<1>4. CASE Reply
  BY <1>4 DEF Reply, TypeOK, TokenForBuffered
<1>5. CASE HandleReturns
  <2>1. pack' \in [replies : Nat, to : {"nobody", "publish", "other"}]
    BY <1>5 DEF HandleReturns, NoPack
  <2>2. pc' \in [Procs -> Places] /\ cont' \in {"handle", "forwarded", "ended"}
    BY <1>5 DEF HandleReturns, WaitPackReturns, TypeOK
  <2>3. TypeOK'
    BY <1>5, <2>1, <2>2, Zenon DEF HandleReturns, TypeOK
  <2>4. TokenForBuffered'
    BY <1>5 DEF HandleReturns, WaitPackReturns, TypeOK, TokenForBuffered
  <2> QED  BY <2>3, <2>4
<1>6. CASE Forward
  BY <1>6 DEF Forward, TypeOK, TokenForBuffered
<1>7. CASE ForwardRefused
  BY <1>7 DEF ForwardRefused, TypeOK, TokenForBuffered
<1>8. CASE ForwardPanics
  BY <1>8 DEF ForwardPanics, TypeOK, TokenForBuffered
<1>9. CASE RunReturns
  BY <1>9 DEF RunReturns, TypeOK, TokenForBuffered
<1> QED
  BY <1>1, <1>2, <1>3, <1>4, <1>5, <1>6, <1>7, <1>8, <1>9 DEF ReaderStep

\* Writers enter and leave the queue, the peer and the gate act on the connection.
LEMMA OutsideInv ==
    ASSUME IInv,
           \/ \E p \in Writers : WriteMsg(p)
           \/ \E w \in Workers : Finish(w)
           \/ PeerSends \/ ConnBreaks \/ AgentClose
    PROVE  IInv'
<1> USE DEF IInv, WriteMsg, Finish, PeerSends, ConnBreaks, AgentClose, Goto, queue, stream,
        reading
<1>1. TypeOK'
  BY DEF TypeOK
<1>2. TokenForBuffered'
  BY DEF TypeOK, TokenForBuffered
<1> QED  BY <1>1, <1>2

\* Every step of the connection preserves the invariant.
THEOREM Invariance == Spec => []IInv
<1>1. IInv /\ [Next]_vars => IInv'
  <2> SUFFICES ASSUME IInv, [Next]_vars PROVE IInv'
    OBVIOUS
  <2>1. CASE UNCHANGED vars
    BY <2>1 DEF IInv, TypeOK, TokenForBuffered, vars, queue, stream, reading
  <2>2. ASSUME NEW p \in Procs, QueueStep(p) PROVE IInv'
    BY <2>2, RefusedInv, WriteInv, SendInv, PanicInv, CloseInv DEF QueueStep
  <2> QED
    BY <2>1, <2>2, FlusherInv, ReaderInv, OutsideInv DEF Next
<1> QED
  BY InitInv, <1>1, PTL DEF Spec

\* Tokens never exceed the capacity of fch nor packs that of the buffer, and every
\* goroutine is at a place of its code.
THEOREM TypeCorrect == Spec => []TypeOK
  BY Invariance, PTL DEF IInv

\* No pack is forgotten in the buffer of an open queue whose flusher runs, however
\* many goroutines write and whatever room fch has.
THEOREM NothingForgotten == Spec => []TokenForBuffered
  BY Invariance, PTL DEF IInv
=============================================================================
