-------------------------- MODULE BatchBufferProofs --------------------------
(***************************************************************************)
(* For any number of prices and of goroutines, and any size of the buffer: *)
(* BufferInv is inductive, and so nothing is dropped, nothing is written   *)
(* twice but by a retry, and nothing that was added before Stop stays      *)
(* behind in the buffer.                                                   *)
(***************************************************************************)
EXTENDS BatchBuffer, TLAPS

\* The state NewBatchBuffer and Start leave.
LEMMA BufferInit == Init => BufferInv
<1> SUFFICES ASSUME Init PROVE BufferInv
  OBVIOUS
<1> USE DEF Init
<1>1. TypeOK
  <2>1. rows \in [Prices -> 0..2]
    OBVIOUS
  <2>2. pc \in [Flushers -> PC] /\ batch \in [Flushers -> SUBSET Prices]
    BY DEF PC
  <2>3. QED BY <2>1, <2>2 DEF TypeOK
<1>2. Conserved
  BY DEF Conserved, RowsOK
<1>3. DrainedInv
  BY BufferConstants DEF DrainedInv, Flushers
<1>4. QED BY <1>1, <1>2, <1>3 DEF BufferInv

\* Add puts a price that is nowhere else into the buffer.
LEMMA AddInv ==
    ASSUME BufferInv, NEW g \in Savers, NEW p \in Prices, Add(g, p)
    PROVE  BufferInv'
<1> USE DEF BufferInv, Add, Goto
<1>1. g \in Flushers /\ g # Closer /\ g # Ticker /\ Closer \in Flushers
  BY BufferConstants DEF Flushers
<1>2. pc' \in [Flushers -> PC] /\ pc'[g] \in {"idle", "flush"}
  BY <1>1 DEF TypeOK, PC
<1>3. \A h \in Flushers : h # g => pc'[h] = pc[h]
  BY <1>1 DEF TypeOK
<1>4. TypeOK'
  BY <1>2 DEF TypeOK
<1>5. /\ p \notin prices /\ p \notin written /\ p \notin lost
      /\ \A h \in Flushers : p \notin batch[h]
  BY DEF Conserved
<1>6. Conserved'
  <2>1. RowsOK'
    BY <1>2, <1>3, <1>5 DEF Conserved, RowsOK, DrainedInv
  <2>2. QED BY <1>5, <2>1 DEF Conserved
<1>7. DrainedInv'
  BY <1>1, <1>2, <1>3, <1>5 DEF DrainedInv
<1>8. QED BY <1>4, <1>6, <1>7

\* The swap moves the buffer into the goroutine's own batch.
LEMMA SwapInv ==
    ASSUME BufferInv, NEW g \in Flushers, Swap(g)
    PROVE  BufferInv'
<1> USE DEF BufferInv, Swap, Goto, Empty
<1>1. batch[g] = {}
  BY DEF DrainedInv
<1>2. /\ batch'[g] = prices /\ prices' = {}
      /\ \A h \in Flushers : h # g => batch'[h] = batch[h] /\ pc'[h] = pc[h]
      /\ UNCHANGED <<added, written, lost, rows, closing, conn, before>>
  BY DEF TypeOK
<1>3. /\ prices # {} => pc'[g] = "write"
      /\ pc'[g] \in {"write", "idle", "closeconn"}
      /\ g = Closer => pc'[g] # "idle"
      /\ g # Closer => pc'[g] # "closeconn"
  BY DEF TypeOK, AfterFlush
<1>4. TypeOK'
  BY <1>3 DEF TypeOK, PC
<1>5. RowsOK'
  BY <1>2 DEF Conserved, RowsOK, TypeOK
<1>6. Conserved'
  BY <1>1, <1>2, <1>5 DEF Conserved
<1>7. DrainedInv'
  BY <1>2, <1>3 DEF DrainedInv, TypeOK
<1>8. QED BY <1>4, <1>6, <1>7

\* What a write does to the table, whether or not it fails.
LEMMA WriteRows ==
    ASSUME BufferInv, NEW g \in Flushers, WriteOK(g) \/ WriteFails(g)
    PROVE  /\ rows' \in [Prices -> 0..2]
           /\ \A p \in Prices : p \notin batch[g] => rows'[p] = rows[p]
           /\ \A p \in batch[g] : rows'[p] \in {rows[p], rows[p] + 1}
           /\ WriteOK(g) => \A p \in batch[g] : rows'[p] = rows[p] + 1
           /\ WriteFails(g) /\ ~WritesMayFail => UNCHANGED rows
<1>1. rows \in [Prices -> 0..2] /\ batch[g] \subseteq Prices
  BY DEF BufferInv, TypeOK
<1>2. \A p \in batch[g] : rows[p] \in 0..1
  BY DEF BufferInv, Conserved, RowsOK
<1>3. UNCHANGED rows \/ Insert(g)
  BY DEF WriteOK, WriteFails
<1>4. WriteOK(g) => Insert(g)
  BY DEF WriteOK
<1>5. WriteFails(g) /\ ~WritesMayFail => UNCHANGED rows
  BY DEF WriteFails
<1>6. CASE UNCHANGED rows /\ ~Insert(g)
  BY <1>1, <1>4, <1>5, <1>6
<1>7. CASE Insert(g)
  <2>1. /\ \A p \in batch[g] : rows'[p] = rows[p] + 1
        /\ \A p \in Prices : p \notin batch[g] => rows'[p] = rows[p]
    BY <1>1, <1>7 DEF Insert
  <2>2. rows' \in [Prices -> 0..2]
    BY <1>1, <1>2, <1>7 DEF Insert
  <2>3. QED BY <1>5, <2>1, <2>2
<1>8. QED BY <1>3, <1>6, <1>7

\* A write moves the batch to where it ends: written, or counted as lost.
LEMMA WriteInv ==
    ASSUME BufferInv, NEW g \in Flushers, WriteOK(g) \/ WriteFails(g)
    PROVE  BufferInv'
<1> USE DEF BufferInv
<1>1. CASE pc' = [pc EXCEPT ![g] = "retry"] /\ UNCHANGED <<batch, lost, written>>
  <2>1. /\ pc[g] = "write" /\ UNCHANGED <<added, prices, tick, closing, conn, before>>
        /\ WriteFails(g)
    BY <1>1 DEF WriteOK, WriteFails, Goto, AfterFlush, TypeOK
  <2>2. pc'[g] = "retry" /\ \A h \in Flushers : h # g => pc'[h] = pc[h]
    BY <1>1 DEF TypeOK
  <2>3. RowsOK'
    <3>1. \A p \in Prices : p \in prices \/ p \notin added \/ p \in written => p \notin batch[g]
      BY DEF Conserved
    <3>2. \A h \in Flushers : h # g => \A p \in batch[h] : p \in Prices /\ p \notin batch[g]
      BY DEF Conserved, TypeOK
    <3>3. \A p \in batch[g] : rows[p] = 0
      BY <2>1 DEF Conserved, RowsOK
    <3>4. \A p \in batch[g] : rows'[p] = 0 \/ (rows'[p] = 1 /\ WritesMayFail)
      BY <2>1, <3>3, WriteRows
    <3>5. written \subseteq Prices
      BY DEF TypeOK
    <3>6. QED BY <1>1, <2>1, <2>2, <3>1, <3>2, <3>4, <3>5, WriteRows DEF Conserved, RowsOK
  <2>4. TypeOK'
    BY <1>1, <2>1, WriteRows DEF TypeOK, PC
  <2>5. QED BY <1>1, <2>1, <2>2, <2>3, <2>4 DEF Conserved, DrainedInv
<1>2. CASE /\ pc' = [pc EXCEPT ![g] = AfterFlush(g)]
           /\ batch' = [batch EXCEPT ![g] = {}]
           /\ \/ written' = written \cup batch[g] /\ lost' = lost /\ WriteOK(g)
              \/ lost' = lost \cup batch[g] /\ written' = written
  <2>1. /\ UNCHANGED <<added, prices, tick, closing, conn, before>>
        /\ pc[g] \in {"write", "retry"}
    BY DEF WriteOK, WriteFails
  <2>2. /\ batch'[g] = {} /\ \A h \in Flushers : h # g => batch'[h] = batch[h]
        /\ pc'[g] = AfterFlush(g) /\ \A h \in Flushers : h # g => pc'[h] = pc[h]
    BY <1>2 DEF TypeOK
  <2>3. TypeOK'
    BY <1>2, <2>1, WriteRows DEF TypeOK, PC, AfterFlush
  <2>4. RowsOK'
    <3>1. \A p \in Prices : p \in prices \/ p \notin added \/ p \in written => p \notin batch[g]
      BY DEF Conserved
    <3>2. \A h \in Flushers : h # g => \A p \in batch[h] : p \in Prices /\ p \notin batch[g]
      BY DEF Conserved, TypeOK
    <3>3. ASSUME NEW p \in written'
          PROVE  rows'[p] = 1 \/ (rows'[p] = 2 /\ WritesMayFail)
      <4>1. CASE p \in written
        <5>1. p \in Prices
          BY <4>1 DEF TypeOK
        <5>2. QED BY <3>1, <4>1, <5>1, WriteRows DEF Conserved, RowsOK
      <4>2. CASE p \notin written
        <5>1. p \in batch[g] /\ WriteOK(g)
          BY <1>2, <3>3, <4>2
        <5>2. rows[p] = 0 \/ (rows[p] = 1 /\ WritesMayFail)
          BY <5>1 DEF Conserved, RowsOK
        <5>3. rows'[p] = rows[p] + 1
          BY <5>1, WriteRows
        <5>4. QED BY <5>2, <5>3
      <4>3. QED BY <4>1, <4>2
    <3>4. QED BY <2>1, <2>2, <3>1, <3>2, <3>3, WriteRows DEF Conserved, RowsOK
  <2>5. Conserved'
    BY <1>2, <2>1, <2>2, <2>4 DEF Conserved
  <2>6. DrainedInv'
    <3>1. CASE g = Closer
      BY <2>1, <2>2, <3>1 DEF DrainedInv, AfterFlush
    <3>2. CASE g # Closer
      <4>1. Closer \in Flushers
        BY DEF Flushers
      <4>2. QED BY <2>1, <2>2, <3>2, <4>1 DEF DrainedInv, AfterFlush
    <3>3. QED BY <3>1, <3>2
  <2>7. QED BY <2>3, <2>5, <2>6
<1>3. QED BY <1>1, <1>2 DEF WriteOK, WriteFails, Goto

\* The ticker goroutine and Close.
LEMMA ControlInv ==
    ASSUME BufferInv,
           TickerFires \/ TakeTick \/ TakeDone \/ StopBegin \/ StopWait \/ CloseConn
    PROVE  BufferInv'
<1> USE DEF BufferInv
<1>1. Ticker \in Flushers /\ Closer \in Flushers /\ Ticker # Closer
  BY BufferConstants DEF Flushers
<1>2. CASE TickerFires
  BY <1>2 DEF TickerFires, TypeOK, Conserved, RowsOK, DrainedInv
<1>3. CASE TakeTick
  <2>1. TypeOK'
    BY <1>3 DEF TakeTick, Goto, TypeOK, PC
  <2>2. UNCHANGED <<added, prices, batch, written, lost, rows, closing, conn, before>>
    BY <1>3 DEF TakeTick
  <2>3. pc'[Ticker] = "flush" /\ pc[Ticker] = "idle"
        /\ \A h \in Flushers : h # Ticker => pc'[h] = pc[h]
    BY <1>1, <1>3 DEF TakeTick, Goto, TypeOK
  <2>4. Conserved'
    BY <2>2, <2>3 DEF Conserved, RowsOK
  <2>5. DrainedInv'
    BY <1>1, <2>2, <2>3 DEF DrainedInv
  <2>6. QED BY <2>1, <2>4, <2>5
<1>4. CASE TakeDone
  BY <1>1, <1>4 DEF TakeDone, Goto, TypeOK, PC, Conserved, RowsOK, DrainedInv
<1>5. CASE StopBegin
  BY <1>1, <1>5 DEF StopBegin, Goto, TypeOK, PC, Conserved, RowsOK, DrainedInv
<1>6. CASE StopWait
  BY <1>1, <1>6 DEF StopWait, Goto, TypeOK, PC, Conserved, RowsOK, DrainedInv
<1>7. CASE CloseConn
  <2>1. TypeOK'
    BY <1>7 DEF CloseConn, Goto, TypeOK, PC
  <2>2. UNCHANGED <<added, prices, batch, written, lost, rows, closing, before>>
    BY <1>7 DEF CloseConn
  <2>3. pc'[Closer] = "exited" /\ pc[Closer] = "closeconn"
        /\ \A h \in Flushers : h # Closer => pc'[h] = pc[h]
    BY <1>1, <1>7 DEF CloseConn, Goto, TypeOK
  <2>4. Conserved'
    BY <2>2, <2>3 DEF Conserved, RowsOK
  <2>5. DrainedInv'
    BY <1>1, <2>2, <2>3 DEF DrainedInv
  <2>6. QED BY <2>1, <2>4, <2>5
<1>8. QED BY <1>2, <1>3, <1>4, <1>5, <1>6, <1>7

\* Every step keeps the invariant.
LEMMA BufferNext == BufferInv /\ [Next]_vars => BufferInv'
<1> SUFFICES ASSUME BufferInv, [Next]_vars PROVE BufferInv'
  OBVIOUS
<1>1. CASE UNCHANGED vars
  BY <1>1 DEF vars, BufferInv, TypeOK, Conserved, RowsOK, DrainedInv
<1>2. QED BY <1>1, AddInv, SwapInv, WriteInv, ControlInv DEF Next, Flush

\* The invariant of the buffer holds in every reachable state.
THEOREM BufferInvariant == Spec => []BufferInv
  BY BufferInit, BufferNext, PTL DEF Spec

\* Overlapping Adds and flushes drop nothing: each price is in exactly one place.
\* The table has what counts as written, twice only if a failed write had its
\* effect before the retry.
THEOREM PricesConserved == Spec => []Conserved
<1>1. BufferInv => Conserved
  BY DEF BufferInv
<1>2. QED BY <1>1, BufferInvariant, PTL

\* What was added before Stop is not in the buffer any more when Close closes
\* the connection.
THEOREM StopDrains == Spec => []StopLeavesNothing
<1>1. BufferInv => StopLeavesNothing
  BY DEF BufferInv, DrainedInv, StopLeavesNothing
<1>2. QED BY <1>1, BufferInvariant, PTL

=============================================================================
