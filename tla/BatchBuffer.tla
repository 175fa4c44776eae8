---------------------------- MODULE BatchBuffer ----------------------------
(***************************************************************************)
(* internal/adapter/storage/clickhouse: the batch buffer of the store, its *)
(* ticker goroutine, concurrent Saves, and Close (Stop, then conn.Close).  *)
(* A flush swaps the buffer under the lock and writes outside it, so that  *)
(* flushes of several goroutines overlap.                                  *)
(***************************************************************************)
EXTENDS Integers, FiniteSets

CONSTANTS
    Prices,         \* the prices to save, each by one Save
    Savers,         \* goroutines that call Save
    Ticker,         \* the goroutine started by Start
    Closer,         \* the goroutine that calls Close
    MaxSize,
    WritesMayFail   \* flushFn can fail although the connection is open

ASSUME BufferConstants ==
    /\ Ticker \notin Savers /\ Closer \notin Savers /\ Ticker # Closer
    /\ MaxSize \in Int
    /\ WritesMayFail \in BOOLEAN

Flushers == Savers \cup {Ticker, Closer}

VARIABLES
    added,      \* the prices whose Add has appended them
    prices,     \* b.prices
    pc,         \* goroutine -> where it is
    batch,      \* goroutine -> the batch it is writing
    written,    \* prices of batches counted in flushCount
    lost,       \* prices of batches counted in flushErrors
    rows,       \* price -> the rows of the table that have it
    tick,       \* a tick is waiting in ticker.C
    closing,    \* b.done is closed (and the ticker stopped)
    conn,       \* the connection is open
    before      \* history: the prices added before Stop was called

vars == <<added, prices, pc, batch, written, lost, rows, tick, closing, conn, before>>

PC == {"idle", "flush", "write", "retry", "exited", "wait", "closeconn"}

TypeOK ==
    /\ added \subseteq Prices /\ prices \subseteq Prices
    /\ pc \in [Flushers -> PC]
    /\ batch \in [Flushers -> SUBSET Prices]
    /\ written \subseteq Prices /\ lost \subseteq Prices /\ before \subseteq Prices
    /\ rows \in [Prices -> 0..2]
    /\ tick \in BOOLEAN /\ closing \in BOOLEAN /\ conn \in BOOLEAN

----------------------------------------------------------------------------

\* Where a goroutine goes after a flush.
AfterFlush(g) == IF g = Closer THEN "closeconn" ELSE "idle"

Goto(g, where) == pc' = [pc EXCEPT ![g] = where]

\* Save: Add under the lock; the goroutine that fills the buffer flushes it.
Add(g, p) ==
    /\ g \in Savers
    /\ pc[g] = "idle"
    /\ p \notin added
    /\ added' = added \cup {p}
    /\ prices' = prices \cup {p}
    /\ Goto(g, IF Cardinality(prices') >= MaxSize THEN "flush" ELSE "idle")
    /\ UNCHANGED <<batch, written, lost, rows, tick, closing, conn, before>>

\* b.prices = a new slice.  (Mutant: the old one stays.)
Empty_Forgotten == UNCHANGED prices

Empty == prices' = {}

\* flush under the lock: take the batch, leave an empty buffer.
Swap(g) ==
    /\ pc[g] = "flush"
    /\ batch' = [batch EXCEPT ![g] = prices]
    /\ Empty
    /\ Goto(g, IF prices = {} THEN AfterFlush(g) ELSE "write")
    /\ UNCHANGED <<added, written, lost, rows, tick, closing, conn, before>>

\* An INSERT of the batch.
Insert(g) == rows' = [p \in Prices |-> IF p \in batch[g] THEN rows[p] + 1 ELSE rows[p]]

\* flushFn succeeds: flushCount.Add(1).
WriteOK(g) ==
    /\ pc[g] \in {"write", "retry"}
    /\ conn
    /\ Insert(g)
    /\ written' = written \cup batch[g]
    /\ batch' = [batch EXCEPT ![g] = {}]
    /\ Goto(g, AfterFlush(g))
    /\ UNCHANGED <<added, prices, lost, tick, closing, conn, before>>

\* flushFn fails: once more after a pause; the second failure drops the batch.  The
\* table may have the batch all the same: the answer was lost, not the INSERT.
WriteFails(g) ==
    /\ WritesMayFail \/ ~conn
    /\ UNCHANGED rows \/ (conn /\ Insert(g))
    /\ \/ /\ pc[g] = "write"
          /\ Goto(g, "retry")
          /\ UNCHANGED <<batch, lost>>
       \/ /\ pc[g] = "retry"
          /\ lost' = lost \cup batch[g]
          /\ batch' = [batch EXCEPT ![g] = {}]
          /\ Goto(g, AfterFlush(g))
    /\ UNCHANGED <<added, prices, written, tick, closing, conn, before>>

\* time.Ticker: the channel holds one tick.
TickerFires ==
    /\ ~closing
    /\ tick' = TRUE
    /\ UNCHANGED <<added, prices, pc, batch, written, lost, rows, closing, conn, before>>

\* The ticker goroutine's select; with both ready it may take either.
\* (Mutant: the tick is taken and nothing is flushed.)
TakeTick_NoFlush ==
    /\ pc[Ticker] = "idle" /\ tick
    /\ tick' = FALSE
    /\ UNCHANGED <<added, prices, pc, batch, written, lost, rows, closing, conn, before>>

TakeTick ==
    /\ pc[Ticker] = "idle" /\ tick
    /\ tick' = FALSE
    /\ Goto(Ticker, "flush")
    /\ UNCHANGED <<added, prices, batch, written, lost, rows, closing, conn, before>>

TakeDone ==
    /\ pc[Ticker] = "idle" /\ closing
    /\ Goto(Ticker, "exited")
    /\ UNCHANGED <<added, prices, batch, written, lost, rows, tick, closing, conn, before>>

\* Stop: stop the ticker and close done ...
StopBegin ==
    /\ pc[Closer] = "idle" /\ ~closing
    /\ closing' = TRUE
    /\ before' = added
    /\ Goto(Closer, "wait")
    /\ UNCHANGED <<added, prices, batch, written, lost, rows, tick, conn>>

\* ... wg.Wait, which knows of the ticker goroutine only; then flush.
\* (Mutant: Stop does not flush.)
StopWait_NoFlush ==
    /\ pc[Closer] = "wait"
    /\ pc[Ticker] = "exited"
    /\ Goto(Closer, "closeconn")
    /\ UNCHANGED <<added, prices, batch, written, lost, rows, tick, closing, conn, before>>

StopWait ==
    /\ pc[Closer] = "wait"
    /\ pc[Ticker] = "exited"
    /\ Goto(Closer, "flush")
    /\ UNCHANGED <<added, prices, batch, written, lost, rows, tick, closing, conn, before>>

\* Close goes on to close the connection.
CloseConn ==
    /\ pc[Closer] = "closeconn"
    /\ conn' = FALSE
    /\ Goto(Closer, "exited")
    /\ UNCHANGED <<added, prices, batch, written, lost, rows, tick, closing, before>>

Init ==
    /\ added = {} /\ prices = {} /\ written = {} /\ lost = {} /\ before = {}
    /\ pc = [g \in Flushers |-> "idle"]
    /\ batch = [g \in Flushers |-> {}]
    /\ rows = [p \in Prices |-> 0]
    /\ tick = FALSE /\ closing = FALSE /\ conn = TRUE

Flush(g) == Swap(g) \/ WriteOK(g) \/ WriteFails(g)

Next ==
    \/ \E g \in Savers, p \in Prices : Add(g, p)
    \/ \E g \in Flushers : Flush(g)
    \/ TickerFires \/ TakeTick \/ TakeDone
    \/ StopBegin \/ StopWait \/ CloseConn

Spec == Init /\ [][Next]_vars

\* Goroutines go on; the ticker ticks until it is stopped.  Go's select picks
\* one of several ready cases at random, so that done is taken in the end.
FairSpec ==
    /\ Spec
    /\ \A g \in Flushers : WF_vars(Flush(g))
    /\ WF_vars(TickerFires) /\ WF_vars(TakeTick)
    /\ SF_vars(TakeDone)
    /\ WF_vars(StopWait) /\ WF_vars(CloseConn)

----------------------------------------------------------------------------
(* Properties *)

\* The rows a price may have: none while it is in the buffer or a write has not
\* failed, one or two when it counts as written.  Two, or one for a price that is
\* still to be written, only if a write can fail and have its effect.
RowsOK ==
    /\ \A p \in Prices : p \in prices \/ p \notin added => rows[p] = 0
    /\ \A g \in Flushers : \A p \in batch[g] :
         rows[p] = 0 \/ (rows[p] = 1 /\ WritesMayFail /\ pc[g] = "retry")
    /\ \A p \in written : rows[p] = 1 \/ (rows[p] = 2 /\ WritesMayFail)

\* No price is dropped or written twice by overlapping Adds and flushes: each
\* one added is in the buffer, in one goroutine's batch, written, or counted
\* as lost, and in only one of these.  The table has what is written: once, or
\* twice if a write that failed had its effect; and it has nothing early.
Conserved ==
    /\ \A p \in Prices :
         p \in added <=> p \in prices \cup written \cup lost \/ \E g \in Flushers : p \in batch[g]
    /\ \A g \in Flushers : batch[g] \cap (prices \cup written \cup lost) = {}
    /\ \A g, h \in Flushers : g # h => batch[g] \cap batch[h] = {}
    /\ prices \cap (written \cup lost) = {}
    /\ written \cap lost = {}
    /\ RowsOK

\* Nothing that was added before Stop is left in the buffer when the
\* connection is closed: it is written, lost, or in the hands of a Save that
\* is still flushing.
StopLeavesNothing == ~conn => before \cap prices = {}

\* A price does not stay in the buffer for ever: a full buffer, the ticker or
\* Stop flushes it.
BufferDrains == \A p \in Prices : (p \in prices /\ ~closing) ~> p \notin prices

\* Between Stop's wg.Wait and its flush the buffer may hold everything; from
\* its swap on only prices added later.
DrainedInv ==
    /\ before \subseteq added
    /\ pc[Closer] \in {"idle", "wait", "flush"} \/ before \cap prices = {}
    /\ ~conn => pc[Closer] = "exited"
    /\ closing <=> pc[Closer] # "idle"
    /\ \A g \in Flushers : pc[g] \notin {"write", "retry"} => batch[g] = {}
    /\ \A g \in Flushers \ {Closer} : pc[g] \notin {"wait", "closeconn"}

BufferInv == TypeOK /\ Conserved /\ DrainedInv
=============================================================================
