------------------------------- MODULE LogBatch -------------------------------
(***************************************************************************)
(* The batcher of container log lines: messages queued by the handlers of  *)
(* the pool, collected and written by one goroutine, stored one by one     *)
(* when the queue is full, the batcher closed or a batch insert failed,    *)
(* and drained when the process shuts down.                                *)
(*                                                                         *)
(* A message carries a line; a runner that reconnects sends lines again.   *)
(* A step is one critical section of the batcher, one receive from its     *)
(* channel, or one statement.                                              *)
(***************************************************************************)
EXTENDS Integers, Sequences, FiniteSets

CONSTANTS Lines,
          Keyed,         \* the lines of which the unique index tells copies
                         \* apart: a runner's time-stamp and a known container
          MaxMessages,   \* bound: messages received
          BatchRows,     \* logBatchMaxRows
          QueueRoom,     \* logBatchQueue
          MaxLogFaults   \* bound: statements that fail

Messages == 1 .. MaxMessages

ASSUME LogBatchAssumption ==
    /\ Keyed \subseteq Lines /\ MaxMessages \in Nat /\ BatchRows \in Nat \ {0}
    /\ QueueRoom \in Nat /\ MaxLogFaults \in Nat

VARIABLES carries,   \* the lines of the messages received so far, in order
          queue,     \* the channel in
          batch,     \* what the goroutine has collected
          writer,    \* the goroutine: at its select, storing a failed batch row
                     \* by row, done, or ended by a panic
          direct,    \* messages whose handlers store them on their own
          refused,   \* messages whose own insert failed
          stored,    \* container_logs: the copies of each line
          shut,      \* closed
          logFaults

logVars == <<carries, queue, batch, writer, direct, refused, stored, shut, logFaults>>

LogInit ==
    /\ carries = << >> /\ queue = << >> /\ batch = << >> /\ writer = "select"
    /\ direct = {} /\ refused = {} /\ stored = [l \in Lines |-> 0]
    /\ shut = FALSE /\ logFaults = 0

LogFault == logFaults < MaxLogFaults /\ logFaults' = logFaults + 1

\* ON DUPLICATE KEY UPDATE id = id.
Inserted(table, l) == [table EXCEPT ![l] = IF l \in Keyed /\ @ > 0 THEN @ ELSE @ + 1]

Copies(b, l) == Cardinality({i \in DOMAIN b : carries[b[i]] = l})

\* CreateContainerLogs: the rows of one statement.  All copies of a line go in,
\* but for one the index knows: the first, if the table has none.
InsertedAll(table, b) ==
    [l \in Lines |-> IF l \notin Keyed THEN table[l] + Copies(b, l)
                     ELSE IF table[l] = 0 /\ Copies(b, l) > 0 THEN 1
                     ELSE table[l]]

\* handleContainerLog and Add: the test of closed and the send are under the
\* lock that Close takes.
Add(l) ==
    LET m == Len(carries) + 1 IN
    /\ m \in Messages /\ carries' = Append(carries, l)
    /\ IF ~shut /\ Len(queue) < QueueRoom
       THEN queue' = Append(queue, m) /\ UNCHANGED direct
       ELSE direct' = direct \cup {m} /\ UNCHANGED queue
    /\ UNCHANGED <<batch, writer, refused, stored, shut, logFaults>>

\* CreateContainerLog for message m, or its failure.
Single(m) ==
    \/ stored' = Inserted(stored, carries[m]) /\ UNCHANGED <<refused, logFaults>>
    \/ LogFault /\ refused' = refused \cup {m} /\ UNCHANGED stored

StoreOne(m) ==
    /\ m \in direct /\ direct' = direct \ {m} /\ Single(m)
    /\ UNCHANGED <<carries, queue, batch, writer, shut>>

\* The goroutine receives a message; a batch that is full is written first.
Collect ==
    /\ writer = "select" /\ queue # << >> /\ Len(batch) < BatchRows
    /\ batch' = Append(batch, Head(queue)) /\ queue' = Tail(queue)
    /\ UNCHANGED <<carries, writer, direct, refused, stored, shut, logFaults>>

(***************************************************************************)
(* The batch is written: it is full, the ticker has fired or the channel   *)
(* is closed and empty.  A statement that fails has stored nothing, or all *)
(* of it when only its answer was lost.                                    *)
(***************************************************************************)
WriteBatch ==
    /\ writer = "select" /\ batch # << >>
    /\ \/ /\ stored' = InsertedAll(stored, batch) /\ batch' = << >>
          /\ UNCHANGED <<writer, logFaults>>
       \/ /\ LogFault /\ writer' = "rows" /\ UNCHANGED batch
          /\ stored' \in {stored, InsertedAll(stored, batch)}
    /\ UNCHANGED <<carries, queue, direct, refused, shut>>

\* Row by row after a failure.
WriteRow ==
    /\ writer = "rows" /\ Single(Head(batch)) /\ batch' = Tail(batch)
    /\ writer' = IF Len(batch) = 1 THEN "select" ELSE "rows"
    /\ UNCHANGED <<carries, queue, direct, shut>>

\* A panic under a write is recovered, and ends the goroutine with what it has
\* collected; what is queued stays in the channel, and Close does not wait.
Panics ==
    /\ writer \in {"select", "rows"} /\ batch # << >> /\ LogFault /\ writer' = "panicked"
    /\ UNCHANGED <<carries, queue, batch, direct, refused, stored, shut>>

CloseBatcher ==
    /\ ~shut /\ shut' = TRUE
    /\ UNCHANGED <<carries, queue, batch, writer, direct, refused, stored, logFaults>>

\* Mutant: the goroutine returns without writing what it has collected.
DrainedUnwritten ==
    /\ writer = "select" /\ shut /\ queue = << >> /\ writer' = "done"
    /\ UNCHANGED <<carries, queue, batch, direct, refused, stored, shut, logFaults>>

\* The channel is closed and empty and the last batch is written: Close goes on
\* and the process may exit.
Drained ==
    /\ writer = "select" /\ shut /\ queue = << >> /\ batch = << >> /\ writer' = "done"
    /\ UNCHANGED <<carries, queue, batch, direct, refused, stored, shut, logFaults>>

LogNext ==
    \/ Collect \/ WriteBatch \/ WriteRow \/ Panics \/ CloseBatcher \/ Drained
    \/ \E l \in Lines : Add(l)
    \/ \E m \in Messages : StoreOne(m)

LogSpec == LogInit /\ [][LogNext]_logVars

(***************************************************************************)
(* Once the batcher has drained, every line it was handed is stored, but   *)
(* for those whose own insert failed and those whose handlers are still    *)
(* about it ("the line is stored directly instead of being dropped", Add;  *)
(* "writes everything queued", Close), and at no time is a line that the   *)
(* index knows stored twice, replayed or retried as it may be.  After a    *)
(* panic the goroutine has not drained, and what it held is lost.          *)
(***************************************************************************)
LinesKept ==
    /\ \A l \in Keyed : stored[l] <= 1
    /\ writer = "done" =>
          \A m \in DOMAIN carries : m \in direct \cup refused \/ stored[carries[m]] >= 1
=============================================================================
