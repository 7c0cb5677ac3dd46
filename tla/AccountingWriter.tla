-------------------------- MODULE AccountingWriter --------------------------
(***************************************************************************)
(* The accounting pipeline of crates/twl-server/src/sink.rs: request       *)
(* threads try_send records into a bounded channel, one dedicated thread   *)
(* takes them out and inserts them into SQLite.                            *)
(***************************************************************************)
EXTENDS Naturals, Sequences, SequencesExt

CONSTANTS
  Records,    \* the records that may be sent, all different
  QueueCap,   \* ACCOUNTING_QUEUE_CAPACITY
  Nothing     \* the writer is blocked in recv

VARIABLES
  queue,      \* the channel, oldest record first
  writing,    \* the record the thread is persisting
  stored,     \* rows in the database
  discarded,  \* records refused by a full channel
  failed      \* records whose insert failed: logged and forgotten

writerVars == <<queue, writing, stored, discarded, failed>>

Init ==
  /\ queue = <<>>
  /\ writing = Nothing
  /\ stored = {} /\ discarded = {} /\ failed = {}

\* AccountingWriter::enqueue: never blocks. The receiver lives as long as the
\* process, so a send is never refused as disconnected.
Enqueue(rec) ==
  /\ IF Len(queue) < QueueCap
     THEN queue' = Append(queue, rec) /\ UNCHANGED discarded
     ELSE discarded' = discarded \cup {rec} /\ UNCHANGED queue
  /\ UNCHANGED <<writing, stored, failed>>

\* Fault: the thread leaves the last record in the channel.
TakeOffByOne ==
  /\ writing = Nothing
  /\ Len(queue) > 1
  /\ writing' = Head(queue)
  /\ queue' = Tail(queue)
  /\ UNCHANGED <<stored, discarded, failed>>

\* The writer thread: rx.recv
Take ==
  /\ writing = Nothing
  /\ queue # <<>>
  /\ writing' = Head(queue)
  /\ queue' = Tail(queue)
  /\ UNCHANGED <<stored, discarded, failed>>

\* UsageStore::record and record_energy: the insert succeeds, or the clock,
\* the pool or the database fails.
Persist ==
  /\ writing # Nothing
  /\ \/ stored' = stored \cup {writing} /\ UNCHANGED failed
     \/ failed' = failed \cup {writing} /\ UNCHANGED stored
  /\ writing' = Nothing
  /\ UNCHANGED <<queue, discarded>>

Write == Take \/ Persist

-----------------------------------------------------------------------------

TypeOK ==
  /\ queue \in Seq(Records) /\ Len(queue) <= QueueCap
  /\ writing \in Records \cup {Nothing}
  /\ stored \subseteq Records
  /\ discarded \subseteq Records
  /\ failed \subseteq Records

\* Records accepted and not yet dealt with, and records dealt with.
Pending == ToSet(queue) \cup ({writing} \ {Nothing})
Settled == stored \cup discarded \cup failed

\* A record handed over has exactly one fate or is still on its way.
OneFate ==
  /\ IsInjective(queue) /\ writing \notin ToSet(queue)
  /\ Pending \cap Settled = {}
  /\ stored \cap discarded = {} /\ stored \cap failed = {} /\ discarded \cap failed = {}
=============================================================================
