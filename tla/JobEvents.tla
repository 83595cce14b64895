------------------------------ MODULE JobEvents -------------------------------
(***************************************************************************)
(* What a job says, and who hears it: log lines and metric points of one   *)
(* orchestrated job go to bounded buffers, to the queues of the open       *)
(* streams and, by one task per event, to the table job_events             *)
(* (forge/orchestrators/base.py, forge/services/job_events.py,             *)
(* forge/db/stores/job_events.py).  A stream replays the buffer and goes   *)
(* on live, or replays the table when the record is gone                   *)
(* (forge/api/routes/_stream.py, training.py).  Lines are numbered in the  *)
(* order in which they are emitted.  How a job comes to its end is         *)
(* TrainingJobs; here it ends in any way.                                  *)
(***************************************************************************)
EXTENDS Integers, Sequences, FiniteSets

CONSTANTS
  LogReaders,     \* streams of log lines (job_log_event_gen)
  MetricReaders,  \* streams of metric points (stream_training)
  MaxBuffer,      \* MAX_LOG_LINES, MAX_METRIC_POINTS
  Limit,          \* rows of one list_job_events
  MaxLines,       \* bound: lines and points that the worker emits
  MaxFaults       \* bound: failed appends and restarts

Readers == LogReaders \union MetricReaders

ASSUME ConstantsAssumption ==
  /\ LogReaders \intersect MetricReaders = {}
  /\ MaxBuffer \in Nat \ {0} /\ Limit \in Nat \ {0}
  /\ MaxLines \in [{"log", "metric"} -> Nat] /\ MaxFaults \in Nat

Kinds == {"log", "metric"}
KindOf(r) == IF r \in LogReaders THEN "log" ELSE "metric"

Terminal == {"completed", "failed", "cancelled"}

\* The None that ends a queue; lines have numbers from 1.
EndMark == 0

Said(kind, n)   == [type |-> kind, n |-> n, status |-> "-"]
StatusIs(s)     == [type |-> "status", n |-> 0, status |-> s]
ResultEvent     == [type |-> "result", n |-> 0, status |-> "-"]

VARIABLES
  status,   \* JobRecord.status; "lost" after a restart
  kept,     \* the record is in the orchestrator's table
  worker,   \* the job's work: "none", "works", "over"
  made,     \* lines and points emitted
  atEnd,    \* the same, when the job ended
  buffer,   \* _log_buffers, _metric_buffers
  tasks,    \* append tasks that wait for the connection, as they were created
  rows,     \* job_events of the job, by sequence
  faults,   \* appends that raised, and restarts
  at,       \* where a stream is
  left,     \* the rest of the buffer that a stream replays
  queue,    \* the queue of a stream
  got,      \* numbers of the lines that a stream has yielded
  live,     \* streams that were attached while the record was there
  from      \* the last line before those of a live stream

job     == <<status, kept, worker, made, atEnd, buffer>>
durable == <<tasks, rows>>
streams == <<at, left, queue, got, live, from>>
vars    == <<job, durable, faults, streams>>

\* create_job has emitted the status pending.
Init ==
  /\ status = "pending" /\ kept = TRUE /\ worker = "none"
  /\ made   = [k \in Kinds |-> 0]
  /\ atEnd  = [k \in Kinds |-> 0]
  /\ buffer = [k \in Kinds |-> <<>>]
  /\ tasks   = <<StatusIs("pending")>>
  /\ rows    = <<>>
  /\ faults  = 0
  /\ at    = [r \in Readers |-> "new"]
  /\ left  = [r \in Readers |-> <<>>]
  /\ queue = [r \in Readers |-> <<>>]
  /\ got   = [r \in Readers |-> <<>>]
  /\ live  = {}
  /\ from  = [r \in Readers |-> 0]

-----------------------------------------------------------------------------
(* The job speaks.                                                         *)

\* _emit_event: nothing without a record.
EmitEvents(events) ==
  /\ tasks'   = IF kept THEN tasks \o events ELSE tasks
  /\ UNCHANGED rows

\* Mutant: the buffer is not bounded.
CapNever(seq) == seq

\* A deque with a maxlen.
Cap(seq) == IF Len(seq) > MaxBuffer THEN Tail(seq) ELSE seq

\* Mutant: the queue is added after the replay.
SubscribersLate(k) ==
  {r \in Readers : KindOf(r) = k /\ at[r] \in {"drain", "last", "live"}}

Subscribers(k) ==
  {r \in Readers : KindOf(r) = k /\ at[r] \in {"replay", "drain", "last", "live"}}

\* The line, or the end mark, goes into the queues of the subscribers.
Tell(msgs) ==
  queue' = [r \in Readers |-> IF r \in Subscribers(KindOf(r))
                              THEN queue[r] \o msgs[KindOf(r)] ELSE queue[r]]

\* _emit_log, _emit_metric.  A worker of a cancelled job may still speak, also
\* after the record is evicted: the buffers are made again.
Emit(k) ==
  /\ worker = "works"
  /\ made[k] < MaxLines[k]
  /\ LET n == made[k] + 1 IN
     /\ made'   = [made EXCEPT ![k] = n]
     /\ buffer' = [buffer EXCEPT ![k] = Cap(Append(@, n))]
     /\ EmitEvents(<<Said(k, n)>>)
     /\ Tell([j \in Kinds |-> IF j = k THEN <<n>> ELSE <<>>])
  /\ UNCHANGED <<status, kept, worker, atEnd, faults, at, left, got, live, from>>

\* start().
Start ==
  /\ status = "pending" /\ kept
  /\ status' = "running"
  /\ worker' = "works"
  /\ EmitEvents(<<StatusIs("running")>>)
  /\ UNCHANGED <<kept, made, atEnd, buffer, faults, streams>>

\* The end of _run, cancel of a job without a task, fail_unstarted_job: status,
\* a last line unless the job succeeded, the events, _finish_logs, in one step.
\* The worker of a cancelled job may go on, or not.
End(s) ==
  /\ status \in {"pending", "running"}
  /\ status' = s
  /\ worker' = IF s = "cancelled" THEN worker ELSE "over"
  /\ IF s = "completed"
     THEN /\ status = "running"
          /\ UNCHANGED <<made, buffer>>
          /\ Tell([j \in Kinds |-> <<EndMark>>])
          /\ EmitEvents(<<StatusIs(s), ResultEvent>>)
     ELSE LET n == made["log"] + 1 IN
          /\ made'   = [made EXCEPT !["log"] = n]
          /\ buffer' = [buffer EXCEPT !["log"] = Cap(Append(@, n))]
          /\ Tell([j \in Kinds |-> IF j = "log" THEN <<n, EndMark>> ELSE <<EndMark>>])
          /\ EmitEvents(<<Said("log", n), StatusIs(s)>>)
  /\ atEnd' = made'
  /\ UNCHANGED <<kept, faults, at, left, got, live, from>>

\* _evict_oldest_job, when the table is full.
Evict ==
  /\ kept /\ status \in Terminal
  /\ kept' = FALSE
  /\ buffer' = [k \in Kinds |-> <<>>]
  /\ UNCHANGED <<status, worker, made, atEnd, durable, faults, streams>>

-----------------------------------------------------------------------------
(* job_events.                                                             *)

\* Mutant: a task that was created later gets the connection first.
AppendEventAny ==
  \E i \in 1 .. Len(tasks) :
    /\ tasks' = SubSeq(tasks, 1, i - 1) \o SubSeq(tasks, i + 1, Len(tasks))
    /\ rows' = Append(rows, tasks[i])
    /\ UNCHANGED <<faults, job, streams>>

\* append_job_event: the lock of the connection is given in order.
AppendEvent ==
  /\ tasks # <<>>
  /\ tasks' = Tail(tasks)
  /\ rows' = Append(rows, Head(tasks))
  /\ UNCHANGED <<faults, job, streams>>

\* An append that raises is logged, and its event is lost.
AppendFails ==
  /\ tasks # <<>> /\ faults < MaxFaults
  /\ tasks' = Tail(tasks)
  /\ faults' = faults + 1
  /\ UNCHANGED <<rows, job, streams>>

\* The server restarts: only the table is left.
Restart ==
  /\ faults < MaxFaults
  /\ faults' = faults + 1
  /\ status' = IF status \in Terminal THEN status ELSE "lost"
  /\ kept' = FALSE
  /\ worker' = "over"
  /\ buffer' = [k \in Kinds |-> <<>>]
  /\ tasks' = <<>>
  /\ at' = [r \in Readers |-> IF at[r] \in {"new", "done"} THEN at[r] ELSE "gone"]
  /\ left' = [r \in Readers |-> <<>>]
  /\ queue' = [r \in Readers |-> <<>>]
  /\ got' = [r \in Readers |-> IF at'[r] = "gone" THEN <<>> ELSE got[r]]
  /\ from' = [r \in Readers |-> IF at'[r] = "gone" THEN 0 ELSE from[r]]
  /\ live' = {r \in live : at'[r] # "gone"}
  /\ UNCHANGED <<made, atEnd, rows>>

\* list_job_events: the first rows by sequence.
Listed == SubSeq(rows, 1, IF Len(rows) < Limit THEN Len(rows) ELSE Limit)

\* The places of the events of a type, the i-th of them, and the lines there.
Places(events, type) == {p \in DOMAIN events : events[p].type = type}

Rank(events, type, p) == Cardinality({q \in Places(events, type) : q <= p})

Nth(events, type, i) ==
  CHOOSE p \in Places(events, type) : Rank(events, type, p) = i

LinesOf(events, k) ==
  [i \in 1 .. Cardinality(Places(events, k)) |-> events[Nth(events, k, i)].n]

\* The last status of a replay, and whether it shows a result.
ReplayedStatus(events) ==
  LET all == Places(events, "status") IN
  IF all = {} THEN "-" ELSE events[Nth(events, "status", Cardinality(all))].status

ShowsResult(events) ==
  /\ \E i \in DOMAIN events : events[i].type = "result"
  /\ ReplayedStatus(events) \in {"-", "completed"}

-----------------------------------------------------------------------------
(* Streams.                                                                *)

Ended == status \in Terminal \/ ~kept

\* A client opens a stream.  A log stream without a record is replayed from the
\* table first; a metric stream is only begun with one, and runs as a task.
Open(r) ==
  /\ at[r] = "new"
  /\ at' = [at EXCEPT ![r] = IF kept THEN "attach"
                             ELSE IF r \in LogReaders THEN "table" ELSE "done"]
  /\ UNCHANGED <<job, durable, faults, left, queue, got, live, from>>

ReplayTable(r) ==
  /\ at[r] = "table"
  /\ got' = [got EXCEPT ![r] = LinesOf(Listed, "log")]
  /\ at' = [at EXCEPT ![r] = "attach"]
  /\ UNCHANGED <<job, durable, faults, left, queue, live, from>>

\* The first step of stream_logs and of stream_metrics: the queue is added and
\* the buffer is copied.  The metric points go on to an unbounded queue without
\* a suspension.
Attach(r) ==
  /\ at[r] = "attach"
  /\ live' = IF kept THEN live \union {r} ELSE live
  /\ from' = [from EXCEPT ![r] = made[KindOf(r)] - Len(buffer[KindOf(r)])]
  /\ IF r \in LogReaders
     THEN /\ left' = [left EXCEPT ![r] = buffer["log"]]
          /\ at' = [at EXCEPT ![r] = "replay"]
          /\ UNCHANGED got
     ELSE /\ got' = [got EXCEPT ![r] = buffer["metric"]]
          /\ at' = [at EXCEPT ![r] = IF kept /\ status \in Terminal THEN "done" ELSE "live"]
          /\ UNCHANGED left
  /\ UNCHANGED <<job, durable, faults, queue>>

Leave(r, how) ==
  /\ at' = [at EXCEPT ![r] = how]
  /\ queue' = [queue EXCEPT ![r] = <<>>]
  /\ left' = [left EXCEPT ![r] = <<>>]

\* Mutant: a stream of a job that is over stops after the replay.
ReplayLineBails(r) ==
  /\ at[r] = "replay"
  /\ IF left[r] # <<>>
     THEN /\ got' = [got EXCEPT ![r] = Append(@, Head(left[r]))]
          /\ left' = [left EXCEPT ![r] = Tail(@)]
          /\ UNCHANGED <<at, queue>>
     ELSE /\ IF Ended THEN Leave(r, "done")
             ELSE at' = [at EXCEPT ![r] = "drain"] /\ UNCHANGED <<left, queue>>
          /\ UNCHANGED got
  /\ UNCHANGED <<job, durable, faults, live, from>>

\* A line of the copied buffer; after the last one the status is looked at.
ReplayLine(r) ==
  /\ at[r] = "replay"
  /\ IF left[r] # <<>>
     THEN /\ got' = [got EXCEPT ![r] = Append(@, Head(left[r]))]
          /\ left' = [left EXCEPT ![r] = Tail(@)]
          /\ UNCHANGED at
     ELSE /\ at' = [at EXCEPT ![r] = IF Ended THEN "last" ELSE "drain"]
          /\ UNCHANGED <<got, left>>
  /\ UNCHANGED <<job, durable, faults, queue, live, from>>

\* One message from the queue.
Receive(r) ==
  /\ at[r] \in {"drain", "last", "live"}
  /\ queue[r] # <<>>
  /\ IF Head(queue[r]) = EndMark
     THEN Leave(r, "done") /\ UNCHANGED got
     ELSE /\ got' = [got EXCEPT ![r] = Append(@, Head(queue[r]))]
          /\ queue' = [queue EXCEPT ![r] = Tail(@)]
          /\ UNCHANGED <<at, left>>
  /\ UNCHANGED <<job, durable, faults, live, from>>

\* Mutant: a stream waits for more although the job was over.
DrainedWaits(r) ==
  /\ at[r] \in {"drain", "last"}
  /\ queue[r] = <<>>
  /\ at' = [at EXCEPT ![r] = "live"]
  /\ UNCHANGED <<job, durable, faults, left, queue, got, live, from>>

\* The queue is drained: a stream whose job was over when it looked stops, the
\* other one waits for more.  Its look at the job every 0.05 s is left out: no
\* stream needs it to end (StreamsEnd).
Drained(r) ==
  /\ at[r] \in {"drain", "last"}
  /\ queue[r] = <<>>
  /\ IF at[r] = "last" THEN Leave(r, "done")
     ELSE at' = [at EXCEPT ![r] = "live"] /\ UNCHANGED <<queue, left>>
  /\ UNCHANGED <<job, durable, faults, got, live, from>>

\* The client goes away, and what it got with it.
Disconnect(r) ==
  /\ at[r] \in {"table", "attach", "replay", "drain", "last", "live"}
  /\ Leave(r, "gone")
  /\ got' = [got EXCEPT ![r] = <<>>]
  /\ from' = [from EXCEPT ![r] = 0]
  /\ live' = live \ {r}
  /\ UNCHANGED <<job, durable, faults>>

ReaderStep(r) ==
  \/ ReplayTable(r) \/ Attach(r) \/ ReplayLine(r) \/ Receive(r) \/ Drained(r)

-----------------------------------------------------------------------------

Next ==
  \/ Start \/ Evict
  \/ \E k \in Kinds : Emit(k)
  \/ \E s \in Terminal : End(s)
  \/ AppendEvent \/ AppendFails \/ Restart
  \/ \E r \in Readers : Open(r) \/ ReaderStep(r) \/ Disconnect(r)

\* Streams are read; whether a job ends is its own matter.
Fairness == \A r \in Readers : WF_vars(ReaderStep(r))

Spec     == Init /\ [][Next]_vars
FairSpec == Spec /\ Fairness

-----------------------------------------------------------------------------
(* Properties.                                                             *)

Numbers == 0 .. MaxLines["log"] + MaxLines["metric"] + 1
Event   == [type : Kinds \union {"status", "result"}, n : Numbers,
            status : Terminal \union {"-", "pending", "running"}]

\* Types of all variables; the buffers stay within their bound.
TypeOK ==
  /\ status \in Terminal \union {"pending", "running", "lost"}
  /\ kept \in BOOLEAN
  /\ worker \in {"none", "works", "over"}
  /\ made \in [Kinds -> Numbers] /\ atEnd \in [Kinds -> Numbers]
  /\ \A k \in Kinds : buffer[k] \in Seq(Numbers) /\ Len(buffer[k]) <= MaxBuffer
  /\ tasks \in Seq(Event) /\ rows \in Seq(Event)
  /\ faults \in 0 .. MaxFaults
  /\ at \in [Readers -> {"new", "table", "attach", "replay", "drain", "last",
                         "live", "done", "gone"}]
  /\ \A r \in Readers : {left[r], queue[r], got[r]} \subseteq Seq(Numbers)
  /\ live \subseteq Readers
  /\ from \in [Readers -> Numbers]

\* A live stream yields the lines from where the buffer began, every line once
\* and in order, however often the buffer wraps while it is replayed; a stream
\* from the table repeats no line.
StreamsAreRuns ==
  \A r \in Readers :
    IF r \in live
    THEN got[r] = [i \in 1 .. Len(got[r]) |-> from[r] + i]
    ELSE \A i, j \in DOMAIN got[r] : i < j => got[r][i] < got[r][j]

\* A live stream that comes to its end has yielded everything up to the end of
\* the job, the ERROR line included, also when the job ended, or its record
\* was evicted, between two of the stream's steps.
StreamsAreComplete ==
  \A r \in live : at[r] = "done" => from[r] + Len(got[r]) >= atEnd[KindOf(r)] /\ Ended

\* Once the events of a finished job are stored, and are no more than one query
\* lists, a replay has every line up to the job's end in the order of their
\* emission, ends with the job's status, and shows a result exactly if the job
\* was completed.
ReplayTellsTheEnd ==
  (faults = 0 /\ tasks = <<>> /\ status \in Terminal /\ Len(rows) <= Limit) =>
    /\ \A k \in Kinds : LET said == LinesOf(Listed, k) IN
         /\ said = [i \in 1 .. Len(said) |-> i]
         /\ Len(said) >= atEnd[k]
    /\ ReplayedStatus(Listed) = status
    /\ ShowsResult(Listed) <=> status = "completed"

\* A log stream ends once its job is over, evicted or not; so does a metric
\* stream that was attached while the record was there.
StreamsEnd ==
  \A r \in Readers :
    (at[r] \in {"table", "attach", "replay", "drain", "last", "live"} /\ Ended)
      ~> (at[r] \in {"done", "gone"} \/ (r \in MetricReaders /\ r \notin live))

=============================================================================
