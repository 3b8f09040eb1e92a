---------------------------- MODULE ControlPlane ----------------------------
(***************************************************************************)
(* The control plane (packages/fw-control/src/server.js): it answers       *)
(* telemetry requests, keeps the accepted ones in a queue bounded in       *)
(* requests and in bytes until the drain timer takes them, writes their    *)
(* events to its audit log, and keeps a window of the latest events for    *)
(* the dashboard.  A handler runs to its end without awaiting anything, so *)
(* it is one step.  An event counts as one byte of its request's body.     *)
(***************************************************************************)
EXTENDS Integers, Sequences

CONSTANTS
    MaxQueueSize,        \* MAX_QUEUE_SIZE
    MaxQueueBytes,       \* MAX_QUEUE_BYTES
    MaxBodyBytes,        \* MAX_TELEMETRY_BODY_BYTES
    MaxEventsPerBatch,   \* MAX_EVENTS_PER_BATCH
    MaxRecent,           \* MAX_RECENT
    DrainSize,           \* requests taken by one run of the drain timer
    TokensAgree          \* the agent's token is the one the server wants

ASSUME ControlAssumption ==
    /\ {MaxQueueSize, MaxQueueBytes, MaxBodyBytes, MaxEventsPerBatch} \subseteq Nat
    /\ MaxRecent \in Nat \ {0}
    /\ DrainSize \in Nat \ {0}
    /\ TokensAgree \in BOOLEAN

VARIABLES
    server,     \* the process: "down", "up", or "closing" after a signal
    logFd,      \* its audit log: "none", "open", or "closed" by the handler
    queue,      \* telemetryQueue, as the batch of each request
    queueBytes,
    recent,     \* recentEvents
    accepted,   \* events answered with 202 in this run of the server (history)
    logged      \* events in the audit log file, across runs

controlVars == <<server, logFd, queue, queueBytes, recent, accepted, logged>>

ControlInit ==
    /\ server = "up"
    /\ logFd \in {"none", "open"}
    /\ queue = <<>>
    /\ queueBytes = 0
    /\ recent = <<>>
    /\ accepted = <<>>
    /\ logged = <<>>

Bytes(batch) == Len(batch)

SumBytes(batches) ==
    LET sum[i \in 0..Len(batches)] == IF i = 0 THEN 0 ELSE sum[i - 1] + Bytes(batches[i])
    IN  sum[Len(batches)]

-----------------------------------------------------------------------------
(* POST /v1/telemetry *)

\* Mutant: the byte budget is checked before the request is added.
QueueFull_IgnoresRequest(batch) ==
    Len(queue) >= MaxQueueSize \/ queueBytes > MaxQueueBytes

QueueFull(batch) ==
    Len(queue) >= MaxQueueSize \/ queueBytes + Bytes(batch) > MaxQueueBytes

\* bodyLimit, then the schema, then the token, then the queue.
StatusOf(batch) ==
    IF Bytes(batch) > MaxBodyBytes THEN 413
    ELSE IF Len(batch) > MaxEventsPerBatch THEN 400
    ELSE IF ~TokensAgree THEN 401
    ELSE IF QueueFull(batch) THEN 503
    ELSE 202

\* Mutant: the window is trimmed once for each request.
Window_OncePerRequest(batch) ==
    LET all == recent \o batch
    IN  IF Len(all) > MaxRecent THEN Tail(all) ELSE all

\* push() and shift() for each event: the last MaxRecent of them stay.
Window(batch) ==
    LET all == recent \o batch
    IN  IF Len(all) > MaxRecent
          THEN SubSeq(all, Len(all) - MaxRecent + 1, Len(all)) ELSE all

\* persistEvent: without an open log, or when the write fails, nothing.
Persist(batch) ==
    logged' = IF logFd = "open" THEN logged \o batch ELSE logged

Accept(batch) ==
    /\ queue' = Append(queue, batch)
    /\ queueBytes' = queueBytes + Bytes(batch)
    /\ Persist(batch)
    /\ recent' = Window(batch)
    /\ accepted' = accepted \o batch
    /\ UNCHANGED <<server, logFd>>

\* A closing server finishes the requests that had reached it; the framework
\* answers the others with 503.
Answer(batch) ==
    {StatusOf(batch)} \cup (IF server = "closing" THEN {503} ELSE {})

HandlePost(batch, status) ==
    /\ server # "down"
    /\ status \in Answer(batch)
    /\ IF status = 202
         THEN Accept(batch)
         ELSE UNCHANGED controlVars

-----------------------------------------------------------------------------
(* The drain timer, signals, and the next run of the process. *)

Smaller(m, n) == IF m < n THEN m ELSE n

\* Mutant: the drained requests go on counting.
Drain_KeepsBytes ==
    /\ server # "down"
    /\ queue # <<>>
    /\ queue' = SubSeq(queue, Smaller(DrainSize, Len(queue)) + 1, Len(queue))
    /\ UNCHANGED <<server, logFd, queueBytes, recent, accepted, logged>>

Drain ==
    /\ server # "down"
    /\ queue # <<>>
    /\ LET batch == SubSeq(queue, 1, Smaller(DrainSize, Len(queue)))
       IN  /\ queue' = SubSeq(queue, Len(batch) + 1, Len(queue))
           /\ queueBytes' = queueBytes - SumBytes(batch)
    /\ UNCHANGED <<server, logFd, recent, accepted, logged>>

\* SIGTERM or SIGINT: closeSync(logFd), whose number stays in the variable.
Signalled ==
    /\ server = "up"
    /\ server' = "closing"
    /\ logFd' = IF logFd = "open" THEN "closed" ELSE logFd
    /\ UNCHANGED <<queue, queueBytes, recent, accepted, logged>>

\* process.exit(0) after fastify.close(), or a kill: the memory is gone.
ServerEnds ==
    /\ server # "down"
    /\ server' = "down"
    /\ logFd' = "none"
    /\ queue' = <<>>
    /\ queueBytes' = 0
    /\ recent' = <<>>
    /\ accepted' = <<>>
    /\ UNCHANGED logged

\* The log is opened for appending, or neither directory can be used.
ServerStarts ==
    /\ server = "down"
    /\ server' = "up"
    /\ logFd' \in {"none", "open"}
    /\ UNCHANGED <<queue, queueBytes, recent, accepted, logged>>

-----------------------------------------------------------------------------
\* Neither budget is ever exceeded, whatever the mix of request sizes, and the
\* count of bytes is that of the requests in the queue: it drifts neither way.
QueueBounded ==
    /\ Len(queue) <= MaxQueueSize
    /\ queueBytes = SumBytes(queue)
    /\ queueBytes <= MaxQueueBytes

\* The dashboard shows the latest events that were accepted, in their order,
\* and forgets none while there is room for it.
WindowIsLatest ==
    recent = SubSeq(accepted, Len(accepted) - Smaller(MaxRecent, Len(accepted)) + 1,
                    Len(accepted))

\* The drain timer makes room again: no load leaves the server refusing a body
\* it would accept when idle, once the agents have stopped sending.
AdmissionRecovers ==
    \A n \in 1..Smaller(MaxBodyBytes, MaxQueueBytes) :
        []<>(server = "down" \/ ~QueueFull([i \in 1..n |-> i]))
=============================================================================
