----------------------------- MODULE SyncWorker -----------------------------
(***************************************************************************)
(* The telemetry worker thread (packages/fw-agent/sync-worker.js): it      *)
(* buffers the events the agent posts to it and sends each full buffer to  *)
(* the control plane as one request, one second after the first event of   *)
(* the batch or when it is told to flush.                                  *)
(*                                                                         *)
(* Events are numbered as they are emitted.  A JavaScript timer handle     *)
(* stays truthy after the timer fired or was cleared, so flushTimer keeps  *)
(* that difference.                                                        *)
(***************************************************************************)
EXTENDS Naturals, Sequences

CONSTANTS
    MaxEvents,    \* bound on the events emitted
    MaxInbox      \* bound on the messages waiting for the thread

ASSUME WorkerAssumption == MaxEvents \in Nat /\ MaxInbox \in Nat

Event == 1..MaxEvents

VARIABLES
    emitted,      \* events posted so far
    worker,       \* the thread: "up" or "dead"
    inbox,        \* messages posted to it and not handled yet
    eventBuffer,
    flushTimer,   \* null, an armed timer, or the handle of a spent one
    terminating,
    requests,     \* requests the worker is waiting on
    reported      \* batches it reported as TELEMETRY_DELIVERY_FAILURE

workerVars == <<emitted, worker, inbox, eventBuffer, flushTimer, terminating,
                requests, reported>>

Messages == [type : {"TELEMETRY_EVENT"}, payload : Event]
            \cup [type : {"FORCE_FLUSH", "TERMINATE"}]
Batches  == Seq(Event) \ {<<>>}
Requests == [batch : Batches, last : BOOLEAN]
Statuses == {202, 400, 401, 413, 503}

WorkerInit ==
    /\ emitted = 0
    /\ worker = "up"
    /\ inbox = <<>>
    /\ eventBuffer = <<>>
    /\ flushTimer = "null"
    /\ terminating = FALSE
    /\ requests = {}
    /\ reported = {}

-----------------------------------------------------------------------------
(* flushEvents(callback), with the callback TERMINATE gives it or without.  *)

ExitWhen(condition) == worker' = IF condition THEN "dead" ELSE worker

\* Mutant: the handle is cleared and not set to null.
SendBatch_KeepsHandle(last) ==
    /\ requests' = requests \cup {[batch |-> eventBuffer, last |-> last]}
    /\ eventBuffer' = <<>>
    /\ flushTimer' = "spent"
    /\ UNCHANGED worker

\* Mutant: the buffer is copied into the batch and not emptied.
SendBatch_KeepsBuffer(last) ==
    /\ requests' = requests \cup {[batch |-> eventBuffer, last |-> last]}
    /\ flushTimer' = "null"
    /\ UNCHANGED <<worker, eventBuffer>>

SendBatch(last) ==
    /\ requests' = requests \cup {[batch |-> eventBuffer, last |-> last]}
    /\ eventBuffer' = <<>>
    /\ flushTimer' = "null"
    /\ UNCHANGED worker

\* Mutant: an empty buffer returns without running the callback.
FlushEvents_DropsCallback(handle, last) ==
    \/ /\ eventBuffer # <<>>
       /\ SendBatch(last)
    \/ /\ eventBuffer = <<>>
       /\ flushTimer' = handle
       /\ UNCHANGED <<worker, eventBuffer, requests>>

\* Mutant: an empty buffer does not return early.
FlushEvents_SendsEmpty(handle, last) == SendBatch(last)

\* An empty buffer runs the callback at once; the handle stays as it is.
FlushEvents(handle, last) ==
    \/ /\ eventBuffer # <<>>
       /\ SendBatch(last)
    \/ /\ eventBuffer = <<>>
       /\ flushTimer' = handle
       /\ ExitWhen(last)
       /\ UNCHANGED <<eventBuffer, requests>>

\* clearTimeout(flushTimer), which leaves the variable alone.
ClearedHandle == IF flushTimer = "armed" THEN "spent" ELSE flushTimer

-----------------------------------------------------------------------------
(* parentPort.on('message') *)

Receive(type) ==
    /\ worker = "up"
    /\ inbox # <<>>
    /\ Head(inbox).type = type
    /\ inbox' = Tail(inbox)

ReceiveEvent ==
    /\ Receive("TELEMETRY_EVENT")
    /\ IF terminating
         THEN UNCHANGED <<eventBuffer, flushTimer>>
         ELSE /\ eventBuffer' = Append(eventBuffer, Head(inbox).payload)
              /\ flushTimer' = IF flushTimer = "null" THEN "armed" ELSE flushTimer
    /\ UNCHANGED <<emitted, worker, terminating, requests, reported>>

ReceiveForceFlush ==
    /\ Receive("FORCE_FLUSH")
    /\ FlushEvents(ClearedHandle, FALSE)
    /\ UNCHANGED <<emitted, terminating, reported>>

ReceiveTerminate ==
    /\ Receive("TERMINATE")
    /\ terminating' = TRUE
    /\ FlushEvents(ClearedHandle, TRUE)
    /\ UNCHANGED <<emitted, reported>>

TimerFires ==
    /\ worker = "up"
    /\ flushTimer = "armed"
    /\ FlushEvents("spent", FALSE)
    /\ UNCHANGED <<emitted, inbox, terminating, reported>>

-----------------------------------------------------------------------------
(* What becomes of a request: an answer, a network error, or the timeout,   *)
(* after which nothing is tried again.                                      *)

\* Mutant: the outcome of the batch is not looked at.
Refused_Never(status) == FALSE

\* Mutant: the test looks for 2xx the wrong way round.
Refused_Negated(status) == status \in 200..299

Refused(status) == status \notin 200..299

Answered(r, status) ==
    /\ worker = "up"
    /\ r \in requests
    /\ requests' = requests \ {r}
    /\ reported' = IF Refused(status) THEN reported \cup {r.batch} ELSE reported
    /\ ExitWhen(r.last)
    /\ UNCHANGED <<emitted, inbox, eventBuffer, flushTimer, terminating>>

\* 'error', or three seconds of silence and destroy().
GivesUp(r) ==
    /\ worker = "up"
    /\ r \in requests
    /\ requests' = requests \ {r}
    /\ ExitWhen(r.last)
    /\ UNCHANGED <<emitted, inbox, eventBuffer, flushTimer, terminating, reported>>

\* An exception in the thread, or terminate() from the agent.
WorkerDies ==
    /\ worker = "up"
    /\ worker' = "dead"
    /\ UNCHANGED <<emitted, inbox, eventBuffer, flushTimer, terminating, requests,
                   reported>>

Handles == ReceiveEvent \/ ReceiveForceFlush \/ ReceiveTerminate \/ TimerFires

-----------------------------------------------------------------------------
(* The worker by itself: any message may be posted, any answer may come.    *)

Post(message) ==
    /\ Len(inbox) < MaxInbox
    /\ inbox' = Append(inbox, message)
    /\ UNCHANGED <<worker, eventBuffer, flushTimer, terminating, requests, reported>>

PostEvent ==
    /\ emitted < MaxEvents
    /\ emitted' = emitted + 1
    /\ Post([type |-> "TELEMETRY_EVENT", payload |-> emitted + 1])

PostCommand(type) == Post([type |-> type]) /\ UNCHANGED emitted

WorkerNext ==
    \/ Handles
    \/ PostEvent
    \/ \E type \in {"FORCE_FLUSH", "TERMINATE"} : PostCommand(type)
    \/ \E r \in requests :
         \/ GivesUp(r)
         \/ \E status \in Statuses : Answered(r, status)
    \/ WorkerDies

WorkerSpec == WorkerInit /\ [][WorkerNext]_workerVars

\* The thread's event loop runs its timers and handles its messages.
FairWorkerSpec == WorkerSpec /\ WF_workerVars(Handles)

-----------------------------------------------------------------------------
\* The types of the thread's state; no batch that is sent is empty, although a
\* FORCE_FLUSH or a TERMINATE may find nothing buffered.
WorkerTypeOK ==
    /\ emitted \in 0..MaxEvents
    /\ worker \in {"up", "dead"}
    /\ inbox \in Seq(Messages)
    /\ eventBuffer \in Seq(Event)
    /\ flushTimer \in {"null", "armed", "spent"}
    /\ terminating \in BOOLEAN
    /\ requests \subseteq Requests
    /\ reported \subseteq Batches

\* While the worker accepts events its handle is null exactly when the buffer
\* is empty, and otherwise belongs to a timer that is armed: a spent handle
\* left in place would keep every later event in the buffer for good.
BufferedIsTimed ==
    worker = "up" /\ ~terminating =>
        flushTimer = IF eventBuffer = <<>> THEN "null" ELSE "armed"

\* A terminating worker has nothing left in the buffer, and lives only for
\* the request whose end will exit it.
TerminatingWaits ==
    terminating /\ worker = "up" =>
        eventBuffer = <<>> /\ \E r \in requests : r.last

\* The event is in the buffer.
Buffered(e) == \E i \in 1..Len(eventBuffer) : eventBuffer[i] = e

\* No buffered event waits forever in a thread that lives.
BufferDrains ==
    \A e \in Event : Buffered(e) ~> worker = "dead" \/ ~Buffered(e)

=============================================================================
