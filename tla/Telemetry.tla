----------------------------- MODULE Telemetry ------------------------------
(***************************************************************************)
(* Telemetry from end to end: the agent that emits events, degrades when   *)
(* its worker crashes and flushes on a signal (packages/fw-agent/index.js),*)
(* its SyncWorker, the loopback network, and the ControlPlane.             *)
(*                                                                         *)
(* Every request has a connection of its own, so requests reach the server *)
(* in any order; one that the worker gave up on may still arrive.          *)
(***************************************************************************)
EXTENDS SyncWorker, ControlPlane

CONSTANT FaultSets    \* sets of "network", "crash", "server" and "signal"

VARIABLES
    faults,           \* what may go wrong in this run of the system
    agent,            \* the agent's process
    telemetryWorker,  \* it still has a worker to post to
    wire,             \* batches on their way to the server
    answers           \* answers on their way back

telemetryVars == <<workerVars, controlVars, agent, telemetryWorker, wire, answers>>

TelemetryInit ==
    /\ WorkerInit
    /\ ControlInit
    /\ faults \in FaultSets
    /\ agent = "up"
    /\ telemetryWorker = TRUE
    /\ wire = {}
    /\ answers = {}

NetworkIdle == UNCHANGED <<wire, answers>>

-----------------------------------------------------------------------------
(* The agent's thread. *)

\* emitTelemetry: code goes on loading modules until the process is gone.
Emit ==
    /\ agent \in {"up", "flushing"}
    /\ telemetryWorker
    /\ PostEvent
    /\ UNCHANGED <<controlVars, agent, telemetryWorker>> /\ NetworkIdle

\* w.on('error'): degradeTelemetry drops the worker for good.
DegradeTelemetry ==
    /\ agent \in {"up", "flushing"}
    /\ worker = "dead"
    /\ telemetryWorker
    /\ telemetryWorker' = FALSE
    /\ UNCHANGED <<workerVars, controlVars, agent>> /\ NetworkIdle

\* shutdown() up to its pause.
Shutdown ==
    /\ "signal" \in faults
    /\ agent = "up"
    /\ IF telemetryWorker
         THEN agent' = "flushing" /\ PostCommand("FORCE_FLUSH")
         ELSE agent' = "exited" /\ UNCHANGED workerVars
    /\ UNCHANGED <<controlVars, telemetryWorker>> /\ NetworkIdle

\* After 500 ms, in which the thread catches up with its messages, the worker
\* is terminated and the process exits.
ShutdownEnds ==
    /\ agent = "flushing"
    /\ agent' = "exited"
    /\ \/ inbox = <<>> /\ WorkerDies
       \/ worker = "dead" /\ UNCHANGED workerVars
    /\ UNCHANGED <<controlVars, telemetryWorker>> /\ NetworkIdle

\* An exception in the worker.
WorkerCrashes ==
    /\ "crash" \in faults
    /\ agent = "up"
    /\ WorkerDies
    /\ UNCHANGED <<controlVars, agent, telemetryWorker>> /\ NetworkIdle

-----------------------------------------------------------------------------
(* The worker's thread, and the network between it and the server. *)

\* Whatever the worker sends is on the wire from then on.
WorkerRuns ==
    /\ Handles
    /\ wire' = wire \cup {r.batch : r \in requests' \ requests}
    /\ UNCHANGED <<controlVars, agent, telemetryWorker, answers>>

RequestArrives(batch) ==
    /\ batch \in wire
    /\ wire' = wire \ {batch}
    /\ \E status \in Answer(batch) :
         /\ HandlePost(batch, status)
         /\ answers' = answers \cup {[batch |-> batch, status |-> status]}
    /\ UNCHANGED <<workerVars, agent, telemetryWorker>>

AnswerArrives(a) ==
    /\ a \in answers
    /\ \E r \in requests : r.batch = a.batch /\ Answered(r, a.status)
    /\ answers' = answers \ {a}
    /\ UNCHANGED <<controlVars, agent, telemetryWorker, wire>>

\* Refused by a server that is not up, reset, or silent for three seconds.
RequestFails(r) ==
    /\ "network" \in faults \/ server # "up"
    /\ GivesUp(r)
    /\ \/ wire' = wire \ {r.batch}
       \/ "network" \in faults /\ UNCHANGED wire
    /\ UNCHANGED <<controlVars, agent, telemetryWorker, answers>>

ServerRuns ==
    /\ \/ Drain
       \/ "server" \in faults /\ (Signalled \/ ServerEnds \/ ServerStarts)
    /\ UNCHANGED <<workerVars, agent, telemetryWorker>> /\ NetworkIdle

Arrivals == \E batch \in wire : RequestArrives(batch)
Answers  == \E a \in answers : AnswerArrives(a)

TelemetryNext ==
    \/ Emit \/ DegradeTelemetry \/ Shutdown \/ ShutdownEnds
    \/ WorkerCrashes \/ WorkerRuns
    \/ Arrivals \/ Answers
    \/ \E r \in requests : RequestFails(r)
    \/ ServerRuns

TelemetrySpec ==
    /\ TelemetryInit
    /\ [][TelemetryNext /\ UNCHANGED faults]_<<telemetryVars, faults>>

\* Both event loops run, and the loopback network delivers.  The server's loop
\* gets to its drain timer; whether it gets a signal or ends is left open.
FairTelemetrySpec ==
    /\ TelemetrySpec
    /\ WF_telemetryVars(WorkerRuns)
    /\ WF_telemetryVars(Arrivals)
    /\ WF_telemetryVars(Answers)
    /\ WF_controlVars(Drain)

-----------------------------------------------------------------------------
Holds(seq, e) == \E i \in 1..Len(seq) : seq[i] = e

Unsent(e) ==
    \/ \E i \in 1..Len(inbox) :
         inbox[i].type = "TELEMETRY_EVENT" /\ inbox[i].payload = e
    \/ Buffered(e)

\* The audit log never holds an event twice, nor one that is still to be
\* handled: whatever was lost, timed out or refused, nothing is sent again.
LoggedOnce ==
    /\ \A i, j \in 1..Len(logged) : logged[i] = logged[j] => i = j
    /\ \A i \in 1..Len(logged) :
         /\ ~Unsent(logged[i])
         /\ \A batch \in wire : ~Holds(batch, logged[i])

\* The agent's audit log reports a delivery failure only for batches of which
\* the control plane took no event.
ReportedWasRefused ==
    \A batch \in reported :
        \A i \in 1..Len(batch) : ~Holds(logged, batch[i]) /\ ~Holds(accepted, batch[i])

\* When nothing goes wrong every event is accepted or its refusal is reported.
AcceptedOrReported ==
    faults = {} =>
        \A e \in Event :
            emitted >= e ~>
                \/ Holds(accepted, e)
                \/ \E batch \in reported : Holds(batch, e)
=============================================================================
