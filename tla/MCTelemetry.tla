---------------------------- MODULE MCTelemetry -----------------------------
(* Telemetry without faults and with all of them. *)
EXTENDS Telemetry
AllOrNone == {{}, {"network", "crash", "server", "signal"}}
=============================================================================
