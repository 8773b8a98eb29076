------------------------------ MODULE Monitor -------------------------------
(***************************************************************************)
(* The verification pipeline at work (module Verify) under the eyes of the *)
(* health endpoint (module Health): the workers write the two counters of  *)
(* the statistics without a lock while the verification check reads first  *)
(* the one, then the other.                                                *)
(***************************************************************************)
EXTENDS Verify

CONSTANT Hosts  \* as in Health

VARIABLES
  (* as in Health *)
  clients, connected, database, stage, pending, listed, unasked,
  connectedCount, sawVerified, results, overall, code, steadyUp, steadyDown,
  failedBefore

Endpoint == INSTANCE Health

pipelineVars == <<handed, step, verdict, register, total, historyVars>>
endpointVars ==
  <<clients, connected, database, stage, pending, listed, unasked,
    connectedCount, sawVerified, results, overall, code, steadyUp, steadyDown,
    failedBefore>>

MonitorInit == Init /\ Endpoint!Init

MonitorNext ==
  \/ Next /\ UNCHANGED endpointVars
  \/ Endpoint!Next /\ UNCHANGED pipelineVars

MonitorSpec == MonitorInit /\ [][MonitorNext]_<<vars, endpointVars>>

-----------------------------------------------------------------------------
(* Properties.                                                             *)

WorstWins     == Endpoint!WorstWins
IngestVerdict == Endpoint!IngestVerdict

\* Increments get lost and the two counters are read at different times, so the
\* failure rate may be far from the true one; but it raises no alarm before a
\* verification has failed, and while none has succeeded it gives no all-clear
\* once a failure is on record.
VerificationVerdict ==
  /\ results["verification"] \in {"degraded", "unhealthy"} => failures > 0
  /\ results["verification"] = "healthy" /\ judged["success"] = 0 => ~failedBefore

=============================================================================
