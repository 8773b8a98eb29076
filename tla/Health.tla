------------------------------- MODULE Health -------------------------------
(***************************************************************************)
(* The health endpoint (relay/pkg/health/handler.go) with the checks main  *)
(* registers (relay/cmd/relay/main.go).  A request runs the checks one     *)
(* after the other, in the random order of a Go map, while what they look  *)
(* at keeps changing: hosts are added, connections come and go, the        *)
(* database fails and recovers, events are verified.  Requests share       *)
(* nothing they write, so one request at a time is modelled.               *)
(***************************************************************************)
EXTENDS Integers, FiniteSets, FiniteSetsExt

CONSTANT Hosts  \* upstream servers

Checks == {"ingest", "database", "firehose", "verification"}

\* from best to worst
Statuses == {"healthy", "degraded", "unhealthy"}
Badness  == [healthy |-> 0, degraded |-> 1, unhealthy |-> 2]

VARIABLES
  (* what the checks look at *)
  clients,    \* keys of Manager.clients
  connected,  \* those whose PDSClient is connected
  database,   \* the database answers a ping
  verified,   \* the pipeline's statistics; module Verify changes them, and
  failed,     \* Monitor puts the two together
  (* the request *)
  stage,       \* what it does next
  pending,    \* checks it has still to run
  listed,     \* hosts the ingest check found in the map
  unasked,    \* those whose status it has not asked yet
  connectedCount,
  sawVerified,
  results,    \* by check, "none" before it has run
  overall,    \* overallStatus
  code,       \* HTTP status of the answer, 0 before there is one
  (* for the properties *)
  steadyUp,   \* hosts connected ever since the ingest check began
  steadyDown, \* listed hosts disconnected ever since
  failedBefore \* a failure was on record when the verification check began

worldVars   == <<clients, connected, database, verified, failed>>
ingestVars  == <<listed, unasked, connectedCount>>
steadyVars  == <<steadyUp, steadyDown, failedBefore>>
requestVars == <<stage, pending, ingestVars, sawVerified, results, overall, code>>

vars == <<worldVars, requestVars, steadyVars>>

Init ==
  /\ clients = {} /\ connected = {}
  /\ database = TRUE
  /\ verified = 0 /\ failed = 0
  /\ stage = "idle"
  /\ pending = {}
  /\ listed = {} /\ unasked = {} /\ connectedCount = 0
  /\ sawVerified = 0
  /\ results = [k \in Checks |-> "none"]
  /\ overall = "healthy"
  /\ code = 0
  /\ steadyUp = {} /\ steadyDown = {} /\ failedBefore = FALSE

-----------------------------------------------------------------------------
(* What changes meanwhile.                                                 *)

AddHost(h) ==
  /\ h \notin clients
  /\ clients' = clients \union {h}
  /\ UNCHANGED <<connected, database, verified, failed, requestVars, steadyVars>>

\* connect sets the flag of h's client; the end of its event loop clears it.
Reconnected(h) ==
  /\ h \in clients \ connected
  /\ connected' = connected \union {h}
  /\ steadyDown' = steadyDown \ {h}
  /\ UNCHANGED <<clients, database, verified, failed, requestVars, steadyUp, failedBefore>>

Disconnected(h) ==
  /\ h \in connected
  /\ connected' = connected \ {h}
  /\ steadyUp' = steadyUp \ {h}
  /\ UNCHANGED <<clients, database, verified, failed, requestVars, steadyDown, failedBefore>>

DatabaseTurns ==
  /\ database' = ~database
  /\ UNCHANGED <<clients, connected, verified, failed, requestVars, steadyVars>>

-----------------------------------------------------------------------------
(* runChecks.                                                              *)

BeginRequest ==
  /\ stage = "idle"
  /\ stage' = "next"
  /\ pending' = Checks
  /\ results' = [k \in Checks |-> "none"]
  /\ overall' = "healthy"
  /\ code' = 0
  /\ UNCHANGED <<worldVars, ingestVars, sawVerified, steadyVars>>

\* Folding one result into the overall status.
LastWins(status) ==
  IF status = "unhealthy" THEN "unhealthy"
  ELSE IF status = "degraded" THEN "degraded" ELSE overall

Worse(status) ==
  IF status = "unhealthy" THEN "unhealthy"
  ELSE IF status = "degraded" /\ overall # "unhealthy" THEN "degraded" ELSE overall

Report(check, status) ==
  /\ pending' = pending \ {check}
  /\ results' = [results EXCEPT ![check] = status]
  /\ overall' = Worse(status)
  /\ stage' = "next"

CheckFirehose ==
  /\ stage = "next" /\ "firehose" \in pending
  /\ Report("firehose", "healthy")
  /\ UNCHANGED <<worldVars, ingestVars, sawVerified, code, steadyVars>>

CheckDatabase ==
  /\ stage = "next" /\ "database" \in pending
  /\ Report("database", IF database THEN "healthy" ELSE "unhealthy")
  /\ UNCHANGED <<worldVars, ingestVars, sawVerified, code, steadyVars>>

\* GetHosts, under the manager's lock
ListHosts ==
  /\ stage = "next" /\ "ingest" \in pending
  /\ stage' = "hosts"
  /\ listed' = clients /\ unasked' = clients
  /\ connectedCount' = 0
  /\ steadyUp' = connected
  /\ steadyDown' = clients \ connected
  /\ UNCHANGED <<worldVars, pending, sawVerified, results, overall, code, failedBefore>>

\* GetHostStatus of one listed host, under the lock again
HostStatus ==
  /\ stage = "hosts"
  /\ \E h \in unasked :
       /\ unasked' = unasked \ {h}
       /\ connectedCount' = IF h \in connected THEN connectedCount + 1 ELSE connectedCount
  /\ UNCHANGED <<worldVars, stage, pending, listed, sawVerified, results, overall,
                 code, steadyVars>>

AnyMissing(up, all) == IF up < all THEN "unhealthy" ELSE "healthy"

IngestStatus(up, all) ==
  IF up = 0 /\ all > 0 THEN "unhealthy"
  ELSE IF up < all THEN "degraded" ELSE "healthy"

CheckIngest ==
  /\ stage = "hosts"
  /\ unasked = {}
  /\ Report("ingest", IngestStatus(connectedCount, Cardinality(listed)))
  /\ UNCHANGED <<worldVars, ingestVars, sawVerified, code, steadyVars>>

\* Stats reads one counter, then the other, while the workers count on.
ReadVerified ==
  /\ stage = "next" /\ "verification" \in pending
  /\ stage' = "failed"
  /\ sawVerified' = verified
  /\ failedBefore' = (failed > 0)
  /\ UNCHANGED <<worldVars, pending, ingestVars, results, overall, code,
                 steadyUp, steadyDown>>

\* failed / total * 100 > 50, > 10
RateStatus(v, n) ==
  IF v + n = 0 THEN "healthy"
  ELSE IF 100 * n > 50 * (v + n) THEN "unhealthy"
  ELSE IF 100 * n > 10 * (v + n) THEN "degraded" ELSE "healthy"

FailRateSwapped(v, f) == RateStatus(f, v)
FailRateStatus(v, f)  == RateStatus(v, f)

CheckVerification ==
  /\ stage = "failed"
  /\ Report("verification", FailRateStatus(sawVerified, failed))
  /\ UNCHANGED <<worldVars, ingestVars, sawVerified, code, steadyVars>>

Answer ==
  /\ stage = "next"
  /\ pending = {}
  /\ stage' = "idle"
  /\ code' = IF overall = "unhealthy" THEN 503 ELSE 200
  /\ listed' = {} /\ connectedCount' = 0 /\ sawVerified' = 0
  /\ steadyUp' = {} /\ steadyDown' = {} /\ failedBefore' = FALSE
  /\ UNCHANGED <<worldVars, pending, unasked, results, overall>>

World   == (\E h \in Hosts : AddHost(h) \/ Reconnected(h) \/ Disconnected(h))
             \/ DatabaseTurns
Request == BeginRequest \/ CheckFirehose \/ CheckDatabase \/ ListHosts \/ HostStatus
             \/ CheckIngest \/ ReadVerified \/ CheckVerification \/ Answer

Next == World \/ Request

Spec == Init /\ [][Next]_vars

-----------------------------------------------------------------------------
(* Properties.                                                             *)

Done == {k \in Checks : results[k] # "none"}

\* handler.go:119, "worst wins": in whatever order the map yields the checks,
\* the overall status is the worst result so far, and the answer is 503 just when
\* one of its checks said unhealthy.
WorstWins ==
  /\ Badness[overall] = Max({Badness[results[k]] : k \in Done} \union {0})
  /\ stage = "idle" /\ Done # {} =>
       (code = 503 <=> \E k \in Checks : results[k] = "unhealthy")

\* Although the ingest check asks host by host while connections come and go, it
\* never says unhealthy while a listed host stayed connected, never healthy while
\* one stayed disconnected, and degraded only if there was a bad and a good moment.
IngestVerdict ==
  results["ingest"] # "none" /\ stage = "next" /\ listed # {} =>
    CASE results["ingest"] = "unhealthy" -> listed \intersect steadyUp = {}
      [] results["ingest"] = "healthy"   -> steadyDown = {}
      [] results["ingest"] = "degraded"  -> ~(listed \subseteq steadyUp) /\ steadyDown # listed

=============================================================================
