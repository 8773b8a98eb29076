---------------------------- MODULE MonitorProofs ----------------------------
(***************************************************************************)
(* Proofs about Monitor: what the statistics of the verification pipeline  *)
(* and the verdicts of the health endpoint are worth, for any number of    *)
(* workers, events and hosts.                                              *)
(***************************************************************************)
EXTENDS Monitor, FiniteSetTheorems, TLAPS

-----------------------------------------------------------------------------
(* The pipeline (module Verify).                                           *)

Steps == {"idle", "resolve", "check", "read", "write", "count"}

PipelineTypes ==
  /\ step \in [Workers -> Steps]
  /\ verdict \in [Workers -> Verdicts]
  /\ register \in [Workers -> Nat]
  /\ verified \in Nat /\ failed \in Nat
  /\ total \in [Labels -> Nat]
  /\ judged \in [Verdicts -> Nat] /\ failures \in Nat

\* workers that have a verdict of the set vs to record, in all or in the statistics
Recording(vs) == {w \in Workers : step[w] \in {"read", "write", "count"} /\ verdict[w] \in vs}
Unwritten(vs) == {w \in Workers : step[w] \in {"read", "write"} /\ verdict[w] \in vs}

Success == {"success"}
Failing == Verdicts \ Success

\* A counter, and what a worker is about to write to it, lags behind the true
\* number by at least those that have not written yet.
Lags(counter, vs, number) ==
  /\ counter + Cardinality(Unwritten(vs)) <= number
  /\ \A w \in Unwritten(vs) :
       step[w] = "write" => register[w] + Cardinality(Unwritten(vs)) <= number

\* The labelled counter lags by exactly the verdicts being recorded.
ExactOf(v) == judged[v] = total[v] + Cardinality(Recording({v}))

PipelineInv ==
  /\ PipelineTypes
  /\ IsFiniteSet(Recording(Verdicts))
  /\ Lags(verified, Success, judged["success"])
  /\ Lags(failed, Failing, failures)
  /\ \A v \in Verdicts : ExactOf(v)

\* Only finitely many workers record at a time, and they can be counted.
LEMMA Countable ==
  ASSUME PipelineInv, NEW vs \in SUBSET Verdicts
  PROVE  /\ IsFiniteSet(Recording(vs)) /\ IsFiniteSet(Unwritten(vs))
         /\ Cardinality(Recording(vs)) \in Nat /\ Cardinality(Unwritten(vs)) \in Nat
  <1>1. Recording(vs) \subseteq Recording(Verdicts) /\ Unwritten(vs) \subseteq Recording(Verdicts)
    BY DEF Recording, Unwritten
  <1> QED BY <1>1, FS_Subset, FS_CardinalityType DEF PipelineInv

LEMMA InitPipeline == Init => PipelineInv
  <1> SUFFICES ASSUME Init PROVE PipelineInv
    OBVIOUS
  <1>1. \A vs : Recording(vs) = {} /\ Unwritten(vs) = {}
    BY DEF Init, Recording, Unwritten
  <1>2. PipelineTypes
    BY DEF Init, PipelineTypes, Steps, Verdicts, SignatureCheck
  <1>3. Cardinality({}) = 0 /\ IsFiniteSet({})
    BY FS_EmptySet
  <1>4. \A v \in Verdicts : ExactOf(v)
    BY <1>1, <1>3 DEF Init, ExactOf, Labels
  <1>5. "success" \in Verdicts
    BY DEF Verdicts, SignatureCheck
  <1> QED BY <1>1, <1>2, <1>3, <1>4, <1>5 DEF PipelineInv, Init, Lags

\* A verdict is reached: one more worker records, one more event is judged.
LEMMA JudgeKeepsPipeline ==
  ASSUME PipelineInv, NEW w \in Workers, NEW v \in Verdicts,
         step[w] \in {"resolve", "check"}, Judge(w, v),
         UNCHANGED <<register, verified, failed>>,
         total' \in [Labels -> Nat], \A u \in Verdicts : total'[u] = total[u]
  PROVE  PipelineInv'
  <1>1. PipelineTypes'
    BY DEF PipelineInv, PipelineTypes, Judge, Steps
  <1>2. ASSUME NEW vs \in SUBSET Verdicts
        PROVE  /\ w \notin Recording(vs) /\ w \notin Unwritten(vs)
               /\ Recording(vs)' = IF v \in vs THEN Recording(vs) \union {w} ELSE Recording(vs)
               /\ Unwritten(vs)' = IF v \in vs THEN Unwritten(vs) \union {w} ELSE Unwritten(vs)
    BY DEF PipelineInv, PipelineTypes, Judge, Recording, Unwritten
  <1>3. ASSUME NEW vs \in SUBSET Verdicts
        PROVE  /\ v \in vs => /\ Cardinality(Recording(vs)') = Cardinality(Recording(vs)) + 1
                              /\ Cardinality(Unwritten(vs)') = Cardinality(Unwritten(vs)) + 1
               /\ v \notin vs => /\ Cardinality(Recording(vs)') = Cardinality(Recording(vs))
                                 /\ Cardinality(Unwritten(vs)') = Cardinality(Unwritten(vs))
    <2>1. IsFiniteSet(Recording(vs)) /\ IsFiniteSet(Unwritten(vs))
      BY Countable
    <2>2. /\ w \notin Recording(vs) /\ w \notin Unwritten(vs)
          /\ v \in vs => /\ Recording(vs)' = Recording(vs) \union {w}
                         /\ Unwritten(vs)' = Unwritten(vs) \union {w}
          /\ v \notin vs => Recording(vs)' = Recording(vs) /\ Unwritten(vs)' = Unwritten(vs)
      BY <1>2
    <2> QED BY <2>1, <2>2, FS_AddElement
  <1>4. IsFiniteSet(Recording(Verdicts)')
    BY <1>2, Countable, FS_AddElement
  <1>5. ASSUME NEW vs \in SUBSET Verdicts
        PROVE  \A x \in Unwritten(vs)' : step'[x] = "write" => x \in Unwritten(vs) /\ step[x] = "write"
    BY <1>2 DEF PipelineInv, PipelineTypes, Judge
  <1>6. Success \in SUBSET Verdicts /\ Failing \in SUBSET Verdicts /\ "success" \in Verdicts
    BY DEF Success, Failing, Verdicts, SignatureCheck
  <1>7. Lags(verified, Success, judged["success"])'
    <2>1. judged'["success"] = IF v \in Success THEN judged["success"] + 1 ELSE judged["success"]
      BY <1>6 DEF Judge, PipelineInv, PipelineTypes, Success
    <2>2. /\ Cardinality(Unwritten(Success)) \in Nat /\ judged["success"] \in Nat
          /\ verified \in Nat /\ \A x \in Unwritten(Success) : register[x] \in Nat
          /\ Lags(verified, Success, judged["success"])
      BY <1>6, Countable DEF PipelineInv, PipelineTypes, Unwritten
    <2>3. Cardinality(Unwritten(Success)') =
            IF v \in Success THEN Cardinality(Unwritten(Success)) + 1
                             ELSE Cardinality(Unwritten(Success))
      BY <1>3, <1>6
    <2>4. \A x \in Unwritten(Success)' :
            step'[x] = "write" => x \in Unwritten(Success) /\ step[x] = "write"
      BY <1>5, <1>6
    <2> QED BY <2>1, <2>2, <2>3, <2>4 DEF Lags
  <1>8. Lags(failed, Failing, failures)'
    <2>1. failures' = IF v \in Failing THEN failures + 1 ELSE failures
      BY DEF Judge, Failing, Success
    <2>2. /\ Cardinality(Unwritten(Failing)) \in Nat /\ failures \in Nat
          /\ failed \in Nat /\ \A x \in Unwritten(Failing) : register[x] \in Nat
          /\ Lags(failed, Failing, failures)
      BY <1>6, Countable DEF PipelineInv, PipelineTypes, Unwritten
    <2>3. Cardinality(Unwritten(Failing)') =
            IF v \in Failing THEN Cardinality(Unwritten(Failing)) + 1
                             ELSE Cardinality(Unwritten(Failing))
      BY <1>3, <1>6
    <2>4. \A x \in Unwritten(Failing)' :
            step'[x] = "write" => x \in Unwritten(Failing) /\ step[x] = "write"
      BY <1>5, <1>6
    <2> QED BY <2>1, <2>2, <2>3, <2>4 DEF Lags
  <1>9. ASSUME NEW u \in Verdicts PROVE ExactOf(u)'
    <2>1. judged'[u] = IF v \in {u} THEN judged[u] + 1 ELSE judged[u]
      BY DEF Judge, PipelineInv, PipelineTypes
    <2>2. u \in Labels /\ total[u] \in Nat /\ judged[u] \in Nat
      BY DEF Labels, PipelineInv, PipelineTypes
    <2>3. Cardinality(Recording({u})) \in Nat /\ judged[u] = total[u] + Cardinality(Recording({u}))
      BY Countable DEF PipelineInv, ExactOf
    <2>4. Cardinality(Recording({u})') = IF v \in {u} THEN Cardinality(Recording({u})) + 1
                                                      ELSE Cardinality(Recording({u}))
      BY <1>3
    <2> QED BY <2>1, <2>2, <2>3, <2>4 DEF ExactOf
  <1> QED BY <1>1, <1>4, <1>7, <1>8, <1>9 DEF PipelineInv

\* A step before there is a verdict to record.
LEMMA BeforeVerdict ==
  ASSUME PipelineInv, NEW w \in Workers, step[w] \in {"idle", "resolve", "check"},
         step' = [step EXCEPT ![w] = "resolve"] \/ step' = [step EXCEPT ![w] = "check"]
           \/ step' = step,
         UNCHANGED <<verdict, register, verified, failed, total, judged, failures>>
  PROVE  PipelineInv'
  <1>1. PipelineTypes'
    BY DEF PipelineInv, PipelineTypes, Steps
  <1>2. ASSUME NEW vs
        PROVE  Recording(vs)' = Recording(vs) /\ Unwritten(vs)' = Unwritten(vs)
    BY DEF PipelineInv, PipelineTypes, Recording, Unwritten
  <1>3. \A x \in Workers : step'[x] = "write" => step[x] = "write"
    BY DEF PipelineInv, PipelineTypes
  <1>4. \A x \in Unwritten(Success)' : x \in Workers
    BY DEF Unwritten
  <1>5. \A x \in Unwritten(Failing)' : x \in Workers
    BY DEF Unwritten
  <1>6. Lags(verified, Success, judged["success"])'
    BY <1>2, <1>3, <1>4 DEF PipelineInv, Lags
  <1>7. Lags(failed, Failing, failures)'
    BY <1>2, <1>3, <1>5 DEF PipelineInv, Lags
  <1>8. \A v \in Verdicts : ExactOf(v)'
    BY <1>2 DEF PipelineInv, ExactOf
  <1> QED BY <1>1, <1>2, <1>6, <1>7, <1>8 DEF PipelineInv

\* A worker that reads a counter can write at most the next value of it.
LEMMA ReadKeepsPipeline ==
  ASSUME PipelineInv, NEW w \in Workers, ReadCounter(w) PROVE PipelineInv'
  <1>1. PipelineTypes'
    BY DEF PipelineInv, PipelineTypes, ReadCounter, historyVars, Steps
  <1>2. ASSUME NEW vs
        PROVE  Recording(vs)' = Recording(vs) /\ Unwritten(vs)' = Unwritten(vs)
    BY DEF PipelineInv, PipelineTypes, ReadCounter, Recording, Unwritten
  <1>3. /\ \A x \in Workers : x # w => step'[x] = step[x] /\ register'[x] = register[x]
        /\ w \in Unwritten(Success) => register'[w] = verified
        /\ w \in Unwritten(Failing) => register'[w] = failed
    BY DEF PipelineInv, PipelineTypes, ReadCounter, Unwritten, Success, Failing
  <1>4. UNCHANGED <<verified, failed, total, judged, failures>>
    BY DEF ReadCounter, historyVars
  <1>5. Lags(verified, Success, judged["success"])'
    <2>1. \A x \in Unwritten(Success) : x \in Workers
      BY DEF Unwritten
    <2> QED BY <1>2, <1>3, <1>4, <2>1 DEF PipelineInv, Lags
  <1>6. Lags(failed, Failing, failures)'
    <2>1. \A x \in Unwritten(Failing) : x \in Workers
      BY DEF Unwritten
    <2> QED BY <1>2, <1>3, <1>4, <2>1 DEF PipelineInv, Lags
  <1>7. \A v \in Verdicts : ExactOf(v)'
    BY <1>2, <1>4 DEF PipelineInv, ExactOf
  <1> QED BY <1>1, <1>2, <1>5, <1>6, <1>7 DEF PipelineInv

\* Writing uses up one of the verdicts that were not written.
LEMMA WriteKeepsPipeline ==
  ASSUME PipelineInv, NEW w \in Workers, WriteCounter(w) PROVE PipelineInv'
  <1>0. /\ step[w] = "write" /\ step' = [step EXCEPT ![w] = "count"]
        /\ UNCHANGED <<verdict, register, total, judged, failures>>
    BY DEF WriteCounter, historyVars
  <1>1. PipelineTypes'
    <2>1. verified' \in Nat /\ failed' \in Nat
      BY DEF PipelineInv, PipelineTypes, WriteCounter, Record
    <2> QED BY <1>0, <2>1 DEF PipelineInv, PipelineTypes, Steps
  <1>2. ASSUME NEW vs
        PROVE  /\ Recording(vs)' = Recording(vs)
               /\ Unwritten(vs)' = Unwritten(vs) \ {w}
               /\ \A x \in Unwritten(vs)' : step'[x] = step[x] /\ x \in Unwritten(vs)
               /\ w \in Unwritten(vs) <=> verdict[w] \in vs
    BY <1>0 DEF PipelineInv, PipelineTypes, Recording, Unwritten
  <1>3. ASSUME NEW vs \in SUBSET Verdicts
        PROVE  Cardinality(Unwritten(vs)') = IF verdict[w] \in vs
                 THEN Cardinality(Unwritten(vs)) - 1 ELSE Cardinality(Unwritten(vs))
    <2>1. IsFiniteSet(Unwritten(vs))
      BY Countable
    <2> QED BY <1>2, <2>1, FS_RemoveElement
  <1>4. Success \in SUBSET Verdicts /\ Failing \in SUBSET Verdicts
    BY DEF Success, Failing, Verdicts, SignatureCheck
  <1>5. verdict[w] \in Verdicts
    BY DEF PipelineInv, PipelineTypes
  <1>6. Lags(verified, Success, judged["success"])'
    <2>1. verified' = IF verdict[w] \in Success THEN register[w] + 1 ELSE verified
      BY DEF WriteCounter, Record, Success
    <2>2. /\ Cardinality(Unwritten(Success)) \in Nat /\ judged["success"] \in Nat
          /\ verified \in Nat /\ \A x \in Unwritten(Success) : register[x] \in Nat
          /\ register[w] \in Nat
          /\ Lags(verified, Success, judged["success"])
      BY <1>4, Countable DEF PipelineInv, PipelineTypes, Unwritten, Success
    <2>3. Cardinality(Unwritten(Success)') = IF verdict[w] \in Success
            THEN Cardinality(Unwritten(Success)) - 1 ELSE Cardinality(Unwritten(Success))
      BY <1>3, <1>4
    <2>4. verdict[w] \in Success => register[w] + Cardinality(Unwritten(Success)) <= judged["success"]
      BY <1>0, <1>2, <2>2 DEF Lags
    <2>5. \A x \in Unwritten(Success)' : step'[x] = step[x] /\ x \in Unwritten(Success)
      BY <1>2
    <2> QED BY <1>0, <2>1, <2>2, <2>3, <2>4, <2>5 DEF Lags
  <1>7. Lags(failed, Failing, failures)'
    <2>1. failed' = IF verdict[w] \in Failing THEN register[w] + 1 ELSE failed
      BY <1>5 DEF WriteCounter, Record, Failing, Success
    <2>2. /\ Cardinality(Unwritten(Failing)) \in Nat /\ failures \in Nat
          /\ failed \in Nat /\ \A x \in Unwritten(Failing) : register[x] \in Nat
          /\ register[w] \in Nat
          /\ Lags(failed, Failing, failures)
      BY <1>4, Countable DEF PipelineInv, PipelineTypes, Unwritten
    <2>3. Cardinality(Unwritten(Failing)') = IF verdict[w] \in Failing
            THEN Cardinality(Unwritten(Failing)) - 1 ELSE Cardinality(Unwritten(Failing))
      BY <1>3, <1>4
    <2>4. verdict[w] \in Failing => register[w] + Cardinality(Unwritten(Failing)) <= failures
      BY <1>0, <1>2, <2>2 DEF Lags
    <2>5. \A x \in Unwritten(Failing)' : step'[x] = step[x] /\ x \in Unwritten(Failing)
      BY <1>2
    <2> QED BY <1>0, <2>1, <2>2, <2>3, <2>4, <2>5 DEF Lags
  <1>8. \A v \in Verdicts : ExactOf(v)'
    BY <1>0, <1>2 DEF PipelineInv, ExactOf
  <1> QED BY <1>1, <1>2, <1>6, <1>7, <1>8 DEF PipelineInv

\* Counting a verdict ends its recording.
LEMMA CountKeepsPipeline ==
  ASSUME PipelineInv, NEW w \in Workers, CountVerdict(w) PROVE PipelineInv'
  <1>0. /\ step[w] = "count" /\ step' = [step EXCEPT ![w] = "idle"]
        /\ total' = [total EXCEPT ![verdict[w]] = @ + 1]
        /\ UNCHANGED <<verdict, register, verified, failed, judged, failures>>
    BY DEF CountVerdict, Label, historyVars
  <1>1. verdict[w] \in Verdicts /\ verdict[w] \in Labels
    BY DEF PipelineInv, PipelineTypes, Labels
  <1>2. PipelineTypes'
    <2>1. total' \in [Labels -> Nat]
      BY <1>0, <1>1 DEF PipelineInv, PipelineTypes
    <2> QED BY <1>0, <2>1 DEF PipelineInv, PipelineTypes, Steps
  <1>3. ASSUME NEW vs
        PROVE  /\ Recording(vs)' = Recording(vs) \ {w}
               /\ Unwritten(vs)' = Unwritten(vs)
               /\ \A x \in Unwritten(vs) : step'[x] = step[x]
               /\ w \in Recording(vs) <=> verdict[w] \in vs
    BY <1>0 DEF PipelineInv, PipelineTypes, Recording, Unwritten
  <1>4. Lags(verified, Success, judged["success"])' /\ Lags(failed, Failing, failures)'
    BY <1>0, <1>3 DEF PipelineInv, Lags
  <1>5. IsFiniteSet(Recording(Verdicts)')
    BY <1>3, FS_RemoveElement DEF PipelineInv
  <1>6. ASSUME NEW v \in Verdicts PROVE ExactOf(v)'
    <2>1. /\ IsFiniteSet(Recording({v})) /\ Cardinality(Recording({v})) \in Nat
          /\ judged[v] = total[v] + Cardinality(Recording({v}))
      BY Countable DEF PipelineInv, ExactOf
    <2>2. Cardinality(Recording({v})') = IF verdict[w] = v THEN Cardinality(Recording({v})) - 1
                                                          ELSE Cardinality(Recording({v}))
      BY <1>3, <2>1, FS_RemoveElement
    <2>3. total[v] \in Nat /\ total'[v] = IF verdict[w] = v THEN total[v] + 1 ELSE total[v]
      BY <1>0, <1>1 DEF PipelineInv, PipelineTypes, Labels
    <2> QED BY <1>0, <2>1, <2>2, <2>3 DEF ExactOf
  <1> QED BY <1>2, <1>4, <1>5, <1>6 DEF PipelineInv

LEMMA NextPipeline == PipelineInv /\ [Next]_vars => PipelineInv'
  <1> SUFFICES ASSUME PipelineInv, [Next]_vars PROVE PipelineInv'
    OBVIOUS
  <1>1. ASSUME NEW w \in Workers, Begin(w) PROVE PipelineInv'
    BY <1>1, BeforeVerdict DEF Begin, historyVars
  <1>2. ASSUME NEW w \in Workers, ResolveIdentity(w) PROVE PipelineInv'
    <2>1. CASE step' = [step EXCEPT ![w] = "check"] /\ UNCHANGED <<verdict, historyVars, total>>
      BY <1>2, <2>1, BeforeVerdict DEF ResolveIdentity, historyVars
    <2>2. CASE /\ Judge(w, "identity_failed")
               /\ total' = total \/ total' = [total EXCEPT !["resolve_failed"] = @ + 1]
      <3>1. /\ "resolve_failed" \in Labels \ Verdicts /\ "identity_failed" \in Verdicts
            /\ Verdicts \subseteq Labels
        BY VerifyConstants DEF Labels, Verdicts, SignatureCheck
      <3>2. total' \in [Labels -> Nat] /\ \A u \in Verdicts : total'[u] = total[u]
        BY <2>2, <3>1 DEF PipelineInv, PipelineTypes
      <3>3. step[w] = "resolve" /\ UNCHANGED <<register, verified, failed>>
        BY <1>2 DEF ResolveIdentity
      <3> QED BY <2>2, <3>1, <3>2, <3>3, JudgeKeepsPipeline
    <2> QED BY <1>2, <2>1, <2>2 DEF ResolveIdentity
  <1>3. ASSUME NEW w \in Workers, CheckCommit(w) PROVE PipelineInv'
    <2>1. PICK v \in Rejections \union SignatureCheck : Judge(w, v)
      BY <1>3 DEF CheckCommit
    <2>2. v \in Verdicts /\ total \in [Labels -> Nat]
      BY DEF Verdicts, PipelineInv, PipelineTypes
    <2> QED BY <1>3, <2>1, <2>2, JudgeKeepsPipeline DEF CheckCommit
  <1>4. CASE UNCHANGED vars
    <2>1. UNCHANGED <<step, verdict, register, verified, failed, total, judged, failures>>
      BY <1>4 DEF vars, historyVars
    <2> QED BY <2>1 DEF PipelineInv, PipelineTypes, Lags, ExactOf, Recording, Unwritten
  <1> QED BY <1>1, <1>2, <1>3, <1>4, ReadKeepsPipeline, WriteKeepsPipeline,
             CountKeepsPipeline DEF Next

-----------------------------------------------------------------------------
(* The request (module Health).                                            *)

EndpointTypes ==
  /\ IsFiniteSet(clients) /\ IsFiniteSet(listed)
  /\ stage \in {"idle", "next", "hosts", "failed"}
  /\ pending \subseteq Endpoint!Checks
  /\ results \in [Endpoint!Checks -> Endpoint!Statuses \union {"none"}]
  /\ overall \in Endpoint!Statuses
  /\ unasked \subseteq listed /\ connectedCount \in Nat
  /\ stage # "hosts" => unasked = {}

\* A check has no result before it has run, and it is the one that is running.
ResultsInv ==
  /\ \A k \in pending : results[k] = "none"
  /\ stage = "hosts" => "ingest" \in pending
  /\ stage = "failed" => "verification" \in pending

\* The overall status is a result, none is worse, and the answer went by it.
OverallInv ==
  /\ \A k \in Endpoint!Done : Endpoint!Badness[results[k]] <= Endpoint!Badness[overall]
  /\ overall = "healthy" \/ \E k \in Endpoint!Done : results[k] = overall
  /\ stage = "idle" /\ Endpoint!Done # {} =>
       code = IF overall = "unhealthy" THEN 503 ELSE 200

Asked == listed \ unasked

\* A host asked while it stayed connected was counted, one that stayed disconnected
\* was not; and what was counted or not had its moment.
Tally ==
  /\ connectedCount <= Cardinality(Asked)
  /\ Asked \intersect steadyUp # {} => connectedCount > 0
  /\ Asked \intersect steadyDown # {} => connectedCount < Cardinality(Asked)
  /\ connectedCount > 0 => ~(Asked \subseteq steadyDown)
  /\ connectedCount < Cardinality(Asked) => ~(Asked \subseteq steadyUp)

Steady ==
  /\ steadyUp \subseteq connected /\ steadyDown \intersect connected = {}
  /\ steadyDown \subseteq listed

IngestJudged ==
  listed # {} =>
    /\ results["ingest"] = "unhealthy" => listed \intersect steadyUp = {}
    /\ results["ingest"] = "healthy" => steadyDown = {}
    /\ results["ingest"] = "degraded" => /\ ~(listed \subseteq steadyUp)
                                         /\ ~(listed \subseteq steadyDown)

EndpointInv ==
  /\ EndpointTypes /\ ResultsInv /\ OverallInv
  /\ Steady /\ IngestJudged
  /\ stage = "hosts" => Tally

\* Folding a result in keeps the overall status the worst.
LEMMA ReportKeepsWorst ==
  ASSUME EndpointTypes, ResultsInv, OverallInv, NEW k \in pending,
         NEW status \in Endpoint!Statuses, Endpoint!Report(k, status)
  PROVE  /\ OverallInv' /\ ResultsInv'
         /\ pending' \subseteq Endpoint!Checks /\ stage' = "next"
         /\ results' \in [Endpoint!Checks -> Endpoint!Statuses \union {"none"}]
         /\ overall' \in Endpoint!Statuses
         /\ results'[k] = status
         /\ \A j \in Endpoint!Checks : j # k => results'[j] = results[j]
  <1>1. k \in Endpoint!Checks /\ results[k] = "none"
    BY DEF EndpointTypes, ResultsInv
  <1>2. /\ pending' = pending \ {k} /\ results' = [results EXCEPT ![k] = status]
        /\ overall' = Endpoint!Worse(status) /\ stage' = "next"
    BY DEF Endpoint!Report
  <1>3. /\ results'[k] = status
        /\ \A j \in Endpoint!Checks : j # k => results'[j] = results[j]
        /\ results' \in [Endpoint!Checks -> Endpoint!Statuses \union {"none"}]
    BY <1>1, <1>2 DEF EndpointTypes
  <1>4. ResultsInv'
    BY <1>2, <1>3 DEF EndpointTypes, ResultsInv
  <1>5. Endpoint!Done' = Endpoint!Done \union {k} /\ k \notin Endpoint!Done
    BY <1>1, <1>3 DEF Endpoint!Done, Endpoint!Statuses
  <1>6. /\ overall' \in Endpoint!Statuses /\ overall' \in {status, overall}
        /\ Endpoint!Badness[status] <= Endpoint!Badness[overall']
        /\ Endpoint!Badness[overall] <= Endpoint!Badness[overall']
    BY <1>2 DEF EndpointTypes, Endpoint!Worse, Endpoint!Statuses, Endpoint!Badness
  <1>7. \A st \in Endpoint!Statuses : Endpoint!Badness[st] \in Nat
    BY DEF Endpoint!Statuses, Endpoint!Badness
  <1>8. \A j \in Endpoint!Done : j \in Endpoint!Checks /\ results[j] \in Endpoint!Statuses
    BY DEF Endpoint!Done, EndpointTypes
  <1>9. \A j \in Endpoint!Done' : Endpoint!Badness[results'[j]] <= Endpoint!Badness[overall']
    BY <1>3, <1>5, <1>6, <1>7, <1>8 DEF OverallInv, EndpointTypes
  <1>10. overall' = "healthy" \/ \E j \in Endpoint!Done' : results'[j] = overall'
    BY <1>3, <1>5, <1>6, <1>8 DEF OverallInv
  <1> QED BY <1>2, <1>3, <1>4, <1>6, <1>9, <1>10 DEF OverallInv, EndpointTypes

\* One more host has been asked.
LEMMA AskKeepsTally ==
  ASSUME EndpointTypes, Steady, Tally, NEW h \in unasked, unasked' = unasked \ {h},
         connectedCount' = IF h \in connected THEN connectedCount + 1 ELSE connectedCount,
         UNCHANGED <<listed, connected, steadyUp, steadyDown>>
  PROVE  Tally'
  <1>1. Asked' = Asked \union {h} /\ h \notin Asked
    BY DEF EndpointTypes, Asked
  <1>2. IsFiniteSet(Asked) /\ Cardinality(Asked) \in Nat
    BY FS_Subset, FS_CardinalityType DEF EndpointTypes, Asked
  <1>3. Cardinality(Asked') = Cardinality(Asked) + 1
    BY <1>1, <1>2, FS_AddElement
  <1>4. connectedCount \in Nat
    BY DEF EndpointTypes
  <1>5. CASE h \in connected
    <2>1. connectedCount' = connectedCount + 1 /\ h \notin steadyDown
      BY <1>5 DEF Steady
    <2> QED BY <1>1, <1>2, <1>3, <1>4, <2>1 DEF Tally
  <1>6. CASE h \notin connected
    <2>1. connectedCount' = connectedCount /\ h \notin steadyUp
      BY <1>6 DEF Steady
    <2> QED BY <1>1, <1>2, <1>3, <1>4, <2>1 DEF Tally
  <1> QED BY <1>5, <1>6

\* What a change in the world can do to the tally: less is steady.
LEMMA UnsteadyKeepsTally ==
  ASSUME Tally, steadyUp' \subseteq steadyUp, steadyDown' \subseteq steadyDown,
         UNCHANGED <<listed, unasked, connectedCount>>
  PROVE  Tally'
  BY DEF Tally, Asked

LEMMA InitEndpoint == Endpoint!Init => EndpointInv
  BY FS_EmptySet DEF Endpoint!Init, EndpointInv, EndpointTypes, ResultsInv, OverallInv, Steady,
     IngestJudged, Endpoint!Done, Endpoint!Statuses, Endpoint!Checks

LEMMA NextEndpoint == EndpointInv /\ Endpoint!Next => EndpointInv'
  <1> SUFFICES ASSUME EndpointInv, Endpoint!Next PROVE EndpointInv'
    OBVIOUS
  <1>0. /\ EndpointTypes /\ ResultsInv /\ OverallInv /\ Steady /\ IngestJudged
        /\ stage = "hosts" => Tally
    BY DEF EndpointInv
  <1> USE DEF Endpoint!requestVars, Endpoint!ingestVars, Endpoint!steadyVars, Endpoint!worldVars
  \* what the parts depend on
  <1>1. ASSUME UNCHANGED <<pending, stage, results, overall, code>>
        PROVE  ResultsInv' /\ OverallInv'
    BY <1>0, <1>1 DEF ResultsInv, OverallInv, Endpoint!Done
  <1>2. ASSUME IsFiniteSet(clients)', UNCHANGED <<pending, stage, results, overall, code>>,
               UNCHANGED <<listed, unasked, connectedCount>>,
               steadyUp' \subseteq steadyUp, steadyDown' \subseteq steadyDown, Steady'
        PROVE  EndpointInv'
    <2>1. EndpointTypes'
      BY <1>0, <1>2 DEF EndpointTypes
    <2>2. IngestJudged'
      BY <1>0, <1>2 DEF IngestJudged
    <2>3. stage' = "hosts" => Tally'
      BY <1>0, <1>2, UnsteadyKeepsTally
    <2> QED BY <1>0, <1>1, <1>2, <2>1, <2>2, <2>3 DEF EndpointInv
  <1>3. ASSUME NEW h \in Hosts, Endpoint!AddHost(h) PROVE EndpointInv'
    <2>1. IsFiniteSet(clients)'
      BY <1>0, <1>3, FS_AddElement DEF Endpoint!AddHost, EndpointTypes
    <2>2. Steady'
      BY <1>0, <1>3 DEF Endpoint!AddHost, Steady
    <2> QED BY <1>2, <1>3, <2>1, <2>2 DEF Endpoint!AddHost
  <1>4. ASSUME NEW h \in Hosts, Endpoint!Reconnected(h) \/ Endpoint!Disconnected(h)
        PROVE  EndpointInv'
    <2>1. Steady'
      BY <1>0, <1>4 DEF Endpoint!Reconnected, Endpoint!Disconnected, Steady
    <2>2. IsFiniteSet(clients)'
      BY <1>0, <1>4 DEF Endpoint!Reconnected, Endpoint!Disconnected, EndpointTypes
    <2> QED BY <1>2, <1>4, <2>1, <2>2 DEF Endpoint!Reconnected, Endpoint!Disconnected
  <1>5. CASE Endpoint!DatabaseTurns
    <2>1. Steady' /\ IsFiniteSet(clients)'
      BY <1>0, <1>5 DEF Endpoint!DatabaseTurns, Steady, EndpointTypes
    <2> QED BY <1>2, <1>5, <2>1 DEF Endpoint!DatabaseTurns
  <1>6. CASE Endpoint!BeginRequest
    <2>1. Endpoint!Done' = {} /\ ResultsInv'
      BY <1>6 DEF Endpoint!BeginRequest, Endpoint!Done, ResultsInv
    <2>2. OverallInv'
      BY <1>6, <2>1 DEF Endpoint!BeginRequest, OverallInv
    <2>3. EndpointTypes'
      BY <1>0, <1>6 DEF Endpoint!BeginRequest, EndpointTypes, Endpoint!Statuses
    <2>4. IngestJudged' /\ Steady'
      BY <1>0, <1>6 DEF Endpoint!BeginRequest, IngestJudged, Steady, Endpoint!Checks
    <2> QED BY <1>6, <2>1, <2>2, <2>3, <2>4 DEF Endpoint!BeginRequest, EndpointInv
  \* a check that is not about the hosts reports
  <1>7. ASSUME stage # "hosts", NEW k \in pending, k # "ingest", NEW status \in Endpoint!Statuses,
               Endpoint!Report(k, status),
               UNCHANGED <<clients, connected, listed, unasked, connectedCount, steadyUp, steadyDown>>
        PROVE  EndpointInv'
    <2>1. /\ OverallInv' /\ ResultsInv'
          /\ pending' \subseteq Endpoint!Checks /\ stage' = "next"
          /\ results' \in [Endpoint!Checks -> Endpoint!Statuses \union {"none"}]
          /\ overall' \in Endpoint!Statuses
          /\ \A j \in Endpoint!Checks : j # k => results'[j] = results[j]
      BY <1>0, <1>7, ReportKeepsWorst
    <2>2. EndpointTypes' /\ Steady'
      BY <1>0, <1>7, <2>1 DEF EndpointTypes, Steady
    <2>3. IngestJudged'
      BY <1>0, <1>7, <2>1 DEF IngestJudged, Endpoint!Checks
    <2> QED BY <2>1, <2>2, <2>3 DEF EndpointInv
  <1>8. CASE Endpoint!CheckFirehose
    BY <1>7, <1>8 DEF Endpoint!CheckFirehose, Endpoint!Statuses
  <1>9. CASE Endpoint!CheckDatabase
    BY <1>7, <1>9 DEF Endpoint!CheckDatabase, Endpoint!Statuses
  <1>10. CASE Endpoint!CheckVerification
    <2>1. Endpoint!FailRateStatus(sawVerified, failed) \in Endpoint!Statuses
      BY DEF Endpoint!FailRateStatus, Endpoint!RateStatus, Endpoint!Statuses
    <2>2. "verification" \in pending
      BY <1>0, <1>10 DEF Endpoint!CheckVerification, ResultsInv
    <2> QED BY <1>7, <1>10, <2>1, <2>2 DEF Endpoint!CheckVerification
  <1>11. CASE Endpoint!ListHosts
    <2>1. /\ "ingest" \in pending /\ stage' = "hosts" /\ UNCHANGED <<pending, results, overall, code>>
          /\ listed' = clients /\ unasked' = clients /\ connectedCount' = 0
          /\ steadyUp' = connected /\ steadyDown' = clients \ connected
          /\ UNCHANGED <<clients, connected>>
      BY <1>11 DEF Endpoint!ListHosts
    <2>2. ResultsInv' /\ OverallInv'
      BY <1>0, <2>1 DEF ResultsInv, OverallInv, Endpoint!Done
    <2>3. EndpointTypes' /\ Steady'
      BY <1>0, <2>1 DEF EndpointTypes, Steady
    <2>4. Asked' = {} /\ Tally'
      BY <2>1, FS_EmptySet DEF Asked, Tally
    <2>5. IngestJudged'
      BY <1>0, <2>1 DEF IngestJudged, ResultsInv
    <2> QED BY <2>2, <2>3, <2>4, <2>5 DEF EndpointInv
  <1>12. CASE Endpoint!HostStatus
    <2>1. PICK h \in unasked :
            /\ unasked' = unasked \ {h}
            /\ connectedCount' = IF h \in connected THEN connectedCount + 1 ELSE connectedCount
      BY <1>12 DEF Endpoint!HostStatus
    <2>2. /\ stage = "hosts" /\ UNCHANGED <<pending, stage, results, overall, code>>
          /\ UNCHANGED <<clients, connected, listed, steadyUp, steadyDown>>
      BY <1>12 DEF Endpoint!HostStatus
    <2>3. Tally'
      BY <1>0, <2>1, <2>2, AskKeepsTally
    <2>4. EndpointTypes' /\ Steady'
      BY <1>0, <2>1, <2>2 DEF EndpointTypes, Steady
    <2>5. IngestJudged'
      BY <1>0, <2>2 DEF IngestJudged
    <2> QED BY <1>1, <2>2, <2>3, <2>4, <2>5 DEF EndpointInv
  <1>13. CASE Endpoint!CheckIngest
    <2> DEFINE status == Endpoint!IngestStatus(connectedCount, Cardinality(listed))
    <2>1. /\ stage = "hosts" /\ unasked = {}
          /\ UNCHANGED <<clients, connected, listed, unasked, connectedCount, steadyUp, steadyDown>>
      BY <1>13 DEF Endpoint!CheckIngest
    <2> Endpoint!Report("ingest", status)
      BY <1>13 DEF Endpoint!CheckIngest, Cardinality, Endpoint!Cardinality
    <2>2. "ingest" \in pending /\ status \in Endpoint!Statuses
      BY <1>0, <2>1 DEF ResultsInv, Endpoint!IngestStatus, Endpoint!Statuses
    <2>3. /\ OverallInv' /\ ResultsInv'
          /\ pending' \subseteq Endpoint!Checks /\ stage' = "next"
          /\ results' \in [Endpoint!Checks -> Endpoint!Statuses \union {"none"}]
          /\ overall' \in Endpoint!Statuses /\ results'["ingest"] = status
      BY <1>0, <2>1, <2>2, ReportKeepsWorst
    <2>4. EndpointTypes' /\ Steady'
      BY <1>0, <2>1, <2>3 DEF EndpointTypes, Steady
    <2>5. Asked = listed /\ Tally /\ steadyDown \subseteq listed
      BY <1>0, <2>1 DEF Asked, Steady
    <2>6. Cardinality(listed) \in Nat /\ connectedCount \in Nat
      BY <1>0, FS_CardinalityType DEF EndpointTypes
    <2>7. /\ status = "unhealthy" => connectedCount = 0
          /\ status = "healthy" => connectedCount >= Cardinality(listed)
          /\ status = "degraded" => connectedCount > 0 /\ connectedCount < Cardinality(listed)
      BY <2>6 DEF Endpoint!IngestStatus
    <2>8. IngestJudged'
      BY <2>1, <2>3, <2>5, <2>6, <2>7 DEF IngestJudged, Tally
    <2> QED BY <2>3, <2>4, <2>8 DEF EndpointInv
  <1>14. CASE Endpoint!ReadVerified
    <2>1. /\ "verification" \in pending /\ stage = "next" /\ stage' = "failed"
          /\ UNCHANGED <<pending, results, overall, code>>
          /\ UNCHANGED <<clients, connected, listed, unasked, connectedCount, steadyUp, steadyDown>>
      BY <1>14 DEF Endpoint!ReadVerified
    <2>2. ResultsInv' /\ OverallInv'
      BY <1>0, <2>1 DEF ResultsInv, OverallInv, Endpoint!Done
    <2>3. EndpointTypes' /\ Steady' /\ IngestJudged'
      BY <1>0, <2>1 DEF EndpointTypes, Steady, IngestJudged
    <2> QED BY <2>1, <2>2, <2>3 DEF EndpointInv
  <1>15. CASE Endpoint!Answer
    <2>1. /\ stage' = "idle" /\ UNCHANGED <<pending, results, overall, unasked, clients, connected>>
          /\ pending = {} /\ stage = "next"
          /\ code' = IF overall = "unhealthy" THEN 503 ELSE 200
          /\ listed' = {} /\ connectedCount' = 0 /\ steadyUp' = {} /\ steadyDown' = {}
      BY <1>15 DEF Endpoint!Answer
    <2>2. ResultsInv' /\ OverallInv'
      BY <1>0, <2>1 DEF ResultsInv, OverallInv, Endpoint!Done
    <2>3. EndpointTypes' /\ Steady' /\ IngestJudged'
      BY <1>0, <2>1, FS_EmptySet DEF EndpointTypes, Steady, IngestJudged
    <2> QED BY <2>1, <2>2, <2>3 DEF EndpointInv
  <1> QED BY <1>3, <1>4, <1>5, <1>6, <1>8, <1>9, <1>10, <1>11, <1>12, <1>13, <1>14, <1>15
          DEF Endpoint!Next, Endpoint!World, Endpoint!Request

-----------------------------------------------------------------------------
(* The two together.                                                       *)

\* The check saw no more successes than there were; a failure that was on record
\* still is; and its result, if there is one, fits both.
VerificationInv ==
  /\ sawVerified \in Nat /\ sawVerified <= judged["success"]
  /\ failedBefore => failed > 0
  /\ VerificationVerdict

MonitorInv == PipelineInv /\ EndpointInv /\ VerificationInv

LEMMA CountersBounded ==
  ASSUME PipelineInv
  PROVE  /\ verified <= judged["success"] /\ failed <= failures
         /\ verified \in Nat /\ failed \in Nat /\ judged["success"] \in Nat /\ failures \in Nat
  <1>1. /\ Cardinality(Unwritten(Success)) \in Nat /\ Cardinality(Unwritten(Failing)) \in Nat
        /\ "success" \in Verdicts
    BY Countable DEF Success, Failing, Verdicts, SignatureCheck
  <1> QED BY <1>1 DEF PipelineInv, PipelineTypes, Lags

\* What is on record stays on record, although increments get lost.
LEMMA PipelineAdvances ==
  ASSUME PipelineInv, [Next]_vars
  PROVE  /\ judged["success"] <= judged'["success"] /\ failures <= failures'
         /\ failed > 0 => failed' > 0
  <1> USE DEF PipelineInv, PipelineTypes, historyVars
  <1>0. "success" \in Verdicts
    BY DEF Verdicts, SignatureCheck
  <1>1. ASSUME NEW w \in Workers, NEW v, Judge(w, v)
        PROVE  judged["success"] <= judged'["success"] /\ failures <= failures'
    BY <1>0, <1>1 DEF Judge
  <1>2. ASSUME NEW w \in Workers, ResolveIdentity(w) \/ CheckCommit(w)
        PROVE  /\ judged["success"] <= judged'["success"] /\ failures <= failures'
               /\ failed' = failed
    BY <1>0, <1>1, <1>2 DEF ResolveIdentity, CheckCommit
  <1>3. ASSUME NEW w \in Workers, WriteCounter(w)
        PROVE  /\ judged["success"] <= judged'["success"] /\ failures <= failures'
               /\ failed > 0 => failed' > 0
    BY <1>0, <1>3 DEF WriteCounter, Record
  <1>4. ASSUME NEW w \in Workers, Begin(w) \/ ReadCounter(w) \/ CountVerdict(w)
        PROVE  UNCHANGED <<judged, failures, failed>>
    BY <1>4 DEF Begin, ReadCounter, CountVerdict
  <1>5. CASE UNCHANGED vars
    BY <1>0, <1>5 DEF vars
  <1> QED BY <1>0, <1>2, <1>3, <1>4, <1>5 DEF Next

\* A step of one of the two is no step of the other.
LEMMA Apart ==
  ASSUME [MonitorNext]_<<vars, endpointVars>>
  PROVE  /\ [Next]_vars
         /\ \/ Endpoint!Next /\ UNCHANGED pipelineVars
            \/ UNCHANGED endpointVars
  <1>1. ASSUME Endpoint!Next PROVE UNCHANGED <<verified, failed>>
    BY <1>1 DEF Endpoint!Next, Endpoint!World, Endpoint!Request, Endpoint!AddHost,
       Endpoint!Reconnected, Endpoint!Disconnected, Endpoint!DatabaseTurns,
       Endpoint!BeginRequest, Endpoint!CheckFirehose, Endpoint!CheckDatabase,
       Endpoint!ListHosts, Endpoint!HostStatus, Endpoint!CheckIngest,
       Endpoint!ReadVerified, Endpoint!CheckVerification, Endpoint!Answer,
       Endpoint!worldVars
  <1>2. ASSUME Endpoint!Next, UNCHANGED pipelineVars PROVE UNCHANGED vars
    BY <1>1, <1>2 DEF pipelineVars, vars
  <1> QED BY <1>2 DEF MonitorNext

\* What the endpoint's steps do to the verification check.
LEMMA RequestKeepsVerdict ==
  ASSUME MonitorInv, Endpoint!Next, UNCHANGED pipelineVars
  PROVE  VerificationInv'
  <1>0. /\ EndpointTypes /\ ResultsInv /\ VerificationInv
        /\ "verification" \in Endpoint!Checks /\ "success" \in Verdicts
        /\ UNCHANGED <<judged, failures>>
        /\ verified <= judged["success"] /\ failed <= failures
        /\ verified \in Nat /\ failed \in Nat /\ judged["success"] \in Nat /\ failures \in Nat
    BY CountersBounded
       DEF MonitorInv, EndpointInv, Endpoint!Checks, Verdicts, SignatureCheck, pipelineVars, historyVars
  <1> USE DEF Endpoint!requestVars, Endpoint!ingestVars, Endpoint!steadyVars, Endpoint!worldVars
  <1>1. ASSUME UNCHANGED <<results, sawVerified, failedBefore, failed>> PROVE VerificationInv'
    BY <1>0, <1>1 DEF VerificationInv, VerificationVerdict
  <1>2. ASSUME results'["verification"] = "none", sawVerified' = sawVerified,
               failedBefore' = failedBefore, failed' = failed
        PROVE  VerificationInv'
    BY <1>0, <1>2 DEF VerificationInv, VerificationVerdict
  <1>3. ASSUME NEW h \in Hosts,
               Endpoint!AddHost(h) \/ Endpoint!Reconnected(h) \/ Endpoint!Disconnected(h)
        PROVE  VerificationInv'
    BY <1>1, <1>3 DEF Endpoint!AddHost, Endpoint!Reconnected, Endpoint!Disconnected
  <1>4. CASE Endpoint!DatabaseTurns \/ Endpoint!ListHosts \/ Endpoint!HostStatus
    BY <1>1, <1>4 DEF Endpoint!DatabaseTurns, Endpoint!ListHosts, Endpoint!HostStatus
  <1>5. CASE Endpoint!BeginRequest
    BY <1>0, <1>2, <1>5 DEF Endpoint!BeginRequest
  \* a result of another check
  <1>6. ASSUME NEW k \in Endpoint!Checks, k # "verification", NEW status,
               Endpoint!Report(k, status), UNCHANGED <<sawVerified, failedBefore, failed>>
        PROVE  VerificationInv'
    <2>1. results'["verification"] = results["verification"]
      BY <1>0, <1>6 DEF Endpoint!Report, EndpointTypes
    <2> QED BY <1>0, <1>6, <2>1 DEF VerificationInv, VerificationVerdict
  <1>7. CASE Endpoint!CheckFirehose \/ Endpoint!CheckDatabase
    BY <1>6, <1>7 DEF Endpoint!CheckFirehose, Endpoint!CheckDatabase, Endpoint!Checks
  <1>8. CASE Endpoint!CheckIngest
    BY <1>6, <1>8 DEF Endpoint!CheckIngest, Endpoint!Checks
  <1>9. CASE Endpoint!ReadVerified
    <2>1. /\ sawVerified' = verified /\ failedBefore' = (failed > 0) /\ failed' = failed
          /\ results' = results /\ "verification" \in pending
      BY <1>9 DEF Endpoint!ReadVerified
    <2>2. results'["verification"] = "none"
      BY <1>0, <2>1 DEF ResultsInv
    <2> QED BY <1>0, <2>1, <2>2 DEF VerificationInv, VerificationVerdict
  <1>10. CASE Endpoint!CheckVerification
    <2> DEFINE status == Endpoint!FailRateStatus(sawVerified, failed)
    <2>1. /\ UNCHANGED <<sawVerified, failedBefore, failed>>
          /\ results'["verification"] = status
      BY <1>0, <1>10 DEF Endpoint!CheckVerification, Endpoint!Report, EndpointTypes
    <2>2. sawVerified \in Nat
      BY <1>0 DEF VerificationInv
    <2>3. /\ status \in {"degraded", "unhealthy"} => failed > 0
          /\ status = "healthy" /\ sawVerified = 0 => failed = 0
      BY <1>0, <2>2 DEF Endpoint!FailRateStatus, Endpoint!RateStatus
    <2> QED BY <1>0, <2>1, <2>2, <2>3 DEF VerificationInv, VerificationVerdict
  <1>11. CASE Endpoint!Answer
    <2>1. /\ sawVerified' = 0 /\ failedBefore' = FALSE /\ results' = results
      BY <1>11 DEF Endpoint!Answer
    <2> QED BY <1>0, <2>1 DEF VerificationInv, VerificationVerdict
  <1> QED BY <1>3, <1>4, <1>5, <1>7, <1>8, <1>9, <1>10, <1>11
          DEF Endpoint!Next, Endpoint!World, Endpoint!Request

LEMMA InitMonitor == MonitorInit => MonitorInv
  <1> SUFFICES ASSUME MonitorInit PROVE MonitorInv
    OBVIOUS
  <1>1. "success" \in Verdicts /\ "verification" \in Endpoint!Checks
    BY DEF Verdicts, SignatureCheck, Endpoint!Checks
  <1>2. VerificationInv
    BY <1>1 DEF MonitorInit, Init, Endpoint!Init, VerificationInv, VerificationVerdict
  <1> QED BY <1>2, InitPipeline, InitEndpoint DEF MonitorInit, MonitorInv

LEMMA NextMonitor == MonitorInv /\ [MonitorNext]_<<vars, endpointVars>> => MonitorInv'
  <1> SUFFICES ASSUME MonitorInv, [MonitorNext]_<<vars, endpointVars>> PROVE MonitorInv'
    OBVIOUS
  <1>1. [Next]_vars /\ PipelineInv /\ EndpointInv /\ VerificationInv
    BY Apart DEF MonitorInv
  <1>2. PipelineInv'
    BY <1>1, NextPipeline
  <1>3. CASE Endpoint!Next /\ UNCHANGED pipelineVars
    BY <1>1, <1>2, <1>3, NextEndpoint, RequestKeepsVerdict DEF MonitorInv
  <1>4. CASE UNCHANGED endpointVars
    <2>1. EndpointInv'
      BY <1>1, <1>4 DEF endpointVars, EndpointInv, EndpointTypes, ResultsInv, OverallInv, Steady,
         IngestJudged, Tally, Asked, Endpoint!Done
    <2>2. UNCHANGED <<sawVerified, failedBefore, results>>
      BY <1>4 DEF endpointVars
    <2>3. /\ judged["success"] <= judged'["success"] /\ failures <= failures'
          /\ failed > 0 => failed' > 0
      BY <1>1, PipelineAdvances
    <2>4. /\ judged["success"] \in Nat /\ judged'["success"] \in Nat
          /\ failures \in Nat /\ failures' \in Nat
      BY <1>1, <1>2 DEF PipelineInv, PipelineTypes, Verdicts, SignatureCheck
    <2>5. VerificationInv'
      BY <1>1, <2>2, <2>3, <2>4 DEF VerificationInv, VerificationVerdict
    <2> QED BY <1>2, <2>1, <2>5 DEF MonitorInv
  <1> QED BY <1>3, <1>4, Apart

\* The maximum of the results is what the fold of the checks has reached.
LEMMA WorstIsMax == EndpointInv => WorstWins
  <1> SUFFICES ASSUME EndpointInv PROVE Endpoint!WorstWins
    BY DEF WorstWins
  <1> DEFINE S == {Endpoint!Badness[results[k]] : k \in Endpoint!Done} \union {0}
  <1> DEFINE m == Endpoint!Badness[overall]
  <1>0. /\ EndpointTypes /\ OverallInv
        /\ \A k \in Endpoint!Done : k \in Endpoint!Checks /\ results[k] \in Endpoint!Statuses
        /\ \A st \in Endpoint!Statuses : Endpoint!Badness[st] \in Nat
    BY DEF EndpointInv, EndpointTypes, Endpoint!Done, Endpoint!Statuses, Endpoint!Badness
  <1>1. m \in S /\ \A n \in S : m >= n
    <2>1. m \in Nat /\ (overall = "healthy" => m = 0)
      BY <1>0 DEF EndpointTypes, Endpoint!Badness
    <2> QED BY <1>0, <2>1 DEF OverallInv
  <1>2. S \subseteq Nat
    BY <1>0
  <1>3. Endpoint!Max(S) = m
    BY <1>1, <1>2 DEF Endpoint!Max
  <1>4. overall = "unhealthy" <=> \E k \in Endpoint!Checks : results[k] = "unhealthy"
    BY <1>0 DEF OverallInv, EndpointTypes, Endpoint!Done, Endpoint!Badness, Endpoint!Statuses
  <1>5. stage = "idle" /\ Endpoint!Done # {} =>
          (code = 503 <=> \E k \in Endpoint!Checks : results[k] = "unhealthy")
    BY <1>0, <1>4 DEF OverallInv
  <1> QED BY <1>3, <1>5 DEF Endpoint!WorstWins

LEMMA JudgedIsVerdict == EndpointInv => IngestVerdict
  BY DEF EndpointInv, EndpointTypes, IngestJudged, Steady, IngestVerdict, Endpoint!IngestVerdict,
     Endpoint!Statuses, Endpoint!Checks

-----------------------------------------------------------------------------

\* The statistics report no success and no failure that did not happen, however
\* many workers overwrite each other's increments.
THEOREM StatisticsNeverTooLarge == MonitorSpec => []NeverOvercounted
  <1>1. MonitorInv => NeverOvercounted
    BY CountersBounded DEF MonitorInv, NeverOvercounted
  <1> QED BY InitMonitor, NextMonitor, <1>1, PTL DEF MonitorSpec

\* The labelled counter is exact per verdict but for those being recorded.
THEOREM LabelledCounterExact == MonitorSpec => []VerdictsExact
  <1>1. MonitorInv => VerdictsExact
    BY DEF MonitorInv, PipelineInv, ExactOf, Recording, VerdictsExact
  <1> QED BY InitMonitor, NextMonitor, <1>1, PTL DEF MonitorSpec

\* The verification check raises no alarm before a verification has failed and
\* gives no all-clear while none has succeeded and a failure is on record.
THEOREM VerificationJudged == MonitorSpec => []VerificationVerdict
  <1>1. MonitorInv => VerificationVerdict
    BY DEF MonitorInv, VerificationInv
  <1> QED BY InitMonitor, NextMonitor, <1>1, PTL DEF MonitorSpec

\* The worst result wins, in whatever order the checks run.
THEOREM WorstResultWins == MonitorSpec => []WorstWins
  <1>1. MonitorInv => WorstWins
    BY WorstIsMax DEF MonitorInv
  <1> QED BY InitMonitor, NextMonitor, <1>1, PTL DEF MonitorSpec

\* Whatever connections do while the hosts are asked one by one, the verdict of the
\* ingest check has a reason.
THEOREM IngestStatusJudged == MonitorSpec => []IngestVerdict
  <1>1. MonitorInv => IngestVerdict
    BY JudgedIsVerdict DEF MonitorInv
  <1> QED BY InitMonitor, NextMonitor, <1>1, PTL DEF MonitorSpec

=============================================================================
