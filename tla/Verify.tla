------------------------------- MODULE Verify -------------------------------
(***************************************************************************)
(* The verification pipeline (relay/internal/verify/pipeline.go) and the   *)
(* identity resolver it asks (relay/internal/verify/identity.go), run      *)
(* inside the event handler by all ingest workers at once.                 *)
(*                                                                         *)
(* What the workers share is the bookkeeping: two plain integers of the    *)
(* Pipeline, incremented without a lock, and one Prometheus counter with a *)
(* label, whose increments are atomic.  What a DID resolves to and whether *)
(* a signature is good is chosen freely.                                   *)
(***************************************************************************)
EXTENDS Integers, FiniteSets

CONSTANTS
  Workers,    \* ingest workers
  Rejections, \* why a commit may be refused before its signature is checked:
              \* car_parse_failed, no_signature, no_pubkey
  MaxCommits  \* bound: events handed to Verify in one behaviour

SignatureCheck == {"success", "signature_invalid"}

ASSUME VerifyConstants ==
  /\ Rejections \intersect (SignatureCheck \union {"identity_failed", "resolve_failed"}) = {}
  /\ MaxCommits \in Nat

\* Labels of VerificationTotal: those of recordFailure, that of recordSuccess,
\* and the one the resolver uses.
Verdicts == {"identity_failed"} \union Rejections \union SignatureCheck
Labels   == Verdicts \union {"resolve_failed"}

VARIABLES
  handed,    \* events handed to Verify
  step,      \* what each worker does next
  verdict,   \* the label its event ended with
  register,  \* the counter's value it has read and not yet written back
  verified,  \* Pipeline.verified
  failed,    \* Pipeline.failed
  total,     \* VerificationTotal, by label
  (* for the properties *)
  judged,    \* how many events ended with each verdict
  failures   \* how many ended with another than success

historyVars == <<judged, failures>>

vars == <<handed, step, verdict, register, verified, failed, total, historyVars>>

Init ==
  /\ handed = 0
  /\ step = [w \in Workers |-> "idle"]
  /\ verdict = [w \in Workers |-> "success"]
  /\ register = [w \in Workers |-> 0]
  /\ verified = 0
  /\ failed = 0
  /\ total = [l \in Labels |-> 0]
  /\ judged = [v \in Verdicts |-> 0]
  /\ failures = 0

-----------------------------------------------------------------------------

\* An event that is not a commit, or a commit without blocks, is trusted and
\* leaves no trace; for the others the resolver is asked.
Begin(w) ==
  /\ step[w] = "idle"
  /\ handed < MaxCommits
  /\ handed' = handed + 1
  /\ step' \in {step, [step EXCEPT ![w] = "resolve"]}
  /\ UNCHANGED <<verdict, register, verified, failed, total, historyVars>>

\* The event of w has ended with the verdict v, which is now to be recorded.
Judge(w, v) ==
  /\ step' = [step EXCEPT ![w] = "read"]
  /\ verdict' = [verdict EXCEPT ![w] = v]
  /\ judged' = [judged EXCEPT ![v] = @ + 1]
  /\ failures' = IF v = "success" THEN failures ELSE failures + 1

\* ResolveIdentity: the DID is malformed; or the lookup fails, which the
\* resolver counts itself; or the identity is known.
ResolveIdentity(w) ==
  /\ step[w] = "resolve"
  /\ \/ Judge(w, "identity_failed") /\ UNCHANGED total
     \/ /\ Judge(w, "identity_failed")
        /\ total' = [total EXCEPT !["resolve_failed"] = @ + 1]
     \/ /\ step' = [step EXCEPT ![w] = "check"]
        /\ UNCHANGED <<verdict, historyVars, total>>
  /\ UNCHANGED <<handed, register, verified, failed>>

\* The blocks, the signature's presence, the key and the signature, in turn.
CheckCommit(w) ==
  /\ step[w] = "check"
  /\ \E v \in Rejections \union SignatureCheck : Judge(w, v)
  /\ UNCHANGED <<handed, register, verified, failed, total>>

-----------------------------------------------------------------------------
(* recordSuccess and recordFailure: counter++ reads, then writes; then the *)
(* Prometheus counter.                                                     *)

ReadCounter(w) ==
  /\ step[w] = "read"
  /\ register' = [register EXCEPT ![w] = IF verdict[w] = "success" THEN verified ELSE failed]
  /\ step' = [step EXCEPT ![w] = "write"]
  /\ UNCHANGED <<handed, verdict, verified, failed, total, historyVars>>

RecordAsSuccess(v, n) == verified' = n /\ UNCHANGED failed

Record(v, n) ==
  IF v = "success" THEN verified' = n /\ UNCHANGED failed
                   ELSE failed' = n /\ UNCHANGED verified

WriteCounter(w) ==
  /\ step[w] = "write"
  /\ Record(verdict[w], register[w] + 1)
  /\ step' = [step EXCEPT ![w] = "count"]
  /\ UNCHANGED <<handed, verdict, register, total, historyVars>>

LabelSuccess(v) == "success"
Label(v)        == v

CountVerdict(w) ==
  /\ step[w] = "count"
  /\ total' = [total EXCEPT ![Label(verdict[w])] = @ + 1]
  /\ step' = [step EXCEPT ![w] = "idle"]
  /\ UNCHANGED <<handed, verdict, register, verified, failed, historyVars>>

Next ==
  \E w \in Workers :
    \/ Begin(w) \/ ResolveIdentity(w) \/ CheckCommit(w)
    \/ ReadCounter(w) \/ WriteCounter(w) \/ CountVerdict(w)

Spec == Init /\ [][Next]_vars

-----------------------------------------------------------------------------
(* Properties.                                                             *)

\* Workers that overwrite each other's increments make the statistics of the
\* pipeline too small, never too large: Stats reports no success and no failure
\* that did not happen.
NeverOvercounted == verified <= judged["success"] /\ failed <= failures

\* The labelled counter, unlike the statistics, is exact per verdict whatever
\* the workers interleave: it lags only by the verdicts being recorded.
VerdictsExact ==
  \A v \in Verdicts :
    judged[v] = total[v] + Cardinality({w \in Workers :
      step[w] \in {"read", "write", "count"} /\ verdict[w] = v})

=============================================================================
