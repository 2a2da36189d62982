---------------------------- MODULE RetryingCall ----------------------------
(***************************************************************************)
(* The retry loops that call a provider through one shared circuit         *)
(* breaker: CircuitBreakerProvider.call of internal/llm, which every       *)
(* Call, Stream and Embeddings of a wrapped provider goes through, and     *)
(* RetrierImplementation.ExecuteWithCircuitBreaker.  The two differ only   *)
(* in what counts as retryable: the provider's default classification      *)
(* never retries the breaker's own "circuit breaker is open" error, while  *)
(* the policy of a retrier may list that message; the Retriers here do.    *)
(*                                                                         *)
(* A step of the loop between two breaker calls touches nothing shared, so *)
(* the decision made on an error belongs to the action that reports it.    *)
(***************************************************************************)
EXTENDS CircuitBreaker

CONSTANTS
  MaxRetries,  \* Retry.MaxRetries, or the retrier policy's
  Retriers     \* callers whose loop is RetrierImplementation's

ASSUME RetryAssumption == MaxRetries \in Nat /\ Retriers \subseteq Callers

VARIABLES
  phase,    \* where each caller's loop is
  attempt,  \* attempts begun in the current call, from 1
  entered,  \* history: how often the current call ran the provider,
            \* counted up to the bound MaxRetries + 2
  ctxDone,  \* the caller's context is done
  healthy   \* the provider has recovered for good and no caller cancels

retryVars == <<phase, attempt, entered, ctxDone, healthy>>
vars == <<breakerVars, retryVars>>

Phases == {"idle", "trying", "calling", "backoff", "done"}

TypeOK ==
  /\ BreakerTypeOK
  /\ phase \in [Callers -> Phases]
  /\ attempt \in [Callers -> 0..(MaxRetries + 1)]
  /\ entered \in [Callers -> 0..(MaxRetries + 2)]
  /\ ctxDone \in [Callers -> BOOLEAN]
  /\ healthy \in BOOLEAN

Init ==
  /\ BreakerInit
  /\ phase = [c \in Callers |-> "idle"]
  /\ attempt = [c \in Callers |-> 0]
  /\ entered = [c \in Callers |-> 0]
  /\ ctxDone = [c \in Callers |-> FALSE]
  /\ healthy = FALSE
-----------------------------------------------------------------------------
To(c, p) == phase' = [phase EXCEPT ![c] = p]

(* A request arrives with a context of its own. *)
Begin(c) ==
  /\ phase[c] \in {"idle", "done"}
  /\ To(c, "trying")
  /\ attempt' = [attempt EXCEPT ![c] = 1]
  /\ entered' = [entered EXCEPT ![c] = 0]
  /\ ctxDone' = [ctxDone EXCEPT ![c] = FALSE]
  /\ UNCHANGED <<breakerVars, healthy>>

(* The end of an attempt that failed: give up, or wait for the backoff.    *)
AfterError(c, retryable) ==
  To(c, IF retryable /\ attempt[c] <= MaxRetries THEN "backoff" ELSE "done")

TryAdmitted(c) ==
  /\ phase[c] = "trying"
  /\ Admit(c)
  /\ To(c, "calling")
  /\ entered' = [entered EXCEPT ![c] = IF @ < MaxRetries + 2 THEN @ + 1 ELSE @]
  /\ UNCHANGED <<attempt, ctxDone, healthy>>

(* Slip: every caller's loop takes a rejection for a passing error.        *)
TryRejectedTransient(c) ==
  /\ phase[c] = "trying"
  /\ Reject(c)
  /\ AfterError(c, TRUE)
  /\ UNCHANGED <<attempt, entered, ctxDone, healthy>>

TryRejected(c) ==
  /\ phase[c] = "trying"
  /\ Reject(c)
  /\ AfterError(c, c \in Retriers)
  /\ UNCHANGED <<attempt, entered, ctxDone, healthy>>

ProviderAnswers(c) ==
  /\ phase[c] = "calling"
  /\ Succeed(c)
  /\ To(c, "done")
  /\ UNCHANGED <<attempt, entered, ctxDone, healthy>>

(* A provider error, retryable or not, or the caller's own cancellation    *)
(* coming back as context.Canceled, which the default classification       *)
(* retries.  The breaker counts all of them.                               *)
ProviderFails(c) ==
  /\ phase[c] = "calling"
  /\ ~healthy \/ ctxDone[c]
  /\ Fail(c)
  /\ \E retryable \in BOOLEAN :
        /\ ctxDone[c] /\ c \notin Retriers => retryable
        /\ AfterError(c, retryable)
  /\ UNCHANGED <<attempt, entered, ctxDone, healthy>>

BackoffElapses(c) ==
  /\ phase[c] = "backoff"
  /\ To(c, "trying")
  /\ attempt' = [attempt EXCEPT ![c] = @ + 1]
  /\ UNCHANGED <<breakerVars, entered, ctxDone, healthy>>

BackoffCancelled(c) ==
  /\ phase[c] = "backoff"
  /\ ctxDone[c]
  /\ To(c, "done")
  /\ UNCHANGED <<breakerVars, attempt, entered, ctxDone, healthy>>

Cancel(c) ==
  /\ ~healthy
  /\ phase[c] \in {"trying", "calling", "backoff"}
  /\ ~ctxDone[c]
  /\ ctxDone' = [ctxDone EXCEPT ![c] = TRUE]
  /\ UNCHANGED <<breakerVars, phase, attempt, entered, healthy>>

Timeout == TimeoutPasses /\ UNCHANGED retryVars

Recover ==
  /\ ~healthy
  /\ healthy' = TRUE
  /\ UNCHANGED <<breakerVars, phase, attempt, entered, ctxDone>>
-----------------------------------------------------------------------------
Return(c) == ProviderAnswers(c) \/ ProviderFails(c)
Try(c)    == TryAdmitted(c) \/ TryRejected(c)
Wake(c)   == BackoffElapses(c) \/ BackoffCancelled(c)

Next ==
  \/ \E c \in Callers : Begin(c) \/ Try(c) \/ Return(c) \/ Wake(c) \/ Cancel(c)
  \/ Timeout
  \/ Recover

Spec == Init /\ [][Next]_vars

(* The provider returns, the backoff timer and the breaker's clock advance *)
(* and the scheduler runs a caller that can run.  Requests keep arriving:  *)
(* that is the load Recovers is about.  Cancel and Recover may never come. *)
Fairness ==
  /\ \A c \in Callers : /\ WF_vars(Begin(c))
                        /\ WF_vars(Try(c))
                        /\ WF_vars(Return(c))
                        /\ WF_vars(Wake(c))
  /\ WF_vars(Timeout)

FairSpec == Spec /\ Fairness
-----------------------------------------------------------------------------
(* A call runs the provider at most MaxRetries + 1 times, and strictly     *)
(* fewer when the breaker turned its last attempt away.                    *)
RetryBudget ==
  \A c \in Callers :
     /\ entered[c] <= MaxRetries + 1
     /\ phase[c] = "done" /\ call[c] = "rejected" => entered[c] <= MaxRetries

(* circuit_breaker_provider.go:90 "an open circuit short-circuits          *)
(* immediately without touching the inner provider or sleeping through a   *)
(* retry loop": behind a wrapped provider every attempt that another one   *)
(* followed, or that waits for one, has run the provider; only the last    *)
(* attempt of a call may have been turned away.                            *)
RejectionsFinal ==
  \A c \in Callers \ Retriers :
     /\ attempt[c] <= entered[c] + 1
     /\ phase[c] \in {"calling", "backoff"} => attempt[c] = entered[c]

RetryInv == TypeOK /\ RetryBudget /\ RejectionsFinal

(* Every call returns, whatever the provider, the breaker and the other    *)
(* callers do.                                                             *)
CallReturns ==
  \A c \in Callers : phase[c] = "trying" ~> phase[c] = "done"

(* Once the provider has recovered, a breaker in use ends up closed: the   *)
(* late returns, the lost slots and the rejections of the outage cannot    *)
(* keep it open or half-open.                                              *)
Recovers == healthy ~> [](state = "Closed")

(* No caller is stuck for good, and none is turned away for good.          *)
Progress == CallReturns /\ Recovers
=============================================================================
