--------------------------- MODULE CircuitBreaker ---------------------------
(***************************************************************************)
(* CircuitBreakerImplementation of internal/core/error_handling: a breaker *)
(* shared by concurrent callers.  Call holds the mutex to decide admission *)
(* and to report the outcome, and releases it while the protected function *)
(* runs, so the breaker can change state any number of times between the   *)
(* two halves of one call.  Each half is one action here.                  *)
(*                                                                         *)
(* Time is abstracted to timeoutPassed: whether config.Timeout has elapsed *)
(* since lastFailureTime.  The variables probes, late and good are history *)
(* variables: no action reads them to decide anything.                     *)
(***************************************************************************)
EXTENDS Integers, FiniteSets

CONSTANTS
  Callers,             \* goroutines that use the breaker
  FailureThreshold,    \* config.FailureThreshold
  SuccessThreshold,    \* config.SuccessThreshold
  MaxConcurrentCalls,  \* config.MaxConcurrentCalls
  FailureCap           \* bound: failureCount is counted up to this value

ASSUME ConfigAssumption ==
  /\ IsFiniteSet(Callers)
  /\ FailureThreshold \in Nat
  /\ SuccessThreshold \in Nat
  /\ MaxConcurrentCalls \in Nat
  /\ FailureCap \in Nat
  /\ FailureCap >= FailureThreshold

VARIABLES
  state,            \* Closed, Open or HalfOpen
  failureCount,
  successCount,
  concurrentCalls,  \* counted in half-open only; it may become negative
  timeoutPassed,    \* time.Since(lastFailureTime) >= config.Timeout
  call,             \* what the latest Call of each caller came to
  probes,           \* calls running that this half-open episode admitted
  late,             \* calls of an earlier episode that returned in this one
  good              \* successes reported in this half-open episode

breakerVars == <<state, failureCount, successCount, concurrentCalls,
                 timeoutPassed, call, probes, late, good>>

States   == {"Closed", "Open", "HalfOpen"}
Outcomes == {"idle", "running", "ok", "error", "rejected"}

Running == {c \in Callers : call[c] = "running"}

BreakerTypeOK ==
  /\ state \in States
  /\ failureCount \in 0..FailureCap
  /\ successCount \in 0..SuccessThreshold
  /\ concurrentCalls \in Int
  /\ timeoutPassed \in BOOLEAN
  /\ call \in [Callers -> Outcomes]
  /\ probes \in SUBSET Callers
  /\ late \in Nat
  /\ good \in Nat

BreakerInit ==
  /\ state = "Closed"
  /\ failureCount = 0
  /\ successCount = 0
  /\ concurrentCalls = 0
  /\ timeoutPassed = TRUE     \* lastFailureTime is the zero time
  /\ call = [c \in Callers |-> "idle"]
  /\ probes = {}
  /\ late = 0
  /\ good = 0
-----------------------------------------------------------------------------
(* Call, first half: canCall under the mutex, then the increment that only *)
(* a half-open breaker makes.                                              *)

HalfOpenSlot == concurrentCalls < MaxConcurrentCalls

CanCall ==
  \/ state = "Closed"
  \/ state = "Open" /\ timeoutPassed
  \/ state = "HalfOpen" /\ HalfOpenSlot

AdmitClosed(c) ==
  /\ state = "Closed"
  /\ UNCHANGED <<state, successCount, concurrentCalls, probes, late, good>>

(* Slip: the transition to half-open forgets to reset the counter.         *)
AdmitFirstProbeKeepingCount(c) ==
  /\ state = "Open"
  /\ timeoutPassed
  /\ state' = "HalfOpen"
  /\ successCount' = 0
  /\ concurrentCalls' = concurrentCalls + 1
  /\ probes' = {c}
  /\ late' = 0
  /\ good' = 0

(* The first caller after the timeout opens the half-open episode; this    *)
(* branch of canCall does not look at MaxConcurrentCalls.                  *)
AdmitFirstProbe(c) ==
  /\ state = "Open"
  /\ timeoutPassed
  /\ state' = "HalfOpen"
  /\ successCount' = 0
  /\ concurrentCalls' = 1
  /\ probes' = {c}
  /\ late' = 0
  /\ good' = 0

AdmitProbe(c) ==
  /\ state = "HalfOpen"
  /\ HalfOpenSlot
  /\ concurrentCalls' = concurrentCalls + 1
  /\ probes' = probes \cup {c}
  /\ UNCHANGED <<state, successCount, late, good>>

Admit(c) ==
  /\ call[c] # "running"
  /\ AdmitClosed(c) \/ AdmitFirstProbe(c) \/ AdmitProbe(c)
  /\ call' = [call EXCEPT ![c] = "running"]
  /\ UNCHANGED <<failureCount, timeoutPassed>>

Reject(c) ==
  /\ call[c] # "running"
  /\ ~CanCall
  /\ call' = [call EXCEPT ![c] = "rejected"]
  /\ UNCHANGED <<state, failureCount, successCount, concurrentCalls,
                 timeoutPassed, probes, late, good>>
-----------------------------------------------------------------------------
(* Call, second half: onSuccess or onFailure by the state the breaker is   *)
(* in when the function returns, whichever state admitted the call; then   *)
(* the decrement if the breaker is half-open after that.                   *)

(* Slip: the slot of a successful probe is not given back.                 *)
LeaveHalfOpenKeepingSlot(c) ==
  /\ concurrentCalls' = concurrentCalls
  /\ probes' = probes \ {c}
  /\ late' = IF c \in probes THEN late ELSE late + 1

(* A return reported in half-open: concurrentCalls goes down whether or    *)
(* not this episode counted the call.                                      *)
LeaveHalfOpen(c) ==
  /\ concurrentCalls' = concurrentCalls - 1
  /\ probes' = probes \ {c}
  /\ late' = IF c \in probes THEN late ELSE late + 1

SucceedClosed ==
  /\ state = "Closed"
  /\ failureCount' = 0
  /\ UNCHANGED <<state, successCount, concurrentCalls, probes, late, good>>

(* Slip: a success closes the breaker whatever its state.                  *)
SucceedOpenCloses ==
  /\ state = "Open"
  /\ state' = "Closed"
  /\ failureCount' = 0
  /\ UNCHANGED <<successCount, concurrentCalls, probes, late, good>>

SucceedOpen ==
  /\ state = "Open"
  /\ UNCHANGED <<state, failureCount, successCount, concurrentCalls,
                 probes, late, good>>

EnoughSuccesses == successCount + 1 >= SuccessThreshold

SucceedHalfOpen(c) ==
  /\ state = "HalfOpen"
  /\ good' = good + 1
  /\ \/ /\ EnoughSuccesses
        /\ state' = "Closed"
        /\ failureCount' = 0
        /\ successCount' = 0
        /\ probes' = {}
        /\ UNCHANGED <<concurrentCalls, late>>
     \/ /\ ~EnoughSuccesses
        /\ successCount' = successCount + 1
        /\ LeaveHalfOpen(c)
        /\ UNCHANGED <<state, failureCount>>

Succeed(c) ==
  /\ call[c] = "running"
  /\ SucceedClosed \/ SucceedOpen \/ SucceedHalfOpen(c)
  /\ call' = [call EXCEPT ![c] = "ok"]
  /\ UNCHANGED timeoutPassed

CountFailure ==
  failureCount' = IF failureCount < FailureCap THEN failureCount + 1
                                               ELSE failureCount

FailClosed ==
  /\ state = "Closed"
  /\ state' = IF failureCount + 1 >= FailureThreshold THEN "Open" ELSE "Closed"
  /\ UNCHANGED <<successCount, probes>>

FailOpen ==
  /\ state = "Open"
  /\ UNCHANGED <<state, successCount, probes>>

FailHalfOpen ==
  /\ state = "HalfOpen"
  /\ state' = "Open"
  /\ successCount' = 0
  /\ probes' = {}

Fail(c) ==
  /\ call[c] = "running"
  /\ CountFailure
  /\ timeoutPassed' = FALSE
  /\ FailClosed \/ FailOpen \/ FailHalfOpen
  /\ call' = [call EXCEPT ![c] = "error"]
  /\ UNCHANGED <<concurrentCalls, late, good>>

(* config.Timeout elapses with no further failure. *)
TimeoutPasses ==
  /\ ~timeoutPassed
  /\ timeoutPassed' = TRUE
  /\ UNCHANGED <<state, failureCount, successCount, concurrentCalls, call,
                 probes, late, good>>
-----------------------------------------------------------------------------
BreakerNext ==
  \/ \E c \in Callers : Admit(c) \/ Reject(c) \/ Succeed(c) \/ Fail(c)
  \/ TimeoutPasses

BreakerSpec == BreakerInit /\ [][BreakerNext]_breakerVars
-----------------------------------------------------------------------------
(* What the counter means: in half-open, concurrentCalls is the number of  *)
(* running calls this episode admitted, less the calls of earlier episodes *)
(* that came back during it (Call decrements for those too).               *)
ProbeAccounting ==
  state = "HalfOpen" => concurrentCalls = Cardinality(probes) - late

(* The concurrency the breaker does enforce: the probes in flight exceed   *)
(* the limit by no more than one slot per late return, and the first probe *)
(* is let through even when the limit is 0.                                *)
ProbeLimit == IF MaxConcurrentCalls = 0 THEN 1 ELSE MaxConcurrentCalls

ProbeBound ==
  state = "HalfOpen" => Cardinality(probes) <= ProbeLimit + late

(* The breaker's invariant: the counter, read as the code means it, holds  *)
(* the probes to their limit.                                              *)
BreakerInv == BreakerTypeOK /\ ProbeAccounting /\ ProbeBound

(* No slot leaks across episodes: a half-open breaker with none of its     *)
(* probes in flight admits the next call, so half-open cannot wedge.       *)
SlotsReturn ==
  state = "HalfOpen" /\ probes = {} => CanCall

(* A breaker closes again only on SuccessThreshold successes reported in   *)
(* the same half-open episode, and leaves Open only through half-open.     *)
ReopenOrder ==
  [][/\ state = "Open" => state' \in {"Open", "HalfOpen"}
     /\ state = "HalfOpen" /\ state' = "Closed" =>
          good' >= SuccessThreshold]_breakerVars
=============================================================================
