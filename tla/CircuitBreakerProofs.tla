------------------------ MODULE CircuitBreakerProofs ------------------------
(***************************************************************************)
(* Proofs about CircuitBreaker for every set of callers, every threshold   *)
(* and every limit, and about the retry loops over it.  The inductive      *)
(* invariant of the breaker is the accounting of concurrentCalls: it ties  *)
(* the counter to the calls it stands for, which neither the type          *)
(* invariant nor ProbeBound does on its own.  That of the loops ties the   *)
(* attempts of a caller to the times it entered the provider.              *)
(***************************************************************************)
EXTENDS RetryingCall, FiniteSetTheorems, TLAPS

(* The counter, the running probes and the late returns, related; the      *)
(* probes are calls in progress, and exist in half-open only; and the      *)
(* counter is within the limit, as successCount is within its episode.     *)
IInv ==
  /\ BreakerTypeOK
  /\ probes \subseteq Running
  /\ state # "HalfOpen" => probes = {}
  /\ ProbeAccounting
  /\ state = "HalfOpen" => concurrentCalls <= ProbeLimit /\ good = successCount

(* What a set of callers can be: finite, so that its cardinality counts.   *)
LEMMA CallersFinite ==
  ASSUME NEW S \in SUBSET Callers
  PROVE  /\ IsFiniteSet(S)
         /\ Cardinality(S) \in Nat
BY FS_Subset, FS_CardinalityType, ConfigAssumption

(* Admitting a caller that is not a probe adds one to the probes.          *)
LEMMA AddProbe ==
  ASSUME NEW S \in SUBSET Callers, NEW c \in Callers, c \notin S
  PROVE  Cardinality(S \cup {c}) = Cardinality(S) + 1
BY CallersFinite, FS_AddElement

(* A return takes its caller out of the probes, if it was one.             *)
LEMMA RemoveProbe ==
  ASSUME NEW S \in SUBSET Callers, NEW c \in Callers
  PROVE  Cardinality(S \ {c}) =
           IF c \in S THEN Cardinality(S) - 1 ELSE Cardinality(S)
BY CallersFinite, FS_RemoveElement

LEMMA OneProbe ==
  ASSUME NEW c \in Callers
  PROVE  Cardinality({c}) = 1
BY FS_Singleton

(* The initial state satisfies the inductive invariant.                    *)
LEMMA InitIInv == BreakerInit => IInv
<1> SUFFICES ASSUME BreakerInit PROVE IInv
  OBVIOUS
<1>1. BreakerTypeOK
  BY ConfigAssumption DEF BreakerInit, BreakerTypeOK, States, Outcomes
<1> QED
  BY <1>1 DEF BreakerInit, IInv, ProbeAccounting, Running

(* Every action of the breaker preserves the inductive invariant.          *)
LEMMA NextIInv == IInv /\ [BreakerNext]_breakerVars => IInv'
<1> SUFFICES ASSUME IInv, [BreakerNext]_breakerVars PROVE IInv'
  OBVIOUS
<1> USE ConfigAssumption
<1>1. ASSUME NEW c \in Callers, Admit(c) PROVE IInv'
  <2> USE <1>1
  <2>0. c \notin probes
    BY DEF Admit, IInv, Running
  <2>1. CASE AdmitClosed(c)
    BY <2>1 DEF AdmitClosed, Admit, IInv, BreakerTypeOK, ProbeAccounting,
                Running, States, Outcomes
  <2>2. CASE AdmitFirstProbe(c)
    BY <2>2, OneProbe DEF AdmitFirstProbe, Admit, IInv, BreakerTypeOK,
       ProbeAccounting, ProbeLimit, Running, States, Outcomes
  <2>3. CASE AdmitProbe(c)
    <3>1. Cardinality(probes') = Cardinality(probes) + 1
      BY <2>0, <2>3, AddProbe DEF AdmitProbe, IInv, BreakerTypeOK
    <3>2. Cardinality(probes) \in Nat
      BY CallersFinite DEF IInv, BreakerTypeOK
    <3> QED
      BY <2>3, <3>1, <3>2 DEF AdmitProbe, HalfOpenSlot, Admit, IInv,
         BreakerTypeOK, ProbeAccounting, ProbeLimit, Running, Outcomes
  <2> QED
    BY <2>1, <2>2, <2>3 DEF Admit
<1>2. ASSUME NEW c \in Callers, Reject(c) PROVE IInv'
  BY <1>2 DEF Reject, IInv, BreakerTypeOK, ProbeAccounting, ProbeLimit,
              Running, Outcomes
<1>3. ASSUME NEW c \in Callers, Succeed(c) PROVE IInv'
  <2> USE <1>3
  <2>1. CASE SucceedClosed
    BY <2>1 DEF SucceedClosed, Succeed, IInv, BreakerTypeOK, ProbeAccounting,
                ProbeLimit, Running, States, Outcomes
  <2>2. CASE SucceedOpen
    BY <2>2 DEF SucceedOpen, Succeed, IInv, BreakerTypeOK, ProbeAccounting,
                ProbeLimit, Running, States, Outcomes
  <2>3. CASE SucceedHalfOpen(c)
    <3>1. CASE EnoughSuccesses
      BY <2>3, <3>1 DEF SucceedHalfOpen, Succeed, IInv, BreakerTypeOK,
         ProbeAccounting, ProbeLimit, Running, States, Outcomes
    <3>2. CASE ~EnoughSuccesses
      <4>1. Cardinality(probes') = IF c \in probes THEN Cardinality(probes) - 1
                                                   ELSE Cardinality(probes)
        BY <2>3, <3>2, RemoveProbe
        DEF SucceedHalfOpen, LeaveHalfOpen, IInv, BreakerTypeOK
      <4>2. Cardinality(probes) \in Nat
        BY CallersFinite DEF IInv, BreakerTypeOK
      <4>3. late' = IF c \in probes THEN late ELSE late + 1
        BY <2>3, <3>2 DEF SucceedHalfOpen, LeaveHalfOpen
      <4>4. ProbeAccounting'
        BY <2>3, <3>2, <4>1, <4>2, <4>3
        DEF SucceedHalfOpen, LeaveHalfOpen, IInv, BreakerTypeOK,
            ProbeAccounting
      <4>5. successCount' \in 0..SuccessThreshold
        BY <2>3, <3>2 DEF SucceedHalfOpen, EnoughSuccesses, IInv, BreakerTypeOK
      <4> QED
        BY <2>3, <3>2, <4>3, <4>4, <4>5
        DEF SucceedHalfOpen, LeaveHalfOpen, Succeed, IInv, BreakerTypeOK,
            ProbeLimit, Running, Outcomes
    <3> QED
      BY <3>1, <3>2
  <2> QED
    BY <2>1, <2>2, <2>3 DEF Succeed
<1>4. ASSUME NEW c \in Callers, Fail(c) PROVE IInv'
  <2> USE <1>4
  <2>1. BreakerTypeOK'
    <3>1. failureCount' \in 0..FailureCap
      BY DEF Fail, CountFailure, IInv, BreakerTypeOK
    <3>2. call' \in [Callers -> Outcomes]
      BY DEF Fail, IInv, BreakerTypeOK, Outcomes
    <3>3. /\ state' \in States
          /\ probes' \in SUBSET Callers
      BY DEF Fail, FailClosed, FailOpen, FailHalfOpen, IInv, BreakerTypeOK,
             States
    <3>4. successCount' \in 0..SuccessThreshold
      BY DEF Fail, FailClosed, FailOpen, FailHalfOpen, IInv, BreakerTypeOK
    <3> QED
      BY <3>1, <3>2, <3>3, <3>4 DEF Fail, IInv, BreakerTypeOK
  <2>2. state' # "HalfOpen"
    BY DEF Fail, FailClosed, FailOpen, FailHalfOpen
  <2>3. probes' = {}
    BY DEF Fail, FailClosed, FailOpen, FailHalfOpen, IInv
  <2> QED
    BY <2>1, <2>2, <2>3 DEF IInv, ProbeAccounting
<1>5. CASE TimeoutPasses
  BY <1>5 DEF TimeoutPasses, IInv, BreakerTypeOK, ProbeAccounting,
              ProbeLimit, Running
<1>6. CASE UNCHANGED breakerVars
  BY <1>6 DEF breakerVars, IInv, BreakerTypeOK, ProbeAccounting, ProbeLimit,
              Running
<1> QED
  BY <1>1, <1>2, <1>3, <1>4, <1>5, <1>6 DEF BreakerNext

(* The invariant holds in every reachable state.                           *)
LEMMA Invariant == BreakerSpec => []IInv
<1> QED
  BY InitIInv, NextIInv, PTL DEF BreakerSpec

(* Type correctness of the breaker.                                        *)
THEOREM TypeCorrect == BreakerSpec => []BreakerTypeOK
<1>1. IInv => BreakerTypeOK
  BY DEF IInv
<1> QED
  BY <1>1, Invariant, PTL

(* Call and canCall: concurrentCalls is the probes in flight less the late *)
(* returns, for any number of callers and any interleaving of their calls. *)
THEOREM AccountingCorrect == BreakerSpec => []ProbeAccounting
<1>1. IInv => ProbeAccounting
  BY DEF IInv
<1> QED
  BY <1>1, Invariant, PTL

(* The limit of canCall bounds the probes in flight up to one more for     *)
(* each late return of the episode.                                        *)
THEOREM ProbesBounded == BreakerSpec => []ProbeBound
<1>1. IInv => ProbeBound
  <2> SUFFICES ASSUME IInv, state = "HalfOpen"
               PROVE  Cardinality(probes) <= ProbeLimit + late
    BY DEF ProbeBound
  <2>1. Cardinality(probes) \in Nat
    BY CallersFinite DEF IInv, BreakerTypeOK
  <2>2. concurrentCalls = Cardinality(probes) - late
    BY DEF IInv, ProbeAccounting
  <2>3. concurrentCalls <= ProbeLimit
    BY DEF IInv
  <2>4. ProbeLimit \in Nat /\ late \in Nat /\ concurrentCalls \in Int
    BY ConfigAssumption DEF ProbeLimit, IInv, BreakerTypeOK
  <2> QED
    BY <2>1, <2>2, <2>3, <2>4
<1> QED
  BY <1>1, Invariant, PTL

(* What Call may rely on between any two of its halves: the types, what    *)
(* concurrentCalls counts, and the bound that gives on the probes.         *)
THEOREM InvCorrect == BreakerSpec => []BreakerInv
<1>1. BreakerTypeOK /\ ProbeAccounting /\ ProbeBound => BreakerInv
  BY DEF BreakerInv
<1> QED
  BY <1>1, TypeCorrect, AccountingCorrect, ProbesBounded, PTL

(* With a limit of at least one, half-open never runs out of slots: once   *)
(* no probe is in flight canCall admits, whatever returned late before.    *)
THEOREM NoSlotLeak ==
  ASSUME MaxConcurrentCalls > 0
  PROVE  BreakerSpec => []SlotsReturn
<1>1. IInv => SlotsReturn
  <2> SUFFICES ASSUME IInv, state = "HalfOpen", probes = {}
               PROVE  HalfOpenSlot
    BY DEF SlotsReturn, CanCall
  <2>1. concurrentCalls = 0 - late
    BY FS_EmptySet DEF IInv, ProbeAccounting
  <2> QED
    BY <2>1, ConfigAssumption DEF HalfOpenSlot, IInv, BreakerTypeOK
<1> QED
  BY <1>1, Invariant, PTL

(* The breaker leaves Open only for half-open, and half-open for Closed    *)
(* only on SuccessThreshold successes of that episode.                     *)
THEOREM ReopensInOrder == BreakerSpec => ReopenOrder
<1> DEFINE Order == /\ state = "Open" => state' \in {"Open", "HalfOpen"}
                    /\ state = "HalfOpen" /\ state' = "Closed" =>
                         good' >= SuccessThreshold
<1>1. IInv /\ [BreakerNext]_breakerVars => [Order]_breakerVars
  <2> SUFFICES ASSUME IInv, BreakerNext PROVE Order
    OBVIOUS
  <2> USE ConfigAssumption
  <2>1. ASSUME NEW c \in Callers, Admit(c) PROVE Order
    BY <2>1 DEF Admit, AdmitClosed, AdmitFirstProbe, AdmitProbe
  <2>2. ASSUME NEW c \in Callers, Reject(c) PROVE Order
    BY <2>2 DEF Reject
  <2>3. ASSUME NEW c \in Callers, Succeed(c) PROVE Order
    <3>1. CASE SucceedClosed
      BY <3>1 DEF SucceedClosed
    <3>2. CASE SucceedOpen
      BY <3>2 DEF SucceedOpen
    <3>3. CASE SucceedHalfOpen(c)
      BY <3>3 DEF SucceedHalfOpen, EnoughSuccesses, LeaveHalfOpen, IInv,
                  BreakerTypeOK
    <3> QED
      BY <2>3, <3>1, <3>2, <3>3 DEF Succeed
  <2>4. ASSUME NEW c \in Callers, Fail(c) PROVE Order
    BY <2>4 DEF Fail, FailClosed, FailOpen, FailHalfOpen
  <2>5. CASE TimeoutPasses
    BY <2>5 DEF TimeoutPasses
  <2> QED
    BY <2>1, <2>2, <2>3, <2>4, <2>5 DEF BreakerNext
<1> QED
  BY <1>1, Invariant, PTL DEF BreakerSpec, ReopenOrder

-----------------------------------------------------------------------------
(* The retry loops                                                         *)

(* A step of a loop is a step of the breaker, or leaves it alone; so what  *)
(* is proved of the breaker holds of the breaker the loops share.          *)
THEOREM LoopsUseBreaker == Spec => BreakerSpec
<1>1. Init => BreakerInit
  BY DEF Init
<1>2. [Next]_vars => [BreakerNext]_breakerVars
  <2> SUFFICES ASSUME [Next]_vars
               PROVE  BreakerNext \/ UNCHANGED breakerVars
    OBVIOUS
  <2>1. ASSUME NEW c \in Callers, Try(c) \/ Return(c)
        PROVE  BreakerNext
    BY <2>1 DEF Try, TryAdmitted, TryRejected, Return, ProviderAnswers,
       ProviderFails, BreakerNext
  <2>2. ASSUME NEW c \in Callers, Begin(c) \/ Wake(c) \/ Cancel(c)
        PROVE  UNCHANGED breakerVars
    BY <2>2 DEF Begin, Wake, BackoffElapses, BackoffCancelled, Cancel
  <2>3. CASE Timeout
    BY <2>3 DEF Timeout, BreakerNext
  <2>4. CASE Recover \/ UNCHANGED vars
    BY <2>4 DEF Recover, vars
  <2> QED
    BY <2>1, <2>2, <2>3, <2>4 DEF Next
<1> QED
  BY <1>1, <1>2, PTL DEF Spec, BreakerSpec

(* The types of the loops' variables, where each caller is and how far it  *)
(* has come: one attempt enters the provider once at most, the loop waits  *)
(* for another attempt only while the budget has one, and a wrapped        *)
(* provider's only after an attempt that entered.                          *)
LoopTyped ==
  /\ phase \in [Callers -> Phases]
  /\ attempt \in [Callers -> 0..(MaxRetries + 1)]
  /\ entered \in [Callers -> 0..(MaxRetries + 2)]
  /\ ctxDone \in [Callers -> BOOLEAN]
  /\ healthy \in BOOLEAN

LoopOf(c) ==
  /\ call[c] \in Outcomes
  /\ call[c] = "running" <=> phase[c] = "calling"
  /\ entered[c] <= attempt[c]
  /\ phase[c] \in {"trying", "calling", "backoff"} => attempt[c] >= 1
  /\ phase[c] = "trying" => entered[c] < attempt[c]
  /\ phase[c] = "backoff" => attempt[c] <= MaxRetries
  /\ phase[c] = "done" /\ call[c] = "rejected" => entered[c] <= MaxRetries
  /\ c \notin Retriers =>
       /\ attempt[c] <= entered[c] + 1
       /\ phase[c] \in {"calling", "backoff"} => attempt[c] = entered[c]

LoopInv == LoopTyped /\ \A c \in Callers : LoopOf(c)

LEMMA InitLoopInv == Init => LoopInv
<1> SUFFICES ASSUME Init PROVE LoopInv
  OBVIOUS
<1>1. /\ phase = [c \in Callers |-> "idle"]
      /\ attempt = [c \in Callers |-> 0]
      /\ entered = [c \in Callers |-> 0]
      /\ ctxDone = [c \in Callers |-> FALSE] /\ healthy = FALSE
      /\ call = [c \in Callers |-> "idle"]
  BY DEF Init, BreakerInit
<1>2. LoopTyped
  <2>1. 0 \in 0..(MaxRetries + 1) /\ 0 \in 0..(MaxRetries + 2)
    BY RetryAssumption
  <2>2. /\ attempt \in [Callers -> 0..(MaxRetries + 1)]
        /\ entered \in [Callers -> 0..(MaxRetries + 2)]
    BY <1>1, <2>1, Zenon
  <2>3. phase \in [Callers -> Phases] /\ ctxDone \in [Callers -> BOOLEAN]
    BY <1>1 DEF Phases
  <2> QED
    BY <1>1, <2>2, <2>3 DEF LoopTyped
<1>3. \A c \in Callers : LoopOf(c)
  BY <1>1, RetryAssumption DEF LoopOf, Outcomes
<1> QED
  BY <1>2, <1>3 DEF LoopInv

(* What a step of one caller's loop leaves alone of the others.            *)
LEMMA OthersKeep ==
  ASSUME LoopInv, NEW c \in Callers, LoopTyped', LoopOf(c)',
         \A x \in Callers \ {c} :
            /\ phase'[x] = phase[x] /\ attempt'[x] = attempt[x]
            /\ entered'[x] = entered[x] /\ call'[x] = call[x]
  PROVE  LoopInv'
<1>1. \A x \in Callers \ {c} : LoopOf(x)'
  BY DEF LoopInv, LoopOf
<1> QED
  BY <1>1 DEF LoopInv

LEMMA NextLoopInv == LoopInv /\ BreakerTypeOK /\ [Next]_vars => LoopInv'
<1> SUFFICES ASSUME LoopInv, BreakerTypeOK, [Next]_vars PROVE LoopInv'
  OBVIOUS
<1> USE RetryAssumption
<1>0. \A c \in Callers :
        /\ phase[c] \in Phases /\ attempt[c] \in 0..(MaxRetries + 1)
        /\ entered[c] \in 0..(MaxRetries + 2) /\ LoopOf(c)
        /\ call[c] \in Outcomes
  BY DEF LoopInv, LoopTyped, BreakerTypeOK
<1>1. ASSUME NEW c \in Callers, Begin(c) PROVE LoopInv'
  <2>1. LoopTyped'
    BY <1>1 DEF Begin, To, LoopInv, LoopTyped, Phases
  <2>2. LoopOf(c)'
    BY <1>0, <1>1 DEF Begin, To, LoopInv, LoopTyped, LoopOf, breakerVars
  <2> QED
    BY <1>1, <2>1, <2>2, OthersKeep
       DEF Begin, To, LoopInv, LoopTyped, breakerVars
<1>2. ASSUME NEW c \in Callers, TryAdmitted(c) PROVE LoopInv'
  <2>1. /\ phase[c] = "trying" /\ entered[c] + 1 <= attempt[c]
        /\ entered[c] + 1 <= MaxRetries + 1
    BY <1>0, <1>2 DEF TryAdmitted, LoopOf
  <2>2. /\ phase' = [phase EXCEPT ![c] = "calling"]
        /\ call' = [call EXCEPT ![c] = "running"]
        /\ entered' = [entered EXCEPT ![c] = entered[c] + 1]
        /\ UNCHANGED <<attempt, ctxDone, healthy>>
    <3>1. entered[c] < MaxRetries + 2
      BY <1>0, <2>1
    <3> QED
      BY <1>2, <3>1 DEF TryAdmitted, To, Admit
  <2>3. LoopTyped'
    BY <1>0, <2>1, <2>2 DEF LoopInv, LoopTyped, Phases
  <2>4. LoopOf(c)'
    BY <1>0, <2>1, <2>2
       DEF LoopInv, LoopTyped, LoopOf, Outcomes, BreakerTypeOK
  <2> QED
    BY <2>2, <2>3, <2>4, OthersKeep DEF LoopInv, LoopTyped, BreakerTypeOK
<1>3. ASSUME NEW c \in Callers,
             TryRejected(c) \/ ProviderAnswers(c) \/ ProviderFails(c)
      PROVE  LoopInv'
  <2>1. PICK p \in {"backoff", "done"}, o \in {"rejected", "ok", "error"} :
          /\ phase' = [phase EXCEPT ![c] = p]
          /\ call' = [call EXCEPT ![c] = o]
          /\ p = "backoff" => attempt[c] <= MaxRetries
          /\ o = "rejected" <=> phase[c] = "trying"
          /\ o = "rejected" /\ c \notin Retriers => p = "done"
          /\ UNCHANGED <<attempt, entered, ctxDone, healthy>>
          /\ phase[c] \in {"trying", "calling"}
    <3>1. CASE TryRejected(c)
      BY <3>1 DEF TryRejected, Reject, AfterError, To
    <3>2. CASE ProviderAnswers(c)
      BY <3>2 DEF ProviderAnswers, Succeed, To
    <3>3. CASE ProviderFails(c)
      BY <3>3 DEF ProviderFails, Fail, AfterError, To
    <3> QED
      BY <1>3, <3>1, <3>2, <3>3
  <2>2. LoopTyped'
    BY <1>0, <2>1 DEF LoopInv, LoopTyped, Phases
  <2>3. LoopOf(c)'
    BY <1>0, <2>1 DEF LoopInv, LoopTyped, LoopOf, Outcomes, BreakerTypeOK
  <2> QED
    BY <2>1, <2>2, <2>3, OthersKeep DEF LoopInv, LoopTyped, BreakerTypeOK
<1>4. ASSUME NEW c \in Callers, Wake(c) \/ Cancel(c) PROVE LoopInv'
  <2>1. CASE BackoffElapses(c)
    <3>1. LoopTyped'
      BY <1>0, <2>1 DEF BackoffElapses, To, LoopInv, LoopTyped, LoopOf,
         Phases
    <3>2. LoopOf(c)'
      BY <1>0, <2>1 DEF BackoffElapses, To, LoopInv, LoopTyped, LoopOf,
         breakerVars
    <3> QED
      BY <2>1, <3>1, <3>2, OthersKeep
         DEF BackoffElapses, To, LoopInv, LoopTyped, breakerVars
  <2>2. CASE BackoffCancelled(c)
    <3>1. LoopTyped'
      BY <2>2 DEF BackoffCancelled, To, LoopInv, LoopTyped, Phases
    <3>2. LoopOf(c)'
      BY <1>0, <2>2 DEF BackoffCancelled, To, LoopInv, LoopTyped, LoopOf,
         breakerVars
    <3> QED
      BY <2>2, <3>1, <3>2, OthersKeep
         DEF BackoffCancelled, To, LoopInv, LoopTyped, breakerVars
  <2>3. CASE Cancel(c)
    BY <2>3 DEF Cancel, LoopInv, LoopTyped, LoopOf, breakerVars
  <2> QED
    BY <1>4, <2>1, <2>2, <2>3 DEF Wake
<1>5. CASE Timeout \/ Recover \/ UNCHANGED vars
  BY <1>5 DEF Timeout, TimeoutPasses, Recover, vars, retryVars, breakerVars,
     LoopInv, LoopTyped, LoopOf
<1> QED
  BY <1>1, <1>2, <1>3, <1>4, <1>5 DEF Next, Try, Return

(* Every variable of breaker and loops keeps its type, and no call runs    *)
(* the provider more than MaxRetries + 1 times, nor so often when its last *)
(* attempt was turned away, and no wrapped provider's call goes on after a *)
(* rejection, whatever the other callers do to the breaker.                *)
THEOREM RetriesBounded == Spec => []RetryInv
<1>1. LoopInv /\ BreakerTypeOK => RetryInv
  <2> SUFFICES ASSUME LoopInv, BreakerTypeOK PROVE RetryInv
    OBVIOUS
  <2>1. RetryBudget
    <3> SUFFICES ASSUME NEW c \in Callers
                 PROVE  /\ entered[c] <= MaxRetries + 1
                        /\ phase[c] = "done" /\ call[c] = "rejected" =>
                             entered[c] <= MaxRetries
      BY DEF RetryBudget
    <3> QED
      BY RetryAssumption DEF LoopInv, LoopTyped, LoopOf
  <2>2. RejectionsFinal
    BY DEF RejectionsFinal, LoopInv, LoopOf
  <2> QED
    BY <2>1, <2>2 DEF RetryInv, TypeOK, LoopInv, LoopTyped
<1>2. Spec => []BreakerTypeOK
  BY LoopsUseBreaker, TypeCorrect, PTL
<1> QED
  BY <1>1, <1>2, InitLoopInv, NextLoopInv, PTL DEF Spec

(* What the breaker promises, it promises its retrying callers.            *)
THEOREM SharedBreaker == Spec => []BreakerInv /\ ReopenOrder
BY LoopsUseBreaker, InvCorrect, ReopensInOrder, PTL
=============================================================================
