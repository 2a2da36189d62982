--------------------------- MODULE WorkflowProofs ---------------------------
(***************************************************************************)
(* Proofs about Workflow for any steps, dependencies, number of runs and   *)
(* limit of the loop.  What a pass has taken is in the log, so most of the *)
(* invariant relates the log to where the pass is.  The verdicts on a DAG  *)
(* come of what a stage without progress means: it began with every step   *)
(* left over, and none of them was eligible.                               *)
(***************************************************************************)
EXTENDS Workflow, SequenceTheorems, FiniteSetTheorems,
        WellFoundedInduction, TLAPS

-----------------------------------------------------------------------------
(* Numbers and sequences                                                   *)

LEMMA Least ==
  ASSUME NEW n \in Nat, NEW S \in SUBSET (1..n), S # {}
  PROVE  \E i \in S : \A j \in S : i <= j
<1> DEFINE R == StrictSubsetOrdering(1..n)
           T == {1..i : i \in S}
<1> HIDE DEF R
<1>1. IsWellFoundedOn(R, SUBSET (1..n))
  <2>1. IsFiniteSet(1..n)
    BY FS_Interval
  <2> QED
    BY <2>1, FS_StrictSubsetOrderingWellFounded, FS_FiniteSubsetsOfFinite
       DEF R
<1>2. T \subseteq SUBSET (1..n) /\ T # {}
  <2>1. ASSUME NEW i \in S PROVE 1..i \subseteq 1..n
    OBVIOUS
  <2> QED
    BY <2>1
<1>3. PICK x \in T : \A y \in T : ~(<<y, x>> \in R)
  BY <1>1, <1>2, WFMin
<1>4. PICK i \in S : x = 1..i
  BY <1>3
<1>5. ASSUME NEW j \in S, j < i PROVE FALSE
  <2>1. 1..j \subseteq 1..i /\ 1..j # 1..i
    BY <1>5
  <2>2. <<1..j, 1..i>> \in R
    BY <1>2, <2>1 DEF R, StrictSubsetOrdering
  <2> QED
    BY <1>3, <1>4, <2>2
<1> QED
  BY <1>5

LEMMA Greatest ==
  ASSUME NEW n \in Nat, NEW S \in SUBSET (1..n), S # {}
  PROVE  \E i \in S : \A j \in S : j <= i
<1> DEFINE T == {(n + 1) - i : i \in S}
<1>1. T \in SUBSET (1..n) /\ T # {}
  <2>1. ASSUME NEW i \in S PROVE (n + 1) - i \in 1..n
    OBVIOUS
  <2> QED
    BY <2>1
<1>2. PICK k \in T : \A j \in T : k <= j
  BY <1>1, Least
<1>3. PICK i \in S : k = (n + 1) - i
  BY <1>2
<1>4. ASSUME NEW j \in S PROVE j <= i
  <2>1. k <= (n + 1) - j
    BY <1>2
  <2> QED
    BY <1>3, <2>1
<1> QED
  BY <1>4

LEMMA Appended ==
  ASSUME NEW S, NEW s \in Seq(S), NEW e \in S
  PROVE  /\ Append(s, e) \in Seq(S) /\ Len(s) \in Nat
         /\ DOMAIN s = 1..Len(s) /\ DOMAIN Append(s, e) = 1..Len(s) + 1
         /\ Len(Append(s, e)) = Len(s) + 1
         /\ Append(s, e)[Len(s) + 1] = e
         /\ \A i \in 1..Len(s) : Append(s, e)[i] = s[i] /\ i # Len(s) + 1
         /\ Range(Append(s, e)) = Range(s) \cup {e}
<1>1. /\ Append(s, e) \in Seq(S) /\ Len(s) \in Nat
      /\ DOMAIN s = 1..Len(s) /\ DOMAIN Append(s, e) = 1..Len(s) + 1
      /\ Len(Append(s, e)) = Len(s) + 1
      /\ Append(s, e)[Len(s) + 1] = e
      /\ \A i \in 1..Len(s) : Append(s, e)[i] = s[i]
  BY AppendProperties, LenProperties
<1>2. DOMAIN Append(s, e) = DOMAIN s \cup {Len(s) + 1}
  BY <1>1
<1>3. Range(Append(s, e)) = Range(s) \cup {e}
  BY <1>1, <1>2 DEF Range
<1> QED
  BY <1>1, <1>3

LEMMA Ranges ==
  ASSUME NEW S, NEW s \in Seq(S)
  PROVE  /\ DOMAIN s = 1..Len(s) /\ Len(s) \in Nat
         /\ Range(s) = {s[i] : i \in 1..Len(s)} /\ Range(s) \subseteq S
         /\ \A i \in 1..Len(s) : s[i] \in S /\ s[i] \in Range(s)
<1>1. /\ DOMAIN s = 1..Len(s) /\ Len(s) \in Nat
      /\ \A i \in 1..Len(s) : s[i] \in S
  BY LenProperties, ElementOfSeq
<1> QED
  BY <1>1 DEF Range

(* A sequence without repetitions is as long as what it holds is large.    *)
LEMMA DistinctLen ==
  ASSUME NEW S, NEW s \in Seq(S), IsInjective(s)
  PROVE  Cardinality(Range(s)) = Len(s)
<1>1. s \in [1..Len(s) -> Range(s)] /\ Len(s) \in Nat
  BY LenProperties, Ranges
<1>2. s \in Bijection(1..Len(s), Range(s))
  BY <1>1, Ranges DEF Bijection, Injection, Surjection, IsInjective
<1>3. ExistsBijection(1..Len(s), Range(s))
  BY <1>2 DEF ExistsBijection
<1> QED
  BY <1>1, <1>3, FS_CountingElements
-----------------------------------------------------------------------------
(* The inductive invariant                                                 *)

Entry == [step : Steps, it : 0..MaxIterations, input : SUBSET Piece,
          outcome : Outcomes]

Typed ==
  /\ mode \in Modes /\ api \in {"Run", "RunStream"}
  /\ stage \in {"idle", "condition", "steps", "returned"}
  /\ steps \in Seq(Steps) /\ IsInjective(steps)
  /\ deps \in [Steps -> DepChoices \cup {{}}]
  /\ stepResults \in [Steps -> SUBSET Piece]
  /\ loopContinue \in BOOLEAN /\ ctxDone \in BOOLEAN /\ executed \in BOOLEAN
  /\ info.total \in 0..MaxIterations /\ info.reason \in Reasons
  /\ run \in 0..MaxRuns /\ iteration \in 0..MaxIterations
  /\ verdict \in Verdicts /\ (verdict = "none" <=> stage # "returned")
  /\ plan \in Seq(Steps) /\ IsInjective(plan)
  /\ Range(plan) \subseteq Range(steps)
  /\ pos \in 1..(Len(plan) + 1)
  /\ loopInput \subseteq Piece /\ current \subseteq Piece
  /\ log \in Seq(Entry)
  /\ \A i \in 1..Len(log) : log[i].step \in Range(plan)

(* Where in the loop a pass is.                                            *)
Phases ==
  /\ mode # "loop" => iteration = 0 /\ stage # "condition"
  /\ mode = "loop" /\ stage = "steps" => iteration < MaxIterations
  /\ \A i \in 1..Len(log) : log[i].it <= iteration
  /\ stage = "condition" => \A i \in 1..Len(log) : log[i].it < iteration

(* A step is taken once in a pass.  One that runs is the last one taken,   *)
(* or one of a parallel pass.                                              *)
Taking ==
  /\ \A i, j \in 1..Len(log) :
       log[i].step = log[j].step /\ log[i].it = log[j].it => i = j
  /\ \A i \in 1..Len(log) : log[i].outcome = "running" =>
       /\ stage = "steps" /\ log[i].it = iteration
       /\ Parallel \/ i = Len(log)

(* A stage of a DAG that has taken nothing yet is at its first step, and   *)
(* began with something to take.                                           *)
Staged ==
  Dag /\ stage = "steps" /\ ~executed =>
    pos = 1 /\ (plan # <<>> => ~AllTaken)

(* What a later step finds under the name of one the run has taken.        *)
Stored ==
  /\ \A s \in Steps : \A p \in stepResults[s] : p.by = s
  /\ Dag /\ stage = "steps" => \A i \in 1..Len(log) :
       /\ log[i].outcome = "ok" =>
            stepResults[log[i].step] = Answer(log[i].step)
       /\ log[i].outcome = "failed" => stepResults[log[i].step] = {}

(* The text that the first n steps taken leave to the next one.            *)
Oks(l, n) == {j \in 1..n : l[j].outcome = "ok"}
LastOk(l, n) == CHOOSE j \in Oks(l, n) : \A k \in Oks(l, n) : k <= j
Left(l, n, r) ==
  IF Oks(l, n) = {} THEN Given(r)
  ELSE {[by |-> l[LastOk(l, n)].step, run |-> r, it |-> l[LastOk(l, n)].it]}

Chain ==
  ~Parallel /\ ~Dag =>
    /\ \A i \in 1..Len(log) : log[i].input = Left(log, i - 1, run)
    /\ stage = "steps" => current = Left(log, Len(log), run)
    /\ stage = "condition" => loopInput = Left(log, Len(log), run)

(* Once an iteration has taken a step, so has every later one that ended.  *)
Iterated(l, n) ==
  \A i \in 1..Len(l) : \A it \in l[i].it..n :
    \E j \in 1..Len(l) : l[j].it = it

Looped ==
  mode = "loop" /\ stage \in {"condition", "steps"} =>
    /\ Iterated(log, iteration - 1)
    /\ stage = "steps" => \/ pos = 1
                          \/ \E j \in 1..Len(log) : log[j].it = iteration

IInv ==
  /\ Typed /\ Phases /\ Taking /\ Staged /\ Stored /\ Chain /\ Looped
  /\ DependenciesFirst /\ DagVerdict /\ LoopReport
  /\ DagInputs /\ ParallelVerdict

-----------------------------------------------------------------------------
(* What the parts of the invariant say, by the way they are used           *)

LEMMA Plans ==
  ASSUME Typed
  PROVE  /\ DOMAIN plan = 1..Len(plan) /\ Len(plan) \in Nat
         /\ Range(plan) = {plan[i] : i \in 1..Len(plan)}
         /\ \A i \in 1..Len(plan) : /\ plan[i] \in Steps
                                     /\ plan[i] \in Range(plan)
         /\ Range(plan) \subseteq Steps /\ Range(steps) \subseteq Steps
<1>1. plan \in Seq(Steps) /\ steps \in Seq(Steps)
  BY DEF Typed
<1> QED
  BY <1>1, Ranges

LEMMA Entries ==
  ASSUME Typed
  PROVE  /\ DOMAIN log = 1..Len(log) /\ Len(log) \in Nat
         /\ \A i \in 1..Len(log) :
              /\ log[i] \in Entry
              /\ log[i].step \in Steps /\ log[i].step \in Range(plan)
              /\ log[i].it \in 0..MaxIterations /\ log[i].it \in Nat
              /\ log[i].input \subseteq Piece
              /\ log[i].outcome \in Outcomes
<1>1. log \in Seq(Entry)
  BY DEF Typed
<1>2. /\ DOMAIN log = 1..Len(log) /\ Len(log) \in Nat
      /\ \A i \in 1..Len(log) : log[i] \in Entry
  BY <1>1, LenProperties, ElementOfSeq
<1>3. \A i \in 1..Len(log) : log[i].step \in Range(plan)
  BY DEF Typed
<1> QED
  BY <1>2, <1>3, WorkflowAssumption DEF Entry

LEMMA TakenOnes ==
  ASSUME Typed
  PROVE  /\ Taken \subseteq Range(plan)
         /\ \A s : s \in Taken <=> \E i \in 1..Len(log) :
                                    log[i].step = s /\ log[i].it = iteration
<1> QED
  BY Entries DEF Taken

LEMMA Texts ==
  ASSUME Typed, NEW s \in Steps
  PROVE  /\ Given(run) \subseteq Piece /\ Answer(s) \subseteq Piece
         /\ deps[s] \subseteq Steps
         /\ StepInput(s) \subseteq Piece
<1>1. run \in 0..MaxRuns /\ iteration \in 0..MaxIterations
  BY DEF Typed
<1>2. 0 \in 0..MaxIterations
  BY WorkflowAssumption
<1>3. [by |-> "caller", run |-> run, it |-> 0] \in Piece
  BY <1>1, <1>2 DEF Piece
<1>4. [by |-> s, run |-> run, it |-> iteration] \in Piece
  BY <1>1 DEF Piece
<1>5. Given(run) \subseteq Piece /\ Answer(s) \subseteq Piece
  BY <1>3, <1>4 DEF Given, Answer
<1>6. deps[s] \subseteq Steps
  BY WorkflowAssumption DEF Typed
<1>7. UNION {stepResults[d] : d \in deps[s]} \subseteq Piece
  <2>1. \A d \in deps[s] : stepResults[d] \subseteq Piece
    BY <1>6 DEF Typed
  <2> QED
    BY <2>1
<1>8. current \subseteq Piece
  BY DEF Typed
<1>9. StepInput(s) \subseteq Piece
  BY <1>5, <1>7, <1>8 DEF StepInput
<1> QED
  BY <1>5, <1>6, <1>9

(* An ordered pass that finds nothing ready has nothing eligible left.     *)
LEMMA NothingLeft ==
  ASSUME Typed, Ready = {}, ~Busy \/ Parallel,
         NEW i \in (IF Parallel THEN 1 ELSE pos)..Len(plan)
  PROVE  ~Eligible(plan[i])
<1>1. CASE Parallel
  BY <1>1, Plans DEF Ready
<1>2. CASE ~Parallel
  <2> DEFINE left == {j \in pos..Len(plan) : Eligible(plan[j])}
  <2>1. pos \in 1..(Len(plan) + 1) /\ Len(plan) \in Nat
    BY Plans DEF Typed
  <2>2. left \in SUBSET (1..Len(plan))
    BY <2>1
  <2>3. SUFFICES ASSUME Eligible(plan[i]) PROVE FALSE
    OBVIOUS
  <2>4. i \in left
    BY <1>2, <2>3
  <2>5. PICK m \in left : \A j \in left : m <= j
    <3> HIDE DEF left
    <3> QED
      BY <2>1, <2>2, <2>4, Least
  <2>6. Ready = {j \in left : ~Busy /\ \A l \in left : j <= l}
    BY <1>2 DEF Ready
  <2> QED
    BY <1>2, <2>5, <2>6
<1> QED
  BY <1>1, <1>2

(* What is ready is a step of the plan that this pass has not taken, and   *)
(* in an ordered pass nothing runs.                                        *)
LEMMA ReadyOnes ==
  ASSUME Typed, NEW i \in Ready
  PROVE  /\ i \in 1..Len(plan) /\ Eligible(plan[i])
         /\ plan[i] \in Steps /\ plan[i] \in Range(plan)
         /\ ~Parallel => ~Busy
<1>1. pos \in 1..(Len(plan) + 1) /\ Len(plan) \in Nat
  BY Plans DEF Typed
<1>2. /\ i \in 1..Len(plan) /\ Eligible(plan[i])
      /\ ~Parallel => ~Busy
  <2>1. CASE Parallel
    BY <2>1, Plans DEF Ready
  <2>2. CASE ~Parallel
    BY <1>1, <2>2 DEF Ready
  <2> QED
    BY <2>1, <2>2
<1> QED
  BY <1>2, Plans

(* The text left by the steps so far                                       *)

LEMMA LastOne ==
  ASSUME NEW l, NEW n \in Nat, Oks(l, n) # {}
  PROVE  /\ LastOk(l, n) \in Oks(l, n) /\ LastOk(l, n) \in 1..n
         /\ \A k \in Oks(l, n) : k <= LastOk(l, n)
<1>1. Oks(l, n) \in SUBSET (1..n)
  BY DEF Oks
<1>2. \E j \in Oks(l, n) : \A k \in Oks(l, n) : k <= j
  BY <1>1, Greatest
<1> QED
  BY <1>1, <1>2 DEF LastOk

LEMMA LeftSame ==
  ASSUME NEW l, NEW m, NEW n \in Nat, NEW r,
         \A j \in 1..n : /\ m[j].step = l[j].step /\ m[j].it = l[j].it
                         /\ m[j].outcome = "ok" <=> l[j].outcome = "ok"
  PROVE  Left(m, n, r) = Left(l, n, r)
<1>1. Oks(m, n) = Oks(l, n)
  BY DEF Oks
<1>2. LastOk(m, n) = LastOk(l, n)
  BY <1>1 DEF LastOk
<1>3. CASE Oks(l, n) = {}
  BY <1>1, <1>3 DEF Left
<1>4. CASE Oks(l, n) # {}
  <2>1. LastOk(l, n) \in 1..n
    BY <1>4, LastOne
  <2> QED
    BY <1>1, <1>2, <1>4, <2>1 DEF Left
<1> QED
  BY <1>3, <1>4

(* A log that begins like another one.                                     *)
LEMMA LeftKept ==
  ASSUME NEW l, NEW m, NEW n \in Nat, NEW r, \A j \in 1..n : m[j] = l[j]
  PROVE  \A i \in 0..n : Left(m, i, r) = Left(l, i, r)
<1> TAKE i \in 0..n
<1>1. i \in Nat /\ \A j \in 1..i : m[j] = l[j]
  OBVIOUS
<1> QED
  BY <1>1, LeftSame

LEMMA LeftLast ==
  ASSUME NEW l, NEW n \in Nat \ {0}, NEW r, l[n].outcome = "ok"
  PROVE  Left(l, n, r) = {[by |-> l[n].step, run |-> r, it |-> l[n].it]}
<1>1. n \in Oks(l, n)
  BY DEF Oks
<1>2. LastOk(l, n) = n
  BY <1>1, LastOne
<1> QED
  BY <1>1, <1>2 DEF Left

LEMMA LeftNext ==
  ASSUME NEW l, NEW n \in Nat, NEW r, l[n + 1].outcome # "ok"
  PROVE  Left(l, n + 1, r) = Left(l, n, r)
<1>1. Oks(l, n + 1) = Oks(l, n)
  BY DEF Oks
<1>2. LastOk(l, n + 1) = LastOk(l, n)
  BY <1>1 DEF LastOk
<1> QED
  BY <1>1, <1>2 DEF Left
-----------------------------------------------------------------------------
(* The application                                                         *)

LEMMA Initially ==
  ASSUME Init
  PROVE  IInv
<1>1. /\ Len(<<>>) = 0 /\ <<>> \in Seq(Steps) /\ <<>> \in Seq(Entry)
      /\ 1..0 = {} /\ DOMAIN <<>> = {}
  OBVIOUS
<1>2. /\ plan = <<>> /\ steps = <<>> /\ log = <<>>
      /\ Len(plan) = 0 /\ Len(log) = 0
      /\ stage = "idle" /\ iteration = 0
  BY <1>1 DEF Init
<1>3. IsInjective(plan) /\ IsInjective(steps)
      /\ Range(plan) = {} /\ Range(steps) = {}
  BY <1>1, <1>2 DEF IsInjective, Range
<1>4. Typed
  <2>1. mode \in Modes /\ api \in {"Run", "RunStream"}
        /\ stage \in {"idle", "condition", "steps", "returned"}
        /\ loopContinue \in BOOLEAN /\ ctxDone \in BOOLEAN
        /\ executed \in BOOLEAN /\ info.reason \in Reasons
        /\ verdict \in Verdicts /\ (verdict = "none" <=> stage # "returned")
    BY DEF Init, Reasons, Verdicts
  <2>2. info.total \in 0..MaxIterations /\ iteration \in 0..MaxIterations
        /\ run \in 0..MaxRuns
    BY WorkflowAssumption DEF Init
  <2>3. deps \in [Steps -> DepChoices \cup {{}}]
        /\ stepResults \in [Steps -> SUBSET Piece]
        /\ loopInput \subseteq Piece /\ current \subseteq Piece
    BY DEF Init
  <2>4. pos \in 1..(Len(plan) + 1)
    BY <1>2 DEF Init
  <2> QED
    BY <1>1, <1>2, <1>3, <2>1, <2>2, <2>3, <2>4 DEF Typed
<1>5. Phases /\ Taking /\ Staged /\ Looped
  BY <1>1, <1>2 DEF Phases, Taking, Staged, Looped, Iterated
<1>6. Stored
  BY <1>1, <1>2 DEF Stored, Init
<1>7. Chain
  BY <1>1, <1>2 DEF Chain
<1>8. DependenciesFirst /\ DagInputs
  BY <1>1, <1>2 DEF DependenciesFirst, PrerequisitesTaken, DagInputs
<1>9. DagVerdict /\ LoopReport /\ ParallelVerdict
  BY <1>2 DEF DagVerdict, LoopReport, ParallelVerdict
<1> QED
  BY <1>4, <1>5, <1>6, <1>7, <1>8, <1>9 DEF IInv

(* Nothing of the invariant but its types hangs on loop_continue, and on   *)
(* the context only what is reported after the return.                     *)
LEMMA FlagsKeepInv ==
  ASSUME IInv,
         UNCHANGED <<mode, steps, deps, stepResults, info, run, api, stage,
                     verdict, iteration, loopInput, passVars>>,
         loopContinue' \in BOOLEAN, ctxDone' \in BOOLEAN,
         stage = "returned" => ctxDone' = ctxDone
  PROVE  IInv'
<1> USE DEF IInv, passVars
<1>1. Typed'
  BY DEF Typed
<1>2. Phases' /\ Taking' /\ Staged' /\ Looped'
  BY DEF Phases, Taking, Staged, Looped, Iterated, Parallel, Dag, AllTaken,
         Taken
<1>3. Stored' /\ Chain'
  BY DEF Stored, Chain, Parallel, Dag, Answer
<1>4. DependenciesFirst' /\ DagInputs'
  BY DEF DependenciesFirst, PrerequisitesTaken, DagInputs, Answer
<1>5. DagVerdict'
  BY DEF DagVerdict, Dag, Unsolvable, AllTaken, Taken
<1>6. LoopReport'
  BY DEF LoopReport
<1>7. ParallelVerdict'
  BY DEF ParallelVerdict, Parallel, Taken, Busy, Answer
<1> QED
  BY <1>1, <1>2, <1>3, <1>4, <1>5, <1>6, <1>7

LEMMA FlagStepsKeepInv ==
  ASSUME IInv, SetLoopContinue \/ CancelContext \/ UNCHANGED vars
  PROVE  IInv'
<1>1. loopContinue \in BOOLEAN /\ ctxDone \in BOOLEAN
  BY DEF IInv, Typed
<1>2. CASE SetLoopContinue
  BY <1>1, <1>2, FlagsKeepInv DEF SetLoopContinue, runVars, passVars
<1>3. CASE CancelContext
  BY <1>1, <1>3, FlagsKeepInv
     DEF CancelContext, Running, contextVars, passVars
<1>4. CASE UNCHANGED vars
  <2>1. UNCHANGED <<mode, steps, deps, stepResults, info, run, api, stage,
                    verdict, iteration, loopInput, passVars>>
    BY <1>4 DEF vars, contextVars, runVars, passVars
  <2>2. loopContinue' = loopContinue /\ ctxDone' = ctxDone
    BY <1>4 DEF vars, contextVars, runVars
  <2> QED
    BY <1>1, <2>1, <2>2, FlagsKeepInv
<1> QED
  BY <1>2, <1>3, <1>4

(* The steps of a run have their dependencies already: a new step is none  *)
(* of them.                                                                *)
LEMMA AddStepKeepsInv ==
  ASSUME IInv, NEW s \in Steps,
         NEW d \in (IF mode = "dag" THEN DepChoices ELSE {{}}), AddStep(s, d)
  PROVE  IInv'
<1> USE DEF IInv
<1>1. UNCHANGED <<mode, stepResults, loopContinue, info, run, api, stage,
                  verdict, ctxDone, iteration, loopInput, plan, pos, executed,
                  current, log>>
  BY DEF AddStep, contextVars, runVars, passVars
<1>2. /\ steps' \in Seq(Steps) /\ Range(steps) \subseteq Range(steps')
      /\ IsInjective(steps')
  <2>1. steps \in Seq(Steps) /\ IsInjective(steps)
    BY DEF Typed
  <2>2. steps' = Append(steps, s) /\ s \notin Range(steps)
    BY DEF AddStep, NewName
  <2>3. /\ steps' \in Seq(Steps) /\ Range(steps') = Range(steps) \cup {s}
        /\ DOMAIN steps = 1..Len(steps) /\ DOMAIN steps' = 1..Len(steps) + 1
        /\ Len(steps) \in Nat
        /\ steps'[Len(steps) + 1] = s
        /\ \A i \in 1..Len(steps) : steps'[i] = steps[i]
    BY <2>1, <2>2, Appended
  <2>4. \A i \in 1..Len(steps) : steps[i] \in Range(steps)
    BY <2>1, Ranges
  <2>5. IsInjective(steps')
    BY <2>1, <2>2, <2>3, <2>4 DEF IsInjective
  <2> QED
    BY <2>3, <2>5
<1>3. /\ deps' \in [Steps -> DepChoices \cup {{}}]
      /\ \A x \in Range(plan) : deps'[x] = deps[x]
  <2>1. /\ deps \in [Steps -> DepChoices \cup {{}}]
        /\ deps' = [deps EXCEPT ![s] = d]
        /\ d \in DepChoices \cup {{}}
    BY DEF Typed, AddStep
  <2>2. Range(plan) \subseteq Steps /\ s \notin Range(plan)
    BY Plans DEF Typed, AddStep, NewName
  <2> QED
    BY <2>1, <2>2
<1>4. Typed'
  BY <1>1, <1>2, <1>3 DEF Typed
<1>5. Phases' /\ Taking' /\ Staged' /\ Looped'
  BY <1>1 DEF Phases, Taking, Staged, Looped, Iterated, Parallel, Dag,
              AllTaken, Taken
<1>6. Stored' /\ Chain'
  BY <1>1 DEF Stored, Chain, Parallel, Dag, Answer
<1>7. LoopReport' /\ ParallelVerdict'
  BY <1>1 DEF LoopReport, ParallelVerdict, Parallel, Taken, Busy, Answer
<1>8. \A i \in DOMAIN log : deps'[log[i].step] = deps[log[i].step]
  BY <1>3, Entries
<1>9. DependenciesFirst' /\ DagInputs'
  <2>1. DependenciesFirst'
    BY <1>1, <1>8 DEF DependenciesFirst, PrerequisitesTaken
  <2>2. DagInputs'
    BY <1>1, <1>8 DEF DagInputs, Answer, Given
  <2> QED
    BY <2>1, <2>2
<1>10. DagVerdict'
  <2>1. Unsolvable' <=> Unsolvable
    BY <1>1, <1>3 DEF Unsolvable
  <2> QED
    BY <1>1, <2>1 DEF DagVerdict, Dag, AllTaken, Taken
<1> QED
  BY <1>4, <1>5, <1>6, <1>7, <1>9, <1>10

(* A run begins with an empty log: of the old run only the results stay.   *)
LEMMA BeginRunKeepsInv ==
  ASSUME IInv, NEW a \in {"Run", "RunStream"}, NEW cancelled \in BOOLEAN,
         BeginRun(a, cancelled)
  PROVE  IInv'
<1> USE DEF IInv
<1>1. /\ UNCHANGED <<mode, steps, deps, stepResults, loopContinue, info>>
      /\ api' = a /\ ctxDone' = cancelled /\ iteration' = 0
      /\ run' = run + 1 /\ run < MaxRuns
      /\ loopInput' = Given(run') /\ current' = Given(run')
      /\ plan' = steps /\ pos' = 1 /\ executed' = FALSE /\ log' = <<>>
  BY DEF BeginRun, StartPass, contextVars
<1>2. \/ stage' = "returned" /\ verdict' = "cancelled" /\ a = "RunStream"
      \/ stage' = "condition" /\ verdict' = "none" /\ mode = "loop"
      \/ stage' = "steps" /\ verdict' = "none" /\ mode # "loop"
  BY DEF BeginRun
<1>3. /\ log' \in Seq(Entry) /\ Len(log') = 0 /\ 1..Len(log') = {}
      /\ DOMAIN log' = {}
  BY <1>1
<1>4. Typed'
  <2>1. /\ mode' \in Modes /\ api' \in {"Run", "RunStream"}
        /\ stage' \in {"idle", "condition", "steps", "returned"}
        /\ ctxDone' \in BOOLEAN /\ executed' \in BOOLEAN
        /\ loopContinue' \in BOOLEAN
        /\ verdict' \in Verdicts /\ (verdict' = "none" <=> stage' # "returned")
    BY <1>1, <1>2 DEF Typed, Verdicts
  <2>2. run' \in 0..MaxRuns /\ iteration' \in 0..MaxIterations
        /\ 0 \in 0..MaxIterations
    BY <1>1, WorkflowAssumption DEF Typed
  <2>3. Given(run') \subseteq Piece
    <3>1. [by |-> "caller", run |-> run', it |-> 0] \in Piece
      BY <2>2 DEF Piece
    <3> QED
      BY <3>1 DEF Given
  <2>4. pos' \in 1..(Len(plan') + 1)
    <3>1. Len(steps) \in Nat
      BY LenProperties DEF Typed
    <3> QED
      BY <1>1, <3>1
  <2>5. /\ plan' \in Seq(Steps) /\ IsInjective(plan')
        /\ Range(plan') \subseteq Range(steps')
        /\ steps' \in Seq(Steps) /\ IsInjective(steps')
        /\ deps' \in [Steps -> DepChoices \cup {{}}]
        /\ stepResults' \in [Steps -> SUBSET Piece]
        /\ info'.total \in 0..MaxIterations /\ info'.reason \in Reasons
    BY <1>1 DEF Typed
  <2> QED
    BY <1>1, <1>3, <2>1, <2>2, <2>3, <2>4, <2>5 DEF Typed
<1>5. Phases' /\ Taking' /\ Looped'
  <2>1. 0 < MaxIterations
    BY WorkflowAssumption
  <2> QED
    BY <1>1, <1>2, <1>3, <2>1 DEF Phases, Taking, Looped, Iterated
<1>6. Staged'
  <2>1. Taken' = {}
    BY <1>3 DEF Taken
  <2>2. ASSUME plan' # <<>> PROVE Range(plan') # {}
    <3>1. plan' \in Seq(Steps)
      BY <1>4 DEF Typed
    <3>2. Len(plan') # 0 /\ Len(plan') \in Nat
      BY <2>2, <3>1, EmptySeq
    <3>3. 1 \in 1..Len(plan')
      BY <3>2
    <3> QED
      BY <3>1, <3>3, Ranges
  <2> QED
    BY <1>1, <2>1, <2>2 DEF Staged, AllTaken
<1>7. Stored'
  BY <1>1, <1>3 DEF Stored
<1>8. Chain'
  <2>1. \A l, r : Left(l, 0, r) = Given(r)
    BY DEF Left, Oks
  <2> QED
    BY <1>1, <1>3, <2>1 DEF Chain
<1>9. DependenciesFirst' /\ DagInputs'
  BY <1>3 DEF DependenciesFirst, PrerequisitesTaken, DagInputs
<1>10. DagVerdict' /\ LoopReport' /\ ParallelVerdict'
  BY <1>1, <1>2 DEF DagVerdict, LoopReport, ParallelVerdict, Dag
<1> QED
  BY <1>4, <1>5, <1>6, <1>7, <1>8, <1>9, <1>10
-----------------------------------------------------------------------------
(* A pass over the steps                                                   *)

(* A step is taken: the log grows by one entry.                            *)
LEMMA TakeKeepsInv ==
  ASSUME IInv, NEW n, NEW o \in {"running", "skipped", "failed"},
         Take(n, o), o = "failed" => Parallel,
         UNCHANGED <<mode, steps, deps, contextVars, runVars, plan, current>>
  PROVE  IInv'
<1> USE DEF IInv
<1> DEFINE L == Len(log)
           s == plan[n]
           e == [step |-> s, it |-> iteration, input |-> StepInput(s),
                 outcome |-> o]
<1>1. /\ UNCHANGED <<mode, steps, deps, stepResults, loopContinue, info, run,
                     api, stage, verdict, ctxDone, iteration, loopInput, plan,
                     current>>
      /\ stage = "steps" /\ n \in Ready /\ executed' = TRUE
      /\ pos' = IF Parallel THEN pos ELSE n + 1
      /\ log' = Append(log, e)
  BY DEF Take, Enter, contextVars, runVars
<1>2. /\ n \in 1..Len(plan) /\ Eligible(s) /\ s \in Steps /\ s \in Range(plan)
      /\ ~Parallel => ~Busy
  BY <1>1, ReadyOnes
<1>3. e \in Entry
  <2>1. StepInput(s) \subseteq Piece
    BY <1>2, Texts
  <2>2. iteration \in 0..MaxIterations /\ o \in Outcomes
    BY DEF Typed, Outcomes
  <2> QED
    BY <1>2, <2>1, <2>2 DEF Entry
<1>4. /\ log' \in Seq(Entry) /\ L \in Nat /\ DOMAIN log = 1..L
      /\ DOMAIN log' = 1..L + 1 /\ Len(log') = L + 1 /\ log'[L + 1] = e
      /\ \A i \in 1..L : log'[i] = log[i] /\ i # L + 1
  BY <1>1, <1>3, Appended DEF Typed
<1>5. \A i \in 1..Len(log') : \/ i \in 1..L /\ log'[i] = log[i] /\ i # L + 1
                              \/ i = L + 1 /\ log'[i] = e
  BY <1>4
<1>6. /\ e.step = s /\ e.it = iteration /\ e.input = StepInput(s)
      /\ e.outcome = o
  OBVIOUS
<1> HIDE DEF e
<1>7. \A i \in 1..L : log[i].step = s => log[i].it # iteration
  BY <1>2, TakenOnes DEF Eligible
<1>8. Typed'
  <2>1. pos' \in 1..(Len(plan') + 1)
    BY <1>1, <1>2, Plans DEF Typed
  <2>2. \A i \in 1..Len(log') : log'[i].step \in Range(plan')
    BY <1>1, <1>2, <1>5, <1>6, Entries
  <2> QED
    BY <1>1, <1>4, <2>1, <2>2 DEF Typed
<1>9. Phases'
  BY <1>1, <1>5, <1>6 DEF Phases, Typed
<1>10. Taking'
  <2>1. ASSUME NEW i \in 1..Len(log'), NEW j \in 1..Len(log'),
               log'[i].step = log'[j].step, log'[i].it = log'[j].it
        PROVE  i = j
    <3>1. CASE i \in 1..L /\ j \in 1..L
      BY <1>4, <2>1, <3>1 DEF Taking
    <3>2. CASE i = L + 1 \/ j = L + 1
      BY <1>5, <1>6, <1>7, <2>1, <3>2
    <3> QED
      BY <1>5, <3>1, <3>2
  <2>2. ASSUME NEW i \in 1..Len(log'), log'[i].outcome = "running"
        PROVE  /\ stage' = "steps" /\ log'[i].it = iteration'
               /\ Parallel' \/ i = Len(log')
    <3>1. CASE i = L + 1
      BY <1>1, <1>4, <1>6, <3>1
    <3>2. CASE i \in 1..L
      <4>1. log[i].outcome = "running"
        BY <1>4, <2>2, <3>2
      <4>2. log[i].it = iteration
        BY <3>2, <4>1 DEF Taking
      <4>3. Busy
        BY <1>4, <3>2, <4>1 DEF Busy
      <4> QED
        BY <1>1, <1>2, <1>4, <3>2, <4>2, <4>3 DEF Parallel
    <3> QED
      BY <1>5, <3>1, <3>2
  <2> QED
    BY <2>1, <2>2 DEF Taking
<1>11. Staged'
  BY <1>1 DEF Staged
<1>12. Stored'
  <2>1. o = "failed" => ~Dag
    BY DEF Dag, Parallel
  <2> QED
    BY <1>1, <1>5, <1>6, <2>1 DEF Stored, Dag, Answer
<1>13. Looped'
  <2>1. Iterated(log, iteration - 1) => Iterated(log', iteration - 1)
    <3> SUFFICES ASSUME Iterated(log, iteration - 1),
                        NEW i \in 1..Len(log'),
                        NEW it \in log'[i].it..(iteration - 1)
                 PROVE  \E j \in 1..Len(log') : log'[j].it = it
      BY <1>1 DEF Iterated
    <3>1. i \in 1..L /\ log'[i] = log[i]
      <4>1. iteration \in Nat
        BY WorkflowAssumption DEF Typed
      <4>2. CASE i = L + 1
        <5>1. log'[i].it = iteration
          BY <1>4, <1>6, <4>2
        <5>2. it \in iteration..(iteration - 1)
          BY <5>1
        <5> QED
          BY <4>1, <5>2
      <4> QED
        BY <1>5, <4>2
    <3>2. PICK j \in 1..L : log[j].it = it
      BY <3>1 DEF Iterated
    <3>3. j \in 1..Len(log') /\ log'[j].it = it
      BY <1>4, <3>2
    <3> QED
      BY <3>3
  <2>2. \E j \in 1..Len(log') : log'[j].it = iteration'
    <3>1. L + 1 \in 1..Len(log') /\ log'[L + 1].it = iteration'
      BY <1>1, <1>4, <1>6
    <3> QED
      BY <3>1
  <2> QED
    BY <1>1, <2>1, <2>2 DEF Looped
<1>14. DependenciesFirst'
  <2> SUFFICES ASSUME api = "Run", mode = "dag", NEW i \in 1..Len(log'),
                      NEW x \in deps[log'[i].step]
               PROVE  \E j \in 1..(i - 1) :
                        log'[j].step = x /\ log'[j].outcome # "running"
    BY <1>1, <1>4 DEF DependenciesFirst, PrerequisitesTaken
  <2>1. CASE i \in 1..L
    <3>1. PICK j \in 1..(i - 1) : log[j].step = x /\ log[j].outcome # "running"
      <4>1. log'[i] = log[i] /\ i \in DOMAIN log /\ x \in deps[log[i].step]
        BY <1>4, <2>1
      <4> QED
        BY <4>1 DEF DependenciesFirst, PrerequisitesTaken
    <3>2. j \in 1..L /\ log'[j] = log[j]
      BY <1>4, <2>1, <3>1
    <3> QED
      BY <3>1, <3>2
  <2>2. CASE i = L + 1
    <3>1. x \in Taken /\ ~Busy
      BY <1>2, <1>4, <1>6, <2>2 DEF Eligible, Dag, Parallel
    <3>2. PICK j \in 1..L : log[j].step = x
      BY <3>1, TakenOnes
    <3>3. log[j].outcome # "running"
      BY <1>4, <3>1 DEF Busy
    <3>4. j \in 1..(i - 1) /\ log'[j] = log[j]
      BY <1>4, <2>2
    <3> QED
      BY <3>2, <3>3, <3>4
  <2> QED
    BY <1>5, <2>1, <2>2
<1>15. DagVerdict' /\ LoopReport' /\ ParallelVerdict'
  BY <1>1 DEF DagVerdict, LoopReport, ParallelVerdict
<1>16. Chain'
  <2> SUFFICES ASSUME ~Parallel, ~Dag PROVE Chain'
    BY <1>1 DEF Chain, Parallel, Dag
  <2>1. \A m \in 0..L : Left(log', m, run) = Left(log, m, run)
    <3>1. L \in Nat /\ \A j \in 1..L : log'[j] = log[j]
      BY <1>4
    <3> QED
      BY <3>1, LeftKept
  <2>2. Left(log', L + 1, run) = Left(log, L, run)
    <3>1. log'[L + 1].outcome # "ok"
      BY <1>4, <1>6
    <3> QED
      BY <1>4, <2>1, <3>1, LeftNext
  <2>3. e.input = current /\ current = Left(log, L, run)
    BY <1>1, <1>6 DEF StepInput, Chain
  <2>4. \A i \in 1..Len(log') : log'[i].input = Left(log', i - 1, run)
    BY <1>4, <1>5, <2>1, <2>3 DEF Chain
  <2> QED
    BY <1>1, <1>4, <2>2, <2>3, <2>4 DEF Chain
<1>17. DagInputs'
  <2> SUFFICES ASSUME Dag, NEW i \in 1..Len(log')
               PROVE  /\ \A j \in 1..(i - 1) :
                           /\ log'[j].step \in deps[log'[i].step]
                           /\ log'[j].outcome = "ok"
                           => Answer(log'[j].step) \subseteq log'[i].input
                      /\ \A p \in log'[i].input :
                           \/ p \in Given(run)
                           \/ p.by \in deps[log'[i].step] /\ p.run = run
                           \/ \E j \in 1..(i - 1) :
                                /\ log'[j].step = p.by
                                /\ p.by \in deps[log'[i].step]
                                /\ log'[j].outcome = "skipped"
    BY <1>1, <1>4 DEF DagInputs, Dag, Answer, Given
  <2>1. CASE i \in 1..L
    <3>1. \A j \in 1..i : j \in 1..L /\ log'[j] = log[j]
      BY <1>4, <2>1
    <3>2. i \in 1..i
      BY <2>1
    <3> QED
      BY <1>4, <2>1, <3>1, <3>2 DEF DagInputs, Dag, Answer, Given
  <2>2. CASE i = L + 1
    <3> DEFINE d == deps[s]
               combined == UNION {stepResults[x] : x \in d}
    <3>1. log'[i].step = s /\ log'[i].input = StepInput(s)
      BY <1>4, <1>6, <2>2
    <3>2. StepInput(s) = IF combined = {} THEN Given(run) ELSE combined
      BY DEF StepInput, Dag, Parallel
    <3>3. \A j \in 1..(i - 1) : j \in 1..L /\ log'[j] = log[j]
      BY <1>4, <2>2
    <3>4. d \subseteq Taken /\ d \subseteq Steps /\ ~Busy
      BY <1>2, Texts DEF Eligible, Dag, Parallel
    <3>5. ASSUME NEW j \in 1..(i - 1), log'[j].step \in d,
                 log'[j].outcome = "ok"
          PROVE  Answer(log'[j].step) \subseteq StepInput(s)
      <4>1. stepResults[log[j].step] = Answer(log[j].step)
        BY <1>1, <3>3, <3>5 DEF Stored
      <4>2. Answer(log[j].step) \subseteq combined
        BY <3>3, <3>5, <4>1
      <4>3. Answer(log[j].step) # {}
        BY DEF Answer
      <4> QED
        BY <3>2, <3>3, <4>2, <4>3
    <3>6. ASSUME NEW p \in StepInput(s), p \notin Given(run)
          PROVE  \/ p.by \in d /\ p.run = run
                 \/ \E j \in 1..(i - 1) :
                      /\ log'[j].step = p.by /\ p.by \in d
                      /\ log'[j].outcome = "skipped"
      <4>1. PICK x \in d : p \in stepResults[x]
        BY <3>2, <3>6
      <4>2. p.by = x
        BY <3>4, <4>1 DEF Stored
      <4>3. PICK j \in 1..L : log[j].step = x
        BY <3>4, TakenOnes
      <4>4. log[j].outcome \in {"ok", "failed", "skipped"}
        BY <1>4, <3>4, Entries DEF Busy, Outcomes
      <4>5. log[j].outcome # "failed"
        BY <1>1, <4>1, <4>3 DEF Stored
      <4>6. ASSUME log[j].outcome = "ok" PROVE p.run = run
        BY <1>1, <4>1, <4>3, <4>6 DEF Stored, Answer
      <4>7. j \in 1..(i - 1)
        BY <2>2
      <4> QED
        BY <3>3, <4>2, <4>3, <4>4, <4>5, <4>6, <4>7
    <3> QED
      BY <3>1, <3>5, <3>6
  <2> QED
    BY <1>5, <2>1, <2>2
<1> QED
  BY <1>8, <1>9, <1>10, <1>11, <1>12, <1>13, <1>14, <1>15, <1>16, <1>17

LEMMA TakingKeepsInv ==
  ASSUME IInv, NEW n, StepBegins(n) \/ StepSkipped(n) \/ StepRefused(n)
  PROVE  IInv'
<1>1. CASE StepBegins(n)
  BY <1>1, TakeKeepsInv DEF StepBegins
<1>2. CASE StepSkipped(n)
  BY <1>2, TakeKeepsInv DEF StepSkipped
<1>3. CASE StepRefused(n)
  BY <1>3, TakeKeepsInv DEF StepRefused
<1> QED
  BY <1>1, <1>2, <1>3

(* The log m is l but for the outcome of entry k.                          *)
Closes(l, m, k, o) ==
  /\ Len(m) = Len(l) /\ Len(l) \in Nat /\ k \in 1..Len(l)
  /\ DOMAIN l = 1..Len(l) /\ DOMAIN m = 1..Len(l)
  /\ \A i \in 1..Len(l) :
       /\ m[i].step = l[i].step /\ m[i].it = l[i].it
       /\ m[i].input = l[i].input
       /\ i # k => m[i] = l[i]
       /\ i = k => m[i].outcome = o

(* A step that ran ends: its entry gets an outcome, and nothing else of    *)
(* the log changes.                                                        *)
LEMMA Settled ==
  ASSUME IInv, NEW k \in DOMAIN log, log[k].outcome = "running",
         NEW o \in {"ok", "failed"}, log' = [log EXCEPT ![k].outcome = o]
  PROVE  /\ stage = "steps" /\ log[k].it = iteration
         /\ Parallel \/ k = Len(log)
         /\ log' \in Seq(Entry) /\ Closes(log, log', k, o)
<1> USE DEF IInv
<1>1. /\ DOMAIN log = 1..Len(log) /\ Len(log) \in Nat /\ k \in 1..Len(log)
      /\ log[k] \in Entry /\ log \in Seq(Entry)
  BY Entries DEF Typed
<1>2. stage = "steps" /\ log[k].it = iteration /\ (Parallel \/ k = Len(log))
  BY <1>1 DEF Taking
<1>3. log' = [log EXCEPT ![k] = [log[k] EXCEPT !.outcome = o]]
  OBVIOUS
<1>4. [log[k] EXCEPT !.outcome = o] \in Entry
  BY <1>1 DEF Entry, Outcomes
<1>5. /\ log' \in Seq(Entry) /\ Len(log') = Len(log)
      /\ DOMAIN log' = 1..Len(log)
      /\ \A i \in 1..Len(log) :
           log'[i] = IF i = k THEN [log[k] EXCEPT !.outcome = o] ELSE log[i]
  BY <1>1, <1>3, <1>4, ExceptSeq
<1>6. /\ [log[k] EXCEPT !.outcome = o].step = log[k].step
      /\ [log[k] EXCEPT !.outcome = o].it = log[k].it
      /\ [log[k] EXCEPT !.outcome = o].input = log[k].input
      /\ [log[k] EXCEPT !.outcome = o].outcome = o
  BY <1>1 DEF Entry
<1> QED
  BY <1>1, <1>2, <1>5, <1>6 DEF Closes

LEMMA SettledKeeps ==
  ASSUME IInv, NEW k, NEW o \in {"ok", "failed"}, Closes(log, log', k, o),
         Parallel \/ k = Len(log),
         UNCHANGED <<mode, deps, run, api, iteration, plan>>
  PROVE  /\ \A i \in 1..Len(log') : log'[i].step \in Range(plan)
         /\ \A i, j \in 1..Len(log') :
              log'[i].step = log'[j].step /\ log'[i].it = log'[j].it => i = j
         /\ \A i \in 1..Len(log') :
              log'[i].outcome = "running" =>
                i # k /\ log[i].outcome = "running"
         /\ DependenciesFirst' /\ DagInputs'
         /\ \A n : Iterated(log, n) => Iterated(log', n)
         /\ \A m \in 0..(Len(log) - 1) : k = Len(log) =>
              Left(log', m, run) = Left(log, m, run)
<1> USE DEF IInv
<1>1. \A i \in 1..Len(log') : log'[i].step \in Range(plan)
  BY Entries DEF Closes
<1>2. \A i, j \in 1..Len(log') :
        log'[i].step = log'[j].step /\ log'[i].it = log'[j].it => i = j
  BY DEF Taking, Closes
<1>3. \A i \in 1..Len(log') :
        log'[i].outcome = "running" => i # k /\ log[i].outcome = "running"
  BY DEF Closes
<1>4. /\ Len(log) \in Nat /\ Len(log') = Len(log) /\ k \in 1..Len(log)
      /\ DOMAIN log = 1..Len(log) /\ DOMAIN log' = 1..Len(log)
  BY DEF Closes
<1>5. Len(log) \in Nat
  BY <1>4
<1>6. DOMAIN log = 1..Len(log)
  BY <1>4
<1>7. DOMAIN log' = 1..Len(log)
  BY <1>4
<1>8. DependenciesFirst'
  <2> SUFFICES ASSUME api' = "Run", mode' = "dag", NEW i \in DOMAIN log',
                      NEW x \in deps'[log'[i].step]
               PROVE  \E j \in 1..(i - 1) :
                        log'[j].step = x /\ log'[j].outcome # "running"
    BY DEF DependenciesFirst, PrerequisitesTaken
  <2>1. i \in DOMAIN log /\ i \in 1..Len(log)
    BY <1>6, <1>7
  <2>2. x \in deps[log[i].step]
    BY <2>1 DEF Closes
  <2>3. PICK j \in 1..(i - 1) : log[j].step = x /\ log[j].outcome # "running"
    BY <2>1, <2>2 DEF DependenciesFirst, PrerequisitesTaken
  <2>4. j \in 1..Len(log)
    BY <1>5, <2>1
  <2>5. log'[j].step = x /\ log'[j].outcome # "running"
    BY <1>3, <1>4, <2>3, <2>4 DEF Closes
  <2> QED
    BY <2>5
<1>9. DagInputs'
  <2> SUFFICES ASSUME Dag, NEW i \in 1..Len(log)
               PROVE  /\ \A j \in 1..(i - 1) :
                           /\ log'[j].step \in deps[log'[i].step]
                           /\ log'[j].outcome = "ok"
                           => Answer(log'[j].step) \subseteq log'[i].input
                      /\ \A p \in log'[i].input :
                           \/ p \in Given(run)
                           \/ p.by \in deps[log'[i].step] /\ p.run = run
                           \/ \E j \in 1..(i - 1) :
                                /\ log'[j].step = p.by
                                /\ p.by \in deps[log'[i].step]
                                /\ log'[j].outcome = "skipped"
    BY <1>7 DEF DagInputs, Dag, Answer, Given
  <2>1. k = Len(log)
    BY DEF Dag, Parallel
  <2>2. \A j \in 1..(i - 1) : j \in 1..Len(log) /\ j # k
    BY <1>5, <2>1
  <2>3. \A j \in 1..(i - 1) : log'[j] = log[j]
    BY <2>2 DEF Closes
  <2>4. log'[i].step = log[i].step /\ log'[i].input = log[i].input
    BY DEF Closes
  <2> QED
    BY <1>6, <2>3, <2>4 DEF DagInputs, Dag, Answer, Given
<1>10. \A n : Iterated(log, n) => Iterated(log', n)
  BY ZenonT(40) DEF Iterated, Closes
<1>11. \A m \in 0..(Len(log) - 1) : k = Len(log) =>
        Left(log', m, run) = Left(log, m, run)
  <2> TAKE m \in 0..(Len(log) - 1)
  <2> HAVE k = Len(log)
  <2>1. m \in Nat /\ \A j \in 1..m : j \in 1..Len(log) /\ j # k
    BY <1>4
  <2>2. \A j \in 1..m : log'[j] = log[j]
    BY <2>1 DEF Closes
  <2> QED
    BY <2>1, <2>2, LeftSame
<1> QED
  BY <1>1, <1>2, <1>3, <1>8, <1>9, <1>10, <1>11

(* The agent of a step answers.                                            *)
LEMMA StepSucceedsKeepsInv ==
  ASSUME IInv, NEW k \in DOMAIN log, StepSucceeds(k)
  PROVE  IInv'
<1> USE DEF IInv
<1> DEFINE s == log[k].step
<1>1. /\ UNCHANGED <<mode, steps, deps, loopContinue, info, run, api, stage,
                     verdict, ctxDone, iteration, loopInput, plan, pos,
                     executed>>
      /\ log[k].outcome = "running"
      /\ log' = [log EXCEPT ![k].outcome = "ok"]
      /\ stepResults' = [stepResults EXCEPT ![s] = Answer(s)]
      /\ current' = IF Parallel THEN current ELSE Answer(s)
  BY DEF StepSucceeds, runVars
<1>2. /\ stage = "steps" /\ log[k].it = iteration
      /\ Parallel \/ k = Len(log)
      /\ log' \in Seq(Entry) /\ Closes(log, log', k, "ok")
  BY <1>1, Settled
<1>3. k \in 1..Len(log) /\ s \in Steps /\ Len(log) \in Nat
  BY Entries
<1>4. /\ \A i \in 1..Len(log') : log'[i].step \in Range(plan)
      /\ \A i, j \in 1..Len(log') :
           log'[i].step = log'[j].step /\ log'[i].it = log'[j].it => i = j
      /\ \A i \in 1..Len(log') :
           log'[i].outcome = "running" => i # k /\ log[i].outcome = "running"
      /\ DependenciesFirst' /\ DagInputs'
      /\ Iterated(log, iteration - 1) => Iterated(log', iteration - 1)
      /\ \A m \in 0..(Len(log) - 1) : k = Len(log) =>
           Left(log', m, run) = Left(log, m, run)
  BY <1>1, <1>2, SettledKeeps
<1>5. /\ Len(log') = Len(log) /\ \A i \in 1..Len(log) :
           log'[i].it = log[i].it /\ log'[i].input = log[i].input
      /\ log'[k].step = s /\ log'[k].outcome = "ok"
  BY <1>2, <1>3 DEF Closes
<1>6. Answer(s) \subseteq Piece
  BY <1>3, Texts
<1>7. Typed'
  <2>1. stepResults' \in [Steps -> SUBSET Piece] /\ current' \subseteq Piece
    BY <1>1, <1>6 DEF Typed
  <2> QED
    BY <1>1, <1>2, <1>4, <2>1 DEF Typed
<1>8. Phases'
  BY <1>1, <1>2, <1>5 DEF Phases
<1>9. Taking'
  <2>1. ASSUME NEW i \in 1..Len(log'), log'[i].outcome = "running"
        PROVE  /\ stage' = "steps" /\ log'[i].it = iteration'
               /\ Parallel' \/ i = Len(log')
    <3>1. i \in 1..Len(log) /\ log[i].outcome = "running"
      BY <1>4, <1>5, <2>1
    <3> QED
      BY <1>1, <1>5, <3>1 DEF Taking, Parallel
  <2> QED
    BY <1>4, <2>1 DEF Taking
<1>10. Staged'
  <2>1. Taken' = Taken
    BY <1>1, <1>2 DEF Taken, Closes
  <2> QED
    BY <1>1, <2>1 DEF Staged, Dag, AllTaken
<1>11. Stored'
  <2>1. ASSUME NEW x \in Steps, NEW p \in stepResults'[x] PROVE p.by = x
    BY <1>1, <2>1 DEF Typed, Stored, Answer
  <2>2. ASSUME Dag, NEW i \in 1..Len(log')
        PROVE  /\ log'[i].outcome = "ok" =>
                    stepResults'[log'[i].step] = Answer(log'[i].step)
               /\ log'[i].outcome = "failed" =>
                    stepResults'[log'[i].step] = {}
    <3>1. CASE i = k
      BY <1>1, <1>3, <1>5, <3>1 DEF Typed
    <3>2. CASE i # k
      <4>1. i \in 1..Len(log) /\ log'[i] = log[i]
        BY <1>2, <1>5, <3>2 DEF Closes
      <4>2. log[i].it = log[k].it
        BY <1>3, <2>2, <4>1, WorkflowAssumption, Entries DEF Phases, Dag
      <4>3. log[i].step # s
        BY <1>3, <3>2, <4>1, <4>2 DEF Taking
      <4>4. stepResults'[log[i].step] = stepResults[log[i].step]
        BY <1>1, <4>1, <4>3, Entries DEF Typed
      <4> QED
        BY <1>2, <2>2, <4>1, <4>4 DEF Stored
    <3> QED
      BY <3>1, <3>2
  <2> QED
    BY <1>1, <2>1, <2>2 DEF Stored, Dag, Answer
<1>12. Chain'
  <2> SUFFICES ASSUME ~Parallel, ~Dag PROVE Chain'
    BY <1>1 DEF Chain, Parallel, Dag
  <2>1. k = Len(log)
    BY <1>2
  <2>2. \A i \in 1..Len(log') : log'[i].input = Left(log', i - 1, run)
    <3> TAKE i \in 1..Len(log')
    <3>1. i \in 1..Len(log) /\ i - 1 \in 0..(Len(log) - 1)
      BY <1>3, <1>5
    <3>2. log[i].input = Left(log, i - 1, run)
      BY <3>1 DEF Chain
    <3> QED
      BY <1>4, <1>5, <2>1, <3>1, <3>2
  <2>3. Left(log', Len(log), run) = Answer(s)
    <3>1. Len(log) \in Nat \ {0} /\ log'[Len(log)].outcome = "ok"
          /\ log'[Len(log)].step = s /\ log'[Len(log)].it = iteration
      BY <1>2, <1>3, <1>5, <2>1
    <3> QED
      BY <3>1, LeftLast DEF Answer
  <2> QED
    BY ZenonT(40), <1>1, <1>2, <1>5, <2>2, <2>3 DEF Chain
<1>13. Looped'
  BY <1>1, <1>4, <1>5 DEF Looped
<1>14. DagVerdict' /\ LoopReport' /\ ParallelVerdict'
  BY <1>1, <1>2 DEF DagVerdict, LoopReport, ParallelVerdict
<1> QED
  BY <1>4, <1>7, <1>8, <1>9, <1>10, <1>11, <1>12, <1>13, <1>14
-----------------------------------------------------------------------------
(* The ways out of a run                                                   *)

(* What the loop reports, from what it has in the log when it returns.     *)
LEMMA LoopReports ==
  ASSUME NEW v, NEW total, NEW reason, Return(v, total, reason),
         \A i \in DOMAIN log' : log'[i].it < total, DOMAIN log' = 1..Len(log'),
         Iterated(log', total - IF v = "ok" THEN 1 ELSE 2),
         v = "ok" <=> reason \in {"max_iterations", "condition_met"},
         reason = "max_iterations" => total = MaxIterations,
         reason = "context_cancelled" => ctxDone,
         v = "cancelled" => reason = "context_cancelled"
  PROVE  LoopReport'
<1> SUFFICES ASSUME mode = "loop", api = "Run" PROVE LoopReport'
  BY DEF LoopReport, Return
<1>1. /\ info'.total = total /\ info'.reason = reason
      /\ verdict' = v /\ ctxDone' = ctxDone
  BY DEF Return
<1> QED
  BY <1>1 DEF LoopReport, Iterated

(* A return is safe when nothing runs and the report is right.             *)
LEMMA ReturnKeepsInv ==
  ASSUME IInv, stage \in {"condition", "steps"}, ~Busy,
         NEW v \in Verdicts \ {"none"}, NEW total, NEW reason \in Reasons,
         Return(v, total, reason),
         mode = "loop" => total \in 0..MaxIterations,
         UNCHANGED <<stepResults, log>>, current' \subseteq Piece,
         DagVerdict', LoopReport', ParallelVerdict'
  PROVE  IInv'
<1> USE DEF IInv
<1>1. /\ UNCHANGED <<mode, steps, deps, stepResults, loopContinue, run, api,
                     ctxDone, iteration, loopInput, plan, pos, executed, log>>
      /\ stage' = "returned" /\ verdict' = v
      /\ info' = IF mode = "loop" /\ api = "Run"
                   THEN [total |-> total, reason |-> reason] ELSE info
  BY DEF Return
<1>2. Typed'
  BY <1>1 DEF Typed
<1>3. Phases' /\ Staged' /\ Looped'
  BY <1>1 DEF Phases, Staged, Looped
<1>4. Taking'
  <2>1. \A i \in 1..Len(log) : log[i].outcome # "running"
    BY Entries DEF Busy
  <2> QED
    BY <1>1, <2>1 DEF Taking
<1>5. Stored' /\ Chain'
  BY <1>1 DEF Stored, Chain, Parallel, Dag
<1>6. DependenciesFirst' /\ DagInputs'
  BY <1>1 DEF DependenciesFirst, PrerequisitesTaken, DagInputs, Answer
<1> QED
  BY <1>2, <1>3, <1>4, <1>5, <1>6

(* An iteration that went through all the steps has taken some, if there   *)
(* are any.                                                                *)
LEMMA IterationTook ==
  ASSUME IInv, IterationOver
  PROVE  /\ Iterated(log, iteration) /\ stage = "steps" /\ ~Busy
         /\ ~Parallel /\ ~Dag
         /\ iteration \in Nat /\ iteration < MaxIterations
<1> USE DEF IInv
<1>1. /\ stage = "steps" /\ mode = "loop" /\ Ready = {} /\ ~Busy
      /\ ~Parallel /\ ~Dag
  BY DEF IterationOver, PassOver, Parallel, Dag
<1>2. iteration \in Nat /\ iteration < MaxIterations
  BY <1>1, WorkflowAssumption DEF Typed, Phases
<1>3. SUFFICES ASSUME NEW i \in 1..Len(log), NEW it \in log[i].it..iteration
               PROVE  \E j \in 1..Len(log) : log[j].it = it
  BY <1>1, <1>2 DEF Iterated
<1>4. CASE it = iteration
  <2>1. SUFFICES ASSUME \A j \in 1..Len(log) : log[j].it # iteration
                 PROVE  FALSE
    BY <1>4
  <2>2. pos = 1
    BY <1>1, <2>1 DEF Looped
  <2>3. Len(plan) \in Nat /\ Range(plan) # {}
        /\ Range(plan) = {plan[j] : j \in 1..Len(plan)}
    BY Entries, Plans
  <2>4. 1 \in 1..Len(plan)
    BY <2>3
  <2>5. Taken = {}
    BY <2>1, TakenOnes
  <2>6. Eligible(plan[1])
    BY <1>1, <2>5 DEF Eligible
  <2> QED
    BY <1>1, <2>2, <2>4, <2>6, NothingLeft
<1>5. CASE it # iteration
  <2>1. log[i].it \in Nat /\ it \in log[i].it..(iteration - 1)
    BY <1>2, <1>5, Entries
  <2> QED
    BY <1>1, <2>1 DEF Looped, Iterated
<1> QED
  BY <1>4, <1>5

(* The iteration that returns from the middle counts, and may have taken   *)
(* nothing; the ones before it have taken something.                       *)
LEMMA EarlierIterations ==
  ASSUME IInv, stage = "steps", mode = "loop"
  PROVE  /\ Iterated(log, iteration - 1)
         /\ iteration \in Nat /\ iteration + 1 \in 0..MaxIterations
         /\ \A i \in DOMAIN log : log[i].it < iteration + 1
<1>1. iteration \in Nat /\ iteration + 1 \in 0..MaxIterations
  BY WorkflowAssumption DEF IInv, Typed, Phases
<1>2. \A i \in DOMAIN log : log[i].it < iteration + 1
  BY <1>1, Entries DEF IInv, Phases
<1>3. Iterated(log, iteration - 1)
  BY DEF IInv, Looped
<1> QED
  BY <1>1, <1>2, <1>3

LEMMA StopsAtStepKeepsInv ==
  ASSUME IInv, StopsAtStep
  PROVE  IInv'
<1>1. /\ Return("cancelled", iteration + 1, "context_cancelled")
      /\ UNCHANGED <<stepResults, current, log>>
      /\ stage = "steps" /\ ~Parallel /\ ~Dag /\ ctxDone /\ Ready # {}
  BY DEF StopsAtStep, LooksAtContext, Dag
<1>2. Typed /\ current \subseteq Piece
  BY DEF IInv, Typed
<1>3. ~Busy
  BY <1>1, <1>2, ReadyOnes
<1>4. LoopReport'
  <2> SUFFICES ASSUME mode = "loop" PROVE LoopReport'
    BY <1>1 DEF Return, LoopReport
  <2>1. /\ Iterated(log, iteration - 1) /\ iteration \in Nat
        /\ \A i \in DOMAIN log : log[i].it < iteration + 1
        /\ DOMAIN log = 1..Len(log)
    BY <1>1, <1>2, EarlierIterations, Entries
  <2>2. (iteration + 1) - 2 = iteration - 1
    BY <2>1
  <2> QED
    BY <1>1, <2>1, <2>2, LoopReports
<1>5. DagVerdict' /\ ParallelVerdict'
  BY <1>1 DEF DagVerdict, ParallelVerdict, Return, Dag, Parallel
<1> QED
  <2>1. mode = "loop" => iteration + 1 \in 0..MaxIterations
    BY <1>1, EarlierIterations
  <2>2. "cancelled" \in Verdicts \ {"none"} /\ "context_cancelled" \in Reasons
    BY DEF Verdicts, Reasons
  <2> QED
    BY <1>1, <1>2, <1>3, <1>4, <1>5, <2>1, <2>2, ReturnKeepsInv

LEMMA SequentialEndsKeepsInv ==
  ASSUME IInv, SequentialEnds
  PROVE  IInv'
<1>1. /\ Return("ok", 0, "none") /\ UNCHANGED <<stepResults, current, log>>
      /\ stage = "steps" /\ ~Busy /\ ~Parallel /\ ~Dag /\ mode # "loop"
  BY DEF SequentialEnds, PassOver
<1>2. current \subseteq Piece
  BY DEF IInv, Typed
<1>3. DagVerdict' /\ LoopReport' /\ ParallelVerdict'
  BY <1>1 DEF DagVerdict, LoopReport, ParallelVerdict, Return, Dag, Parallel
<1>4. "ok" \in Verdicts \ {"none"} /\ "none" \in Reasons
  BY DEF Verdicts, Reasons
<1> QED
  BY <1>1, <1>2, <1>3, <1>4, ReturnKeepsInv

LEMMA ConditionEndsKeepsInv ==
  ASSUME IInv, NEW v, NEW reason,
         \/ v = "ok" /\ reason = "condition_met"
         \/ v = "failed" /\ reason = "error"
         \/ v = "ok" /\ reason = "max_iterations" /\ iteration = MaxIterations,
         stage = "condition", Return(v, iteration, reason),
         current' = loopInput, UNCHANGED <<stepResults, log>>
  PROVE  IInv'
<1> USE DEF IInv
<1>1. mode = "loop" /\ ~Parallel /\ ~Dag
  BY DEF Phases, Parallel, Dag
<1>2. /\ iteration \in Nat /\ iteration \in 0..MaxIterations
      /\ DOMAIN log = 1..Len(log) /\ loopInput \subseteq Piece
  BY WorkflowAssumption, Entries DEF Typed
<1>3. ~Busy
  BY <1>2 DEF Taking, Busy
<1>4. Iterated(log, iteration - 1) /\ Iterated(log, iteration - 2)
  <2>1. Iterated(log, iteration - 1)
    BY <1>1 DEF Looped
  <2>2. ASSUME NEW i \in 1..Len(log), NEW it \in log[i].it..(iteration - 2)
        PROVE  it \in log[i].it..(iteration - 1)
    <3>1. log[i].it \in Nat
      BY Entries
    <3> QED
      BY <1>2, <3>1
  <2> QED
    BY <2>1, <2>2 DEF Iterated
<1>5. \A i \in DOMAIN log : log[i].it < iteration
  BY <1>2 DEF Phases
<1>6. LoopReport'
  BY <1>2, <1>4, <1>5, LoopReports
<1>7. DagVerdict' /\ ParallelVerdict'
  BY <1>1 DEF DagVerdict, ParallelVerdict, Return, Dag, Parallel
<1>8. v \in Verdicts \ {"none"} /\ reason \in Reasons
  BY DEF Verdicts, Reasons
<1> QED
  BY <1>2, <1>3, <1>6, <1>7, <1>8, ReturnKeepsInv

LEMMA IterationEndsKeepsInv ==
  ASSUME IInv, LoopCancelled \/ LegacyExit \/ Converged
  PROVE  IInv'
<1> USE DEF IInv
<1>1. IterationOver
  BY DEF LoopCancelled, LegacyExit, Converged
<1>2. /\ Iterated(log, iteration) /\ Iterated(log, iteration - 1)
      /\ stage = "steps" /\ mode = "loop" /\ ~Busy /\ ~Parallel /\ ~Dag
      /\ iteration \in Nat /\ iteration + 1 \in 0..MaxIterations
      /\ \A i \in DOMAIN log : log[i].it < iteration + 1
      /\ DOMAIN log = 1..Len(log)
  BY <1>1, IterationTook, EarlierIterations, Entries DEF IterationOver
<1>3. PICK v \in {"cancelled", "ok"},
           reason \in {"context_cancelled", "condition_met", "none"} :
        /\ Return(v, iteration + 1, reason)
        /\ api = "Run" => /\ v = "ok" <=> reason = "condition_met"
                          /\ reason = "none" => FALSE
                          /\ reason = "context_cancelled" => ctxDone
  BY DEF LoopCancelled, LegacyExit, Converged
<1>4. /\ UNCHANGED <<stepResults, log>> /\ current' \subseteq Piece
  BY DEF LoopCancelled, LegacyExit, Converged, Typed
<1>5. LoopReport'
  <2> SUFFICES ASSUME api = "Run" PROVE LoopReport'
    BY <1>3 DEF LoopReport, Return
  <2>1. /\ (iteration + 1) - 1 = iteration
        /\ (iteration + 1) - 2 = iteration - 1
    BY <1>2
  <2>2. Iterated(log', (iteration + 1) - IF v = "ok" THEN 1 ELSE 2)
    BY <1>2, <1>4, <2>1
  <2>3. /\ \A i \in DOMAIN log' : log'[i].it < iteration + 1
        /\ DOMAIN log' = 1..Len(log')
    BY <1>2, <1>4
  <2> QED
    BY <1>3, <2>2, <2>3, LoopReports
<1>6. DagVerdict' /\ ParallelVerdict'
  BY <1>2, <1>3 DEF DagVerdict, ParallelVerdict, Return, Dag, Parallel
<1>7. v \in Verdicts \ {"none"} /\ reason \in Reasons
  BY DEF Verdicts, Reasons
<1> QED
  BY <1>2, <1>3, <1>4, <1>5, <1>6, <1>7, ReturnKeepsInv

(* Between iterations nothing runs, and the text moves over whole.         *)
LEMMA NextIterationKeepsInv ==
  ASSUME IInv, NextIteration
  PROVE  IInv'
<1> USE DEF IInv
<1>1. /\ UNCHANGED <<mode, steps, deps, stepResults, loopContinue, info, run,
                     api, verdict, ctxDone, plan, pos, executed, current, log>>
      /\ IterationOver /\ mode = "loop"
      /\ stage' = "condition" /\ iteration' = iteration + 1
      /\ loopInput' = current
  BY DEF NextIteration, IterationOver, contextVars, passVars
<1>2. /\ Iterated(log, iteration) /\ stage = "steps" /\ ~Busy
      /\ ~Parallel /\ ~Dag /\ iteration \in Nat /\ iteration < MaxIterations
  BY <1>1, IterationTook
<1>3. \A i \in 1..Len(log) : /\ log[i].it \in Nat
                             /\ log[i].outcome # "running"
  BY <1>2, Entries DEF Busy
<1>4. Typed'
  <2>1. iteration' \in 0..MaxIterations
    BY <1>1, <1>2, WorkflowAssumption
  <2>2. loopInput' \subseteq Piece
    BY <1>1 DEF Typed
  <2>3. stage' \in {"idle", "condition", "steps", "returned"}
        /\ (verdict' = "none" <=> stage' # "returned")
    BY <1>1, <1>2 DEF Typed
  <2> QED
    BY <1>1, <2>1, <2>2, <2>3 DEF Typed
<1>5. Phases'
  BY <1>1, <1>2, <1>3 DEF Phases
<1>6. Taking'
  BY <1>1, <1>3 DEF Taking
<1>7. Staged' /\ Stored'
  BY <1>1, <1>2 DEF Staged, Stored, Dag
<1>8. Chain'
  BY <1>1, <1>2 DEF Chain, Parallel, Dag
<1>9. Looped'
  <2>1. (iteration + 1) - 1 = iteration
    BY <1>2
  <2> QED
    BY <1>1, <1>2, <2>1 DEF Looped
<1>10. DependenciesFirst' /\ DagInputs'
  BY <1>1 DEF DependenciesFirst, PrerequisitesTaken, DagInputs
<1>11. DagVerdict' /\ LoopReport' /\ ParallelVerdict'
  BY <1>1 DEF DagVerdict, LoopReport, ParallelVerdict
<1> QED
  BY <1>4, <1>5, <1>6, <1>7, <1>8, <1>9, <1>10, <1>11

LEMMA IterationBeginsKeepsInv ==
  ASSUME IInv, IterationBegins
  PROVE  IInv'
<1> USE DEF IInv
<1>1. /\ UNCHANGED <<mode, steps, deps, stepResults, loopContinue, info, run,
                     api, verdict, ctxDone, iteration, loopInput, log>>
      /\ stage = "condition" /\ stage' = "steps" /\ iteration < MaxIterations
      /\ plan' = steps /\ pos' = 1 /\ executed' = FALSE
      /\ current' = loopInput
  BY DEF IterationBegins, StartPass, contextVars
<1>2. mode = "loop" /\ ~Parallel /\ ~Dag
  BY <1>1 DEF Phases, Parallel, Dag
<1>3. Typed'
  <2>1. /\ plan' \in Seq(Steps) /\ IsInjective(plan')
        /\ Range(plan') \subseteq Range(steps')
        /\ pos' \in 1..(Len(plan') + 1)
    <3>1. Len(steps) \in Nat
      BY LenProperties DEF Typed
    <3> QED
      BY <1>1, <3>1 DEF Typed
  <2>2. \A i \in 1..Len(log') : log'[i].step \in Range(plan')
    <3>1. Range(plan) \subseteq Range(steps)
      BY DEF Typed
    <3> QED
      BY <1>1, <3>1, Entries
  <2>3. current' \subseteq Piece
    BY <1>1 DEF Typed
  <2>4. stage' \in {"idle", "condition", "steps", "returned"}
        /\ (verdict' = "none" <=> stage' # "returned") /\ executed' \in BOOLEAN
    BY <1>1 DEF Typed
  <2> QED
    BY <1>1, <2>1, <2>2, <2>3, <2>4 DEF Typed
<1>4. Phases' /\ Looped'
  BY <1>1, <1>2 DEF Phases, Looped
<1>5. Taking'
  BY <1>1 DEF Taking
<1>6. Staged' /\ Stored'
  BY <1>1, <1>2 DEF Staged, Stored, Dag
<1>7. Chain'
  BY <1>1, <1>2 DEF Chain, Parallel, Dag
<1>8. DependenciesFirst' /\ DagInputs'
  BY <1>1, <1>2 DEF DependenciesFirst, PrerequisitesTaken, DagInputs
<1>9. DagVerdict' /\ LoopReport' /\ ParallelVerdict'
  BY <1>1 DEF DagVerdict, LoopReport, ParallelVerdict
<1> QED
  BY <1>3, <1>4, <1>5, <1>6, <1>7, <1>8, <1>9

(* A failure ends an ordered run at once, a parallel one at the end.       *)
LEMMA StepFailsKeepsInv ==
  ASSUME IInv, NEW k \in DOMAIN log, StepFails(k)
  PROVE  IInv'
<1> USE DEF IInv
<1> DEFINE s == log[k].step
<1>1. /\ UNCHANGED <<mode, steps, deps, loopContinue, run, api, ctxDone,
                     iteration, loopInput, plan, pos, executed, current>>
      /\ log[k].outcome = "running"
      /\ log' = [log EXCEPT ![k].outcome = "failed"]
      /\ stepResults' = IF api = "Run" THEN [stepResults EXCEPT ![s] = {}]
                        ELSE stepResults
      /\ Parallel => UNCHANGED <<stage, verdict, info>>
      /\ ~Parallel => Return("failed", iteration + 1, FailureReason)
  BY DEF StepFails, runVars, Return
<1>2. /\ stage = "steps" /\ log[k].it = iteration
      /\ Parallel \/ k = Len(log)
      /\ log' \in Seq(Entry) /\ Closes(log, log', k, "failed")
  BY <1>1, Settled
<1>3. k \in 1..Len(log) /\ s \in Steps /\ Len(log) \in Nat
  BY Entries
<1>4. /\ \A i \in 1..Len(log') : log'[i].step \in Range(plan)
      /\ \A i, j \in 1..Len(log') :
           log'[i].step = log'[j].step /\ log'[i].it = log'[j].it => i = j
      /\ \A i \in 1..Len(log') :
           log'[i].outcome = "running" => i # k /\ log[i].outcome = "running"
      /\ DependenciesFirst' /\ DagInputs'
      /\ Iterated(log, iteration - 1) => Iterated(log', iteration - 1)
      /\ \A m \in 0..(Len(log) - 1) : k = Len(log) =>
           Left(log', m, run) = Left(log, m, run)
  BY <1>1, <1>2, SettledKeeps
<1>5. /\ Len(log') = Len(log)
      /\ \A i \in 1..Len(log) :
           log'[i].it = log[i].it /\ log'[i].input = log[i].input
      /\ log'[k].step = s /\ log'[k].outcome = "failed"
  BY <1>2, <1>3 DEF Closes
<1>6. ~Parallel =>
        /\ stage' = "returned" /\ verdict' = "failed"
        /\ info' = IF mode = "loop" /\ api = "Run"
                     THEN [total |-> iteration + 1, reason |-> FailureReason]
                     ELSE info
  BY <1>1 DEF Return
<1>7. Typed'
  <2>1. stepResults' \in [Steps -> SUBSET Piece]
    BY <1>1 DEF Typed
  <2>2. /\ stage' \in {"idle", "condition", "steps", "returned"}
        /\ verdict' \in Verdicts /\ (verdict' = "none" <=> stage' # "returned")
    BY <1>1, <1>6 DEF Typed, Verdicts
  <2>3. info'.total \in 0..MaxIterations /\ info'.reason \in Reasons
    <3>1. FailureReason \in Reasons
      BY DEF FailureReason, Reasons
    <3>2. mode = "loop" => iteration + 1 \in 0..MaxIterations
      BY <1>2, EarlierIterations
    <3>3. info.total \in 0..MaxIterations /\ info.reason \in Reasons
      BY DEF Typed
    <3> QED
      BY <1>1, <1>6, <3>1, <3>2, <3>3
  <2> QED
    BY <1>1, <1>2, <1>4, <2>1, <2>2, <2>3 DEF Typed
<1>8. Phases'
  BY <1>1, <1>2, <1>5, <1>6 DEF Phases
<1>9. Taking'
  <2>1. ASSUME NEW i \in 1..Len(log'), log'[i].outcome = "running"
        PROVE  /\ stage' = "steps" /\ log'[i].it = iteration'
               /\ Parallel' \/ i = Len(log')
    <3>1. i \in 1..Len(log) /\ i # k /\ log[i].outcome = "running"
      BY <1>4, <1>5, <2>1
    <3>2. log[i].it = iteration /\ (Parallel \/ i = Len(log))
      BY <3>1 DEF Taking
    <3>3. Parallel
      BY <1>2, <3>1, <3>2
    <3> QED
      BY <1>1, <1>2, <1>5, <3>1, <3>2, <3>3 DEF Parallel
  <2> QED
    BY <1>4, <2>1 DEF Taking
<1>10. Staged'
  <2>1. Taken' = Taken
    BY <1>1, <1>2 DEF Taken, Closes
  <2> QED
    BY <1>1, <1>6, <2>1 DEF Staged, Dag, AllTaken
<1>11. Stored'
  <2>1. ASSUME NEW x \in Steps, NEW p \in stepResults'[x] PROVE p.by = x
    BY <1>1, <2>1 DEF Typed, Stored
  <2>2. Dag => stage' = "returned"
    BY <1>6 DEF Dag, Parallel
  <2> QED
    BY <1>1, <2>1, <2>2 DEF Stored, Dag
<1>12. Chain'
  <2> SUFFICES ASSUME ~Parallel, ~Dag PROVE Chain'
    BY <1>1 DEF Chain, Parallel, Dag
  <2>1. k = Len(log)
    BY <1>2
  <2>2. \A i \in 1..Len(log') : log'[i].input = Left(log', i - 1, run)
    <3> TAKE i \in 1..Len(log')
    <3>1. i \in 1..Len(log) /\ i - 1 \in 0..(Len(log) - 1)
      BY <1>3, <1>5
    <3>2. log[i].input = Left(log, i - 1, run)
      BY <3>1 DEF Chain
    <3> QED
      BY <1>4, <1>5, <2>1, <3>1, <3>2
  <2> QED
    BY <1>1, <1>6, <2>2 DEF Chain
<1>13. Looped'
  BY <1>1, <1>4, <1>5, <1>6 DEF Looped
<1>14. LoopReport'
  <2> SUFFICES ASSUME mode = "loop", ~Parallel PROVE LoopReport'
    BY <1>1 DEF LoopReport, Parallel
  <2>1. /\ Iterated(log, iteration - 1) /\ iteration \in Nat
        /\ \A i \in DOMAIN log : log[i].it < iteration + 1
    BY <1>2, EarlierIterations
  <2>2. (iteration + 1) - 2 = iteration - 1
    BY <2>1
  <2>3. \A i \in DOMAIN log' : log'[i].it < iteration + 1
    BY <1>2, <2>1 DEF Closes
  <2>4. DOMAIN log' = 1..Len(log')
    BY <1>2 DEF Closes
  <2>5. Iterated(log', (iteration + 1) - IF "failed" = "ok" THEN 1 ELSE 2)
    BY <1>4, <2>1, <2>2
  <2>6. FailureReason \in {"context_cancelled", "error"}
        /\ (FailureReason = "context_cancelled" => ctxDone)
    BY DEF FailureReason
  <2> QED
    BY <1>1, <2>3, <2>4, <2>5, <2>6, LoopReports
<1>15. DagVerdict' /\ ParallelVerdict'
  <2>1. stage' = "returned" => verdict' = "failed" /\ ~Parallel
    BY <1>2, <1>6, <1>1
  <2> QED
    BY <1>1, <2>1 DEF DagVerdict, ParallelVerdict, Parallel
<1> QED
  BY <1>4, <1>7, <1>8, <1>9, <1>10, <1>11, <1>12, <1>13, <1>14, <1>15

LEMMA ParallelEndsKeepsInv ==
  ASSUME IInv, ParallelEnds
  PROVE  IInv'
<1> USE DEF IInv
<1> DEFINE failed == \E i \in DOMAIN log : log[i].outcome = "failed"
           v == IF failed THEN "failed" ELSE "ok"
<1>1. /\ stage = "steps" /\ Parallel /\ Ready = {} /\ ~Busy
      /\ Return(v, 0, "none") /\ UNCHANGED <<stepResults, log>>
      /\ current' = IF failed /\ api = "RunStream" THEN {}
                    ELSE UNION {Contribution(log[i]) : i \in DOMAIN log}
  BY DEF ParallelEnds, AllBack
<1>2. /\ UNCHANGED <<mode, api, run, iteration, plan>>
      /\ stage' = "returned" /\ verdict' = v /\ mode = "parallel"
  BY <1>1 DEF Return, Parallel
<1>3. Taken = Range(plan)
  <2>1. \A i \in 1..Len(plan) : plan[i] \in Taken
    BY <1>1, <1>2, NothingLeft DEF Eligible, Dag
  <2> QED
    BY ZenonT(40), <2>1, Plans, TakenOnes
<1>4. ASSUME NEW i \in DOMAIN log
      PROVE  /\ Contribution(log[i]) \subseteq Piece
             /\ api = "Run" => Contribution(log[i]) =
                  IF log[i].outcome = "ok" THEN Answer(log[i].step) ELSE {}
  BY Entries, Texts DEF Contribution
<1>5. current' \subseteq Piece
  BY <1>1, <1>4
<1>6. ParallelVerdict'
  <2> SUFFICES ASSUME api = "Run" PROVE ParallelVerdict'
    BY <1>2 DEF ParallelVerdict
  <2>1. current' = UNION {Contribution(log[i]) : i \in DOMAIN log}
    BY <1>1
  <2>2. current' = UNION {Answer(log[i].step) :
                            i \in {j \in DOMAIN log : log[j].outcome = "ok"}}
    BY <1>4, <2>1
  <2>3. Taken' = Taken /\ ~Busy'
    BY <1>1, <1>2 DEF Taken, Busy
  <2>4. verdict' = "failed" <=>
          \E i \in DOMAIN log' : log'[i].outcome = "failed"
    BY <1>1, <1>2
  <2>5. (current = UNION {Answer(log[i].step) :
                     i \in {j \in DOMAIN log : log[j].outcome = "ok"}})'
    BY <1>1, <1>2, <2>2 DEF Answer
  <2>6. Taken' = Range(plan')
    BY <1>2, <1>3, <2>3
  <2> QED
    BY <2>3, <2>4, <2>5, <2>6 DEF ParallelVerdict
<1>7. DagVerdict' /\ LoopReport'
  BY <1>2 DEF DagVerdict, LoopReport, Dag
<1>8. v \in Verdicts \ {"none"} /\ "none" \in Reasons
  BY DEF Verdicts, Reasons
<1> QED
  BY <1>1, <1>2, <1>5, <1>6, <1>7, <1>8, ReturnKeepsInv

-----------------------------------------------------------------------------
(* What a DAG run says                                                     *)

(* A stage that took nothing: each step left over waits for another one    *)
(* left over, or for something that is no step of the plan.                *)
LEMMA DeadlockIsReal ==
  ASSUME IInv, DagDeadlock
  PROVE  Unsolvable
<1> USE DEF IInv
<1>1. /\ stage = "steps" /\ Ready = {} /\ ~Busy /\ Dag /\ ~Parallel
      /\ plan # <<>> /\ ~executed
  BY DEF DagDeadlock, PassOver, Dag, Parallel
<1>2. pos = 1 /\ Taken # Range(plan)
  BY <1>1 DEF Staged, AllTaken
<1> DEFINE waiting == Range(plan) \ Taken
<1>3. waiting \in (SUBSET Range(plan)) \ {{}}
  BY <1>2, TakenOnes
<1>4. ASSUME NEW s \in waiting PROVE ~(deps[s] \subseteq Range(plan) \ waiting)
  <2>1. PICK i \in 1..Len(plan) : plan[i] = s
    BY Plans
  <2>2. ~Eligible(s)
    BY <1>1, <1>2, <2>1, NothingLeft
  <2>3. ~(deps[s] \subseteq Taken)
    BY <2>2 DEF Eligible
  <2> QED
    BY <2>3
<1> QED
  BY <1>3, <1>4 DEF Unsolvable

(* Every step was taken, each after what it depends on: the first one of   *)
(* any set of steps does not wait for the others.                          *)
LEMMA SuccessIsReal ==
  ASSUME IInv, Dag, AllTaken
  PROVE  ~Unsolvable /\ Len(log) = Len(plan)
<1> USE DEF IInv
<1>1. mode = "dag" /\ api = "Run" /\ iteration = 0 /\ Taken = Range(plan)
  BY DEF Dag, Phases, AllTaken
<1>2. /\ DOMAIN log = 1..Len(log) /\ Len(log) \in Nat
      /\ \A i \in 1..Len(log) : /\ log[i].it = 0 /\ log[i].step \in Steps
                                /\ log[i].step \in Range(plan)
  BY <1>1, WorkflowAssumption, Entries DEF Phases
<1>3. ~Unsolvable
  <2> SUFFICES ASSUME NEW waiting \in (SUBSET Range(plan)) \ {{}},
                      \A s \in waiting :
                        ~(deps[s] \subseteq Range(plan) \ waiting)
               PROVE  FALSE
    BY DEF Unsolvable
  <2> DEFINE W == {i \in 1..Len(log) : log[i].step \in waiting}
  <2>1. W \in SUBSET (1..Len(log)) /\ W # {}
    <3>1. PICK s \in waiting : s \in Taken
      BY <1>1
    <3>2. PICK i \in 1..Len(log) : log[i].step = s
      BY <3>1, TakenOnes
    <3> QED
      BY <3>1, <3>2
  <2>2. PICK i \in W : \A j \in W : i <= j
    <3> HIDE DEF W
    <3> QED
      BY <1>2, <2>1, Least
  <2>3. ASSUME NEW x \in deps[log[i].step] PROVE x \in Range(plan) \ waiting
    <3>1. PICK j \in 1..(i - 1) : log[j].step = x
      BY <1>1, <1>2 DEF DependenciesFirst, PrerequisitesTaken
    <3>2. j \in 1..Len(log) /\ j < i
      BY <1>2
    <3>3. j \notin W
      BY <2>2, <3>2
    <3> QED
      BY <1>2, <3>1, <3>2, <3>3
  <2> QED
    BY <2>3
<1>4. Len(log) = Len(plan)
  <2> DEFINE names == [i \in 1..Len(log) |-> log[i].step]
  <2>1. names \in Seq(Steps) /\ Len(names) = Len(log)
    BY <1>2, SeqDef, LenProperties
  <2>2. IsInjective(names)
    <3>1. \A i, j \in 1..Len(log) : names[i] = names[j] => i = j
      BY <1>2 DEF Taking
    <3> QED
      BY <3>1 DEF IsInjective
  <2>3. Range(names) = Range(plan)
    BY <1>1, <1>2, TakenOnes DEF Range
  <2>4. plan \in Seq(Steps) /\ IsInjective(plan)
    BY DEF Typed
  <2>5. Cardinality(Range(names)) = Len(names)
    <3> HIDE DEF names
    <3> QED
      BY <2>1, <2>2, DistinctLen
  <2>6. Cardinality(Range(plan)) = Len(plan)
    BY <2>4, DistinctLen
  <2> QED
    BY <2>1, <2>3, <2>5, <2>6
<1> QED
  BY <1>3, <1>4

LEMMA DagReturnsKeepsInv ==
  ASSUME IInv, DagDeadlock \/ DagEnds
  PROVE  IInv'
<1> USE DEF IInv
<1>1. PICK v \in {"deadlock", "cancelled", "ok"} :
        /\ Return(v, 0, "none")
        /\ v = "deadlock" => DagDeadlock
        /\ v = "ok" => AllTaken
  <2>1. CASE DagDeadlock
    BY <2>1 DEF DagDeadlock
  <2>2. CASE DagEnds
    <3>1. /\ Return(IF ctxDone /\ plan # <<>> THEN "cancelled" ELSE "ok",
                    0, "none")
          /\ AllTaken \/ ctxDone
      BY <2>2 DEF DagEnds
    <3>2. plan = <<>> => AllTaken
      <4>1. ASSUME plan = <<>> PROVE Range(plan) = {}
        BY <4>1, Plans
      <4> QED
        BY <4>1, TakenOnes DEF AllTaken
    <3> QED
      BY <3>1, <3>2
  <2> QED
    BY <2>1, <2>2
<1>2. /\ stage = "steps" /\ ~Busy /\ Dag /\ mode = "dag" /\ ~Parallel
      /\ UNCHANGED <<stepResults, current, log>>
  BY DEF DagDeadlock, DagEnds, PassOver, Dag, Parallel
<1>3. /\ UNCHANGED <<mode, api, iteration, plan, deps>>
      /\ stage' = "returned" /\ verdict' = v
  BY <1>1 DEF Return
<1>4. /\ v = "deadlock" => Unsolvable
      /\ v = "ok" => ~Unsolvable /\ AllTaken /\ Len(log) = Len(plan)
  BY <1>1, <1>2, DeadlockIsReal, SuccessIsReal
<1>5. DagVerdict'
  <2>1. /\ Unsolvable' <=> Unsolvable
        /\ AllTaken' <=> AllTaken
    BY <1>2, <1>3 DEF Unsolvable, AllTaken, Taken
  <2> QED
    BY <1>2, <1>3, <1>4, <2>1 DEF DagVerdict
<1>6. LoopReport' /\ ParallelVerdict'
  BY <1>2, <1>3 DEF LoopReport, ParallelVerdict, Parallel
<1>7. /\ v \in Verdicts \ {"none"} /\ "none" \in Reasons
      /\ current' \subseteq Piece
  BY <1>2 DEF Verdicts, Reasons, Typed
<1> QED
  BY <1>1, <1>2, <1>5, <1>6, <1>7, ReturnKeepsInv

LEMMA DagStageEndsKeepsInv ==
  ASSUME IInv, DagStageEnds
  PROVE  IInv'
<1> USE DEF IInv
<1>1. /\ UNCHANGED <<mode, steps, deps, stepResults, loopContinue, info, run,
                     api, stage, verdict, ctxDone, iteration, loopInput, plan,
                     current, log>>
      /\ pos' = 1 /\ executed' = FALSE
      /\ stage = "steps" /\ Dag /\ ~AllTaken /\ mode # "loop"
  BY DEF DagStageEnds, PassOver, Dag, contextVars, runVars
<1>2. Typed'
  <2>1. pos' \in 1..(Len(plan') + 1)
    BY <1>1, Plans
  <2> QED
    BY <1>1, <2>1 DEF Typed
<1>3. Phases' /\ Taking' /\ Looped'
  BY <1>1 DEF Phases, Taking, Looped, Parallel
<1>4. Staged'
  BY <1>1 DEF Staged, AllTaken, Taken
<1>5. Stored' /\ Chain'
  BY <1>1 DEF Stored, Chain, Parallel, Dag, Answer
<1>6. DependenciesFirst' /\ DagInputs'
  BY <1>1 DEF DependenciesFirst, PrerequisitesTaken, DagInputs, Answer
<1>7. DagVerdict' /\ LoopReport' /\ ParallelVerdict'
  BY <1>1 DEF DagVerdict, LoopReport, ParallelVerdict
<1> QED
  BY <1>2, <1>3, <1>4, <1>5, <1>6, <1>7

-----------------------------------------------------------------------------
(* The theorems                                                            *)

LEMMA NextKeepsInv ==
  ASSUME IInv, [Next]_vars
  PROVE  IInv'
<1>1. CASE \E s \in Steps, d \in IF mode = "dag" THEN DepChoices ELSE {{}} :
             AddStep(s, d)
  BY <1>1, AddStepKeepsInv
<1>2. CASE \E a \in {"Run", "RunStream"}, cancelled \in BOOLEAN :
             BeginRun(a, cancelled)
  BY <1>2, BeginRunKeepsInv
<1>3. CASE SetLoopContinue \/ CancelContext \/ UNCHANGED vars
  BY <1>3, FlagStepsKeepInv
<1>4. CASE RunStep
  <2>1. CASE \E i \in DOMAIN plan :
               StepBegins(i) \/ StepSkipped(i) \/ StepRefused(i)
    BY <2>1, TakingKeepsInv
  <2>2. CASE \E k \in DOMAIN log : StepSucceeds(k) \/ StepFails(k)
    BY <2>2, StepSucceedsKeepsInv, StepFailsKeepsInv
  <2>3. CASE StopsAtStep
    BY <2>3, StopsAtStepKeepsInv
  <2>4. CASE SequentialEnds
    BY <2>4, SequentialEndsKeepsInv
  <2>5. CASE ParallelEnds
    BY <2>5, ParallelEndsKeepsInv
  <2>6. CASE DagDeadlock \/ DagEnds
    BY <2>6, DagReturnsKeepsInv
  <2>7. CASE DagStageEnds
    BY <2>7, DagStageEndsKeepsInv
  <2>8. CASE IterationBegins
    BY <2>8, IterationBeginsKeepsInv
  <2>9. CASE ConditionMet \/ ConditionFails
    BY <2>9, ConditionEndsKeepsInv
       DEF ConditionMet, ConditionFails, ConditionEnds
  <2>10. CASE LimitReached
    BY <2>10, ConditionEndsKeepsInv DEF LimitReached
  <2>11. CASE NextIteration
    BY <2>11, NextIterationKeepsInv
  <2>12. CASE LoopCancelled \/ LegacyExit \/ Converged
    BY <2>12, IterationEndsKeepsInv
  <2> QED
    BY <1>4, <2>1, <2>2, <2>3, <2>4, <2>5, <2>6, <2>7, <2>8, <2>9, <2>10,
       <2>11, <2>12 DEF RunStep
<1> QED
  BY <1>1, <1>2, <1>3, <1>4 DEF Next

LEMMA AlwaysIInv == Spec => []IInv
<1>1. Init => IInv
  BY Initially
<1>2. IInv /\ [Next]_vars => IInv'
  BY NextKeepsInv
<1> QED
  BY <1>1, <1>2, PTL DEF Spec

LEMMA TypesHold ==
  ASSUME IInv
  PROVE  TypeOK
<1>1. /\ DOMAIN log = 1..Len(log)
      /\ \A i \in DOMAIN log : /\ log[i].step \in Range(plan)
                               /\ log[i].it \in 0..iteration
                               /\ log[i].input \subseteq Piece
                               /\ log[i].outcome \in Outcomes
  <2>1. iteration \in Nat
    BY WorkflowAssumption DEF IInv, Typed
  <2> QED
    BY <2>1, Entries DEF IInv, Phases
<1>2. Range(steps) \subseteq Steps
  BY Plans DEF IInv
<1> QED
  BY <1>1, <1>2 DEF TypeOK, IInv, Typed

(* For any steps, dependencies and limit, and however the application      *)
(* answers: no step of a DAG is taken before what it depends on, a         *)
(* deadlock is reported only for dependencies that no order respects, and  *)
(* success only after each step was taken once; and a loop reports the     *)
(* iterations it began and the way it ended.                               *)
THEOREM WorkflowCorrect == Spec => []WorkflowInv
<1>1. IInv => WorkflowInv
  BY TypesHold DEF IInv, WorkflowInv
<1> QED
  BY <1>1, AlwaysIInv, PTL

(* The input of a DAG step has what its dependencies answered in this run, *)
(* and from an earlier run only what stands for a dependency it skipped.   *)
THEOREM InputsOfDag == Spec => []DagInputs
<1>1. IInv => DagInputs
  BY DEF IInv
<1> QED
  BY <1>1, AlwaysIInv, PTL

(* A sequential step, also of a loop, gets the last answer given before it *)
(* in the run, however many steps and iterations were skipped since.       *)
THEOREM InputsOfChain == Spec => []Chained
<1>1. IInv => Chained
  <2> SUFFICES ASSUME IInv, ~Parallel, ~Dag, NEW i \in DOMAIN log
               PROVE  log[i].input = Left(log, i - 1, run)
    BY DEF Chained, Left, LastOk, Oks, Given
  <2>1. i \in 1..Len(log)
    BY Entries DEF IInv
  <2> QED
    BY <2>1 DEF IInv, Chain
<1> QED
  BY <1>1, AlwaysIInv, PTL

(* A parallel run returns when every step has ended, fails if and only if  *)
(* one of them did, and returns exactly the answers given.                 *)
THEOREM ParallelCorrect == Spec => []ParallelVerdict
<1>1. IInv => ParallelVerdict
  BY DEF IInv
<1> QED
  BY <1>1, AlwaysIInv, PTL
=============================================================================
