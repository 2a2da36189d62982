------------------------------ MODULE Workflow ------------------------------
(***************************************************************************)
(* basicWorkflow of v1beta/workflow.go: the steps AddStep collects, run    *)
(* one after the other, all at once, by their dependencies, or in a loop,  *)
(* by Run or by RunStream.  The context of the workflow (StepResults,      *)
(* Variables) outlives a run, and the next run of the same workflow starts *)
(* with what the last one left in it.                                      *)
(*                                                                         *)
(* A text is the set of the pieces it was put together from: the input of  *)
(* a run, or what an agent answered; {} is the empty string.  Agents,      *)
(* conditions and transformations are the application's: an agent answers  *)
(* or fails when it likes, a condition says what it likes, and a           *)
(* transformation leaves a text its origin.  One run at a time.            *)
(***************************************************************************)
EXTENDS Integers, Sequences, FiniteSets, Functions

CONSTANTS
  Steps,         \* names of steps
  DepChoices,    \* the sets of names a DAG step may depend on
  Modes,         \* the modes a workflow may be configured with
  MaxIterations, \* the loop's limit
  MaxSteps,      \* bound: steps of a workflow in each mode
  MaxRuns        \* bound: runs of one workflow

ASSUME WorkflowAssumption ==
  /\ IsFiniteSet(Steps)
  /\ DepChoices \subseteq SUBSET Steps
  /\ Modes \subseteq {"sequential", "parallel", "dag", "loop"}
  /\ MaxIterations \in Nat \ {0}
  /\ MaxSteps \in [Modes -> Nat]
  /\ MaxRuns \in Nat

VARIABLES
  mode,
  steps,        \* the steps added so far
  deps,
  stepResults,  \* for each step, the text a later step finds under its name
  loopContinue, \* the variable of that name; TRUE also if it was never set
  info,         \* iteration_info of the last loop Run
  run,          \* the number of the run
  api,          \* "Run" or "RunStream"
  stage,        \* "idle", "condition", "steps", "returned"
  verdict,      \* what the run returned
  ctxDone,
  plan,         \* the steps this pass goes through
  pos,          \* where the pass is
  executed,     \* some step was taken in this pass
  iteration,
  loopInput,    \* the loop's currentInput
  current,      \* currentInput of a pass, finalOutput of a DAG or parallel run
  log           \* the steps taken in this run, their inputs and outcomes

contextVars == <<stepResults, loopContinue, info>>
runVars == <<run, api, stage, verdict, ctxDone, iteration, loopInput>>
passVars == <<plan, pos, executed, current, log>>
vars == <<mode, steps, deps, contextVars, runVars, passVars>>

Piece == [by : Steps \cup {"caller"}, run : 0..MaxRuns, it : 0..MaxIterations]
Text == SUBSET Piece
Outcomes == {"running", "ok", "failed", "skipped"}
Verdicts == {"none", "ok", "failed", "deadlock", "cancelled"}
Reasons == {"none", "max_iterations", "condition_met", "error",
            "context_cancelled"}

TypeOK ==
  /\ mode \in Modes
  /\ Range(steps) \subseteq Steps /\ IsInjective(steps)
  /\ \A s \in Steps : deps[s] \in DepChoices \cup {{}}
  /\ \A s \in Steps : stepResults[s] \subseteq Piece
  /\ loopContinue \in BOOLEAN
  /\ info.total \in 0..MaxIterations /\ info.reason \in Reasons
  /\ run \in 0..MaxRuns /\ api \in {"Run", "RunStream"}
  /\ stage \in {"idle", "condition", "steps", "returned"}
  /\ verdict \in Verdicts /\ (verdict = "none" <=> stage # "returned")
  /\ ctxDone \in BOOLEAN /\ executed \in BOOLEAN
  /\ Range(plan) \subseteq Range(steps) /\ IsInjective(plan)
  /\ pos \in 1..Len(plan) + 1
  /\ iteration \in 0..MaxIterations
  /\ loopInput \subseteq Piece /\ current \subseteq Piece
  /\ \A i \in DOMAIN log : /\ log[i].step \in Range(plan)
                           /\ log[i].it \in 0..iteration
                           /\ log[i].input \subseteq Piece
                           /\ log[i].outcome \in Outcomes

Given(r) == {[by |-> "caller", run |-> r, it |-> 0]}
Answer(s) == {[by |-> s, run |-> run, it |-> iteration]}

Init ==
  /\ mode \in Modes
  /\ steps = <<>>
  /\ deps = [s \in Steps |-> {}]
  /\ stepResults = [s \in Steps |-> {}]
  /\ loopContinue = TRUE
  /\ info = [total |-> 0, reason |-> "none"]
  /\ run = 0 /\ api = "Run" /\ stage = "idle" /\ verdict = "none"
  /\ ctxDone = FALSE
  /\ plan = <<>> /\ pos = 1 /\ executed = FALSE
  /\ iteration = 0
  /\ loopInput = {} /\ current = {}
  /\ log = <<>>
-----------------------------------------------------------------------------
(* The application                                                         *)

NewName(s) == s \notin Range(steps)

(* A name that is taken is refused.  A pass that is under way has its own  *)
(* copy of the steps.                                                      *)
AddStep(s, d) ==
  /\ Len(steps) < MaxSteps[mode]
  /\ NewName(s)
  /\ steps' = Append(steps, s)
  /\ deps' = [deps EXCEPT ![s] = d]
  /\ UNCHANGED <<mode, contextVars, runVars, passVars>>

Running == stage \in {"condition", "steps"}

(* The condition of a step sets the variable loop_continue.                *)
SetLoopContinue ==
  /\ mode = "loop" /\ stage = "steps"
  /\ loopContinue' = ~loopContinue
  /\ UNCHANGED <<mode, steps, deps, stepResults, info, runVars, passVars>>

(* The caller's context ends, or the configured timeout of Run.            *)
CancelContext ==
  /\ Running /\ ~ctxDone
  /\ ctxDone' = TRUE
  /\ UNCHANGED <<mode, steps, deps, contextVars, run, api, stage, verdict,
                 iteration, loopInput, passVars>>
-----------------------------------------------------------------------------
(* A pass over the steps                                                   *)

StartPass(input) ==
  /\ plan' = steps
  /\ pos' = 1
  /\ executed' = FALSE
  /\ current' = input

BeginRun(a, cancelled) ==
  /\ ~Running /\ run < MaxRuns
  /\ run' = run + 1
  /\ api' = a
  /\ ctxDone' = cancelled
  /\ IF a = "RunStream" /\ cancelled
       THEN stage' = "returned" /\ verdict' = "cancelled"
       ELSE /\ stage' = IF mode = "loop" THEN "condition" ELSE "steps"
            /\ verdict' = "none"
  /\ iteration' = 0
  /\ loopInput' = Given(run + 1)
  /\ StartPass(Given(run + 1))
  /\ log' = <<>>
  /\ UNCHANGED <<mode, steps, deps, contextVars>>

Parallel == mode = "parallel"

(* executeDAGStreaming hands over to executeSequentialStreaming.           *)
Dag == mode = "dag" /\ api = "Run"

Taken == {log[i].step : i \in {j \in DOMAIN log : log[j].it = iteration}}
Busy == \E i \in DOMAIN log : log[i].outcome = "running"

Eligible(s) ==
  /\ s \notin Taken
  /\ Dag => deps[s] \subseteq Taken

(* The next step of an ordered pass, any step left of a parallel one.      *)
Ready ==
  LET left == {i \in pos..Len(plan) : Eligible(plan[i])}
  IN IF Parallel
       THEN {i \in DOMAIN plan : Eligible(plan[i])}
       ELSE {i \in left : ~Busy /\ \A j \in left : i <= j}

(* Only a sequential pass looks at the context before each step, and a     *)
(* streamed one.                                                           *)
LooksAtContext == api = "RunStream" \/ ~(Dag \/ Parallel)

StepInput(s) ==
  LET combined == UNION {stepResults[d] : d \in deps[s]}
  IN CASE Parallel -> Given(run)
       [] Dag -> IF combined = {} THEN Given(run) ELSE combined
       [] OTHER -> current

Enter(i, outcome) ==
  /\ stage = "steps"
  /\ i \in Ready
  /\ pos' = IF Parallel THEN pos ELSE i + 1
  /\ log' = Append(log, [step |-> plan[i], it |-> iteration,
                         input |-> StepInput(plan[i]), outcome |-> outcome])

Take(i, outcome) == Enter(i, outcome) /\ executed' = TRUE

(* The agent of the step is called.                                        *)
StepBegins(i) ==
  /\ LooksAtContext => ~ctxDone
  /\ Take(i, "running")
  /\ UNCHANGED <<mode, steps, deps, contextVars, runVars, plan, current>>

(* Slip: a stage that only skips does not count as progress.               *)
StepSkippedUnnoticed(i) ==
  /\ LooksAtContext => ~ctxDone
  /\ Enter(i, "skipped")
  /\ UNCHANGED <<mode, steps, deps, contextVars, runVars, plan, executed,
                 current>>

(* Its condition says no.  A streamed parallel step passes its input on.   *)
StepSkipped(i) ==
  /\ LooksAtContext => ~ctxDone
  /\ Take(i, "skipped")
  /\ UNCHANGED <<mode, steps, deps, contextVars, runVars, plan, current>>

(* A streamed parallel step fails when the context is done.                *)
StepRefused(i) ==
  /\ Parallel /\ LooksAtContext /\ ctxDone
  /\ Take(i, "failed")
  /\ UNCHANGED <<mode, steps, deps, contextVars, runVars, plan, current>>

(* Slip: the result is not kept for the steps that depend on it.           *)
StepSucceedsUnstored(k) ==
  LET s == log[k].step
  IN /\ log[k].outcome = "running"
     /\ log' = [log EXCEPT ![k].outcome = "ok"]
     /\ current' = IF Parallel THEN current ELSE Answer(s)
     /\ UNCHANGED <<mode, steps, deps, contextVars, runVars, plan, pos,
                    executed>>

StepSucceeds(k) ==
  LET s == log[k].step
  IN /\ log[k].outcome = "running"
     /\ log' = [log EXCEPT ![k].outcome = "ok"]
     /\ stepResults' = [stepResults EXCEPT ![s] = Answer(s)]
     /\ current' = IF Parallel THEN current ELSE Answer(s)
     /\ UNCHANGED <<mode, steps, deps, loopContinue, info, runVars, plan, pos,
                    executed>>

(* The run returns; Run leaves the iteration_info of a loop behind.        *)
Return(v, total, reason) ==
  /\ stage' = "returned"
  /\ verdict' = v
  /\ info' = IF mode = "loop" /\ api = "Run"
               THEN [total |-> total, reason |-> reason] ELSE info
  /\ UNCHANGED <<mode, steps, deps, loopContinue, run, api, ctxDone,
                 iteration, loopInput, plan, pos, executed>>

FailureReason == IF ctxDone THEN "context_cancelled" ELSE "error"

(* Run stores a failed result, which later steps pass over; a streamed     *)
(* step that fails leaves the entry as it was.                             *)
StepFails(k) ==
  /\ log[k].outcome = "running"
  /\ log' = [log EXCEPT ![k].outcome = "failed"]
  /\ IF api = "Run"
       THEN stepResults' = [stepResults EXCEPT ![log[k].step] = {}]
       ELSE UNCHANGED stepResults
  /\ UNCHANGED current
  /\ IF Parallel
       THEN UNCHANGED <<mode, steps, deps, loopContinue, info, runVars, plan,
                        pos, executed>>
       ELSE Return("failed", iteration + 1, FailureReason)

StopsAtStep ==
  /\ stage = "steps"
  /\ ~Parallel /\ LooksAtContext /\ ctxDone
  /\ Ready # {}
  /\ Return("cancelled", iteration + 1, "context_cancelled")
  /\ UNCHANGED <<stepResults, current, log>>

PassOver == stage = "steps" /\ Ready = {} /\ ~Busy

SequentialEnds ==
  /\ PassOver /\ ~Parallel /\ ~Dag /\ mode # "loop"
  /\ Return("ok", 0, "none")
  /\ UNCHANGED <<stepResults, current, log>>

(* What a step adds to the output of a parallel run: its own answer, or in *)
(* a stream, if it was skipped, the input.                                 *)
Contribution(entry) ==
  CASE entry.outcome = "ok" -> Answer(entry.step)
    [] entry.outcome = "skipped" /\ api = "RunStream" -> entry.input
    [] OTHER -> {}

(* Slip: the goroutines are started but not waited for.                    *)
AllStarted == Ready = {}

AllBack == Ready = {} /\ ~Busy

ParallelEnds ==
  LET failed == \E i \in DOMAIN log : log[i].outcome = "failed"
  IN /\ stage = "steps" /\ Parallel
     /\ AllBack
     /\ Return(IF failed THEN "failed" ELSE "ok", 0, "none")
     /\ current' = IF failed /\ api = "RunStream" THEN {}
                   ELSE UNION {Contribution(log[i]) : i \in DOMAIN log}
     /\ UNCHANGED <<stepResults, log>>

AllTaken == Taken = Range(plan)

(* Slip: a stage without progress is followed by another one.              *)
DagDeadlockUnseen ==
  /\ PassOver /\ Dag
  /\ plan # <<>> /\ ~executed
  /\ pos' = 1
  /\ UNCHANGED <<mode, steps, deps, contextVars, runVars, plan, executed,
                 current, log>>

(* Through all the steps and none could be taken: a cycle, or a dependency *)
(* that is no step.                                                        *)
DagDeadlock ==
  /\ PassOver /\ Dag
  /\ plan # <<>> /\ ~executed
  /\ Return("deadlock", 0, "none")
  /\ UNCHANGED <<stepResults, current, log>>

(* A stage has ended; the context is looked at before anything else.       *)
DagEnds ==
  /\ PassOver /\ Dag
  /\ plan = <<>> \/ executed
  /\ AllTaken \/ ctxDone
  /\ Return(IF ctxDone /\ plan # <<>> THEN "cancelled" ELSE "ok", 0, "none")
  /\ UNCHANGED <<stepResults, current, log>>

DagStageEnds ==
  /\ PassOver /\ Dag
  /\ executed /\ ~AllTaken /\ ~ctxDone
  /\ pos' = 1
  /\ executed' = FALSE
  /\ UNCHANGED <<mode, steps, deps, contextVars, runVars, plan, current, log>>
-----------------------------------------------------------------------------
(* The loop                                                                *)

(* Continue: there is no condition, or it says so.                         *)
IterationBegins ==
  /\ stage = "condition"
  /\ iteration < MaxIterations
  /\ stage' = "steps"
  /\ StartPass(loopInput)
  /\ UNCHANGED <<mode, steps, deps, contextVars, run, api, verdict, ctxDone,
                 iteration, loopInput, log>>

(* The condition stops the loop or fails.  A stream asks it only after an  *)
(* iteration.                                                              *)
ConditionEnds(v, reason) ==
  /\ stage = "condition"
  /\ iteration < MaxIterations
  /\ api = "RunStream" => iteration > 0
  /\ Return(v, iteration, reason)
  /\ current' = loopInput
  /\ UNCHANGED <<stepResults, log>>

ConditionMet == ConditionEnds("ok", "condition_met")
ConditionFails == ConditionEnds("failed", "error")

LimitReached ==
  /\ stage = "condition"
  /\ iteration = MaxIterations
  /\ Return("ok", iteration, "max_iterations")
  /\ current' = loopInput
  /\ UNCHANGED <<stepResults, log>>

IterationOver == PassOver /\ mode = "loop"

(* Slip: every iteration starts from the caller's input.                   *)
NextIterationAfresh ==
  /\ IterationOver
  /\ api = "Run" => ~ctxDone /\ loopContinue
  /\ stage' = "condition"
  /\ iteration' = iteration + 1
  /\ UNCHANGED <<mode, steps, deps, contextVars, run, api, verdict, ctxDone,
                 loopInput, passVars>>

NextIteration ==
  /\ IterationOver
  /\ api = "Run" => ~ctxDone /\ loopContinue
  /\ stage' = "condition"
  /\ iteration' = iteration + 1
  /\ loopInput' = current
  /\ UNCHANGED <<mode, steps, deps, contextVars, run, api, verdict, ctxDone,
                 passVars>>

LoopCancelled ==
  /\ IterationOver /\ api = "Run" /\ ctxDone
  /\ Return("cancelled", iteration + 1, "context_cancelled")
  /\ UNCHANGED <<stepResults, current, log>>

(* loop_continue is false: the loop breaks out before it takes over the    *)
(* output of the iteration.                                                *)
LegacyExit ==
  /\ IterationOver /\ api = "Run" /\ ~ctxDone /\ ~loopContinue
  /\ Return("ok", iteration + 1, "condition_met")
  /\ current' = loopInput
  /\ UNCHANGED <<stepResults, log>>

(* A streamed loop stops when an output equals the input of the run.       *)
Converged ==
  /\ IterationOver /\ api = "RunStream"
  /\ Return("ok", iteration + 1, "none")
  /\ UNCHANGED <<stepResults, current, log>>
-----------------------------------------------------------------------------
RunStep ==
  \/ \E i \in DOMAIN plan : StepBegins(i) \/ StepSkipped(i) \/ StepRefused(i)
  \/ \E k \in DOMAIN log : StepSucceeds(k) \/ StepFails(k)
  \/ StopsAtStep \/ SequentialEnds \/ ParallelEnds
  \/ DagDeadlock \/ DagEnds \/ DagStageEnds
  \/ IterationBegins \/ ConditionMet \/ ConditionFails \/ LimitReached
  \/ NextIteration \/ LoopCancelled \/ LegacyExit \/ Converged

Next ==
  \/ \E s \in Steps, d \in IF mode = "dag" THEN DepChoices ELSE {{}} :
       AddStep(s, d)
  \/ \E a \in {"Run", "RunStream"}, cancelled \in BOOLEAN :
       BeginRun(a, cancelled)
  \/ SetLoopContinue \/ CancelContext
  \/ RunStep

Spec == Init /\ [][Next]_vars

(* Agents and conditions return.  Nobody has to add a step or start a run. *)
FairSpec == Spec /\ WF_vars(RunStep)
-----------------------------------------------------------------------------
(* Whatever a DAG step depends on was taken before it, and is not running. *)
PrerequisitesTaken ==
  mode = "dag" =>
    \A i \in DOMAIN log : \A d \in deps[log[i].step] :
      \E j \in 1..(i - 1) : log[j].step = d /\ log[j].outcome # "running"

(* executeDAG, workflow.go:1391-1402: Run takes no step of a DAG before    *)
(* the steps it depends on, whatever order they were added in and however  *)
(* many stages it takes.                                                   *)
DependenciesFirst == api = "Run" => PrerequisitesTaken

(* No order of the steps respects the dependencies: some of them wait for  *)
(* each other, or for something that is no step.                           *)
Unsolvable ==
  \E waiting \in (SUBSET Range(plan)) \ {{}} :
    \A s \in waiting : ~(deps[s] \subseteq Range(plan) \ waiting)

(* A DAG run reports a deadlock only if there is one, ends well only after *)
(* every step was taken once, and is never left in the middle.             *)
DagVerdict ==
  Dag /\ stage = "returned" =>
    /\ verdict = "deadlock" => Unsolvable
    /\ verdict = "ok" => ~Unsolvable /\ AllTaken /\ Len(log) = Len(plan)

(* buildInputFromDependencies, workflow.go:1736: the input of a DAG step   *)
(* has every answer its dependencies gave in this run, nothing from any    *)
(* other step, and something older only under the name of a dependency     *)
(* this run skipped.                                                       *)
DagInputs ==
  mode = "dag" /\ api = "Run" =>
    \A i \in DOMAIN log :
      LET d == deps[log[i].step]
          before == {log[j] : j \in 1..(i - 1)}
      IN /\ \A e \in before :
              e.step \in d /\ e.outcome = "ok" =>
                Answer(e.step) \subseteq log[i].input
         /\ \A p \in log[i].input :
              \/ p \in Given(run)
              \/ p.by \in d /\ p.run = run
              \/ \E e \in before : e.step = p.by /\ p.by \in d
                                   /\ e.outcome = "skipped"

(* A sequential step gets what the last step that ran before it in this    *)
(* run has answered, in this iteration or an earlier one, or else the      *)
(* caller's input: skipped steps are transparent.                          *)
Chained ==
  ~Parallel /\ ~Dag =>
    \A i \in DOMAIN log :
      LET ran == {j \in 1..(i - 1) : log[j].outcome = "ok"}
      IN log[i].input =
           IF ran = {} THEN Given(run)
           ELSE LET last == CHOOSE j \in ran : \A k \in ran : k <= j
                IN {[by |-> log[last].step, run |-> run, it |-> log[last].it]}

(* A parallel run returns when every step has ended, fails if and only if  *)
(* one of them did, and its output has exactly the answers given, in       *)
(* whatever order the steps ended.                                         *)
ParallelVerdict ==
  Parallel /\ stage = "returned" /\ api = "Run" =>
    /\ Taken = Range(plan) /\ ~Busy
    /\ verdict = "failed" <=> \E i \in DOMAIN log : log[i].outcome = "failed"
    /\ current = UNION {Answer(log[i].step) :
                          i \in {j \in DOMAIN log : log[j].outcome = "ok"}}

(* iteration_info says how many iterations were begun and why the loop     *)
(* ended, on every way out of it.                                          *)
LoopReport ==
  mode = "loop" /\ api = "Run" /\ stage = "returned" =>
    /\ \A i \in DOMAIN log : log[i].it < info.total
    /\ \A i \in DOMAIN log :
         \A it \in log[i].it..(info.total - IF verdict = "ok" THEN 1 ELSE 2) :
           \E j \in DOMAIN log : log[j].it = it
    /\ verdict = "ok" <=> info.reason \in {"max_iterations", "condition_met"}
    /\ info.reason = "max_iterations" => info.total = MaxIterations
    /\ info.reason = "context_cancelled" => ctxDone
    /\ verdict = "cancelled" => info.reason = "context_cancelled"

(* The order of a DAG, and what DAG and loop report of themselves.         *)
WorkflowInv == TypeOK /\ DependenciesFirst /\ DagVerdict /\ LoopReport

(* A run returns, provided the agents do: also one whose dependencies      *)
(* cannot be resolved, whose context ends, or whose condition never says   *)
(* stop.                                                                   *)
RunReturns == Running ~> stage = "returned"
=============================================================================
