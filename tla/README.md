# AgenticGoKit in TLA+

AgenticGoKit is a Go library for programs made of LLM agents: agents that call
a model provider and tools, workflows that chain agents, streams that carry
their answers, and a runner that routes events between them. This directory
models the parts of it where several goroutines meet, checks the models with
TLC and proves some of what they say with TLAPS.

`PROJECT.json` is the index: components, runs, the source lines each
definition stands for, hazards, findings, and theorems. Paths below are
relative to the repository.

Contents: [inventory](#1-inventory), [how the parts interact](#2-how-the-parts-interact),
[modules](#3-modules), [runs](#4-runs), [bounds](#5-bounds),
[fairness](#6-fairness), [findings](#7-findings), [proofs](#8-proofs),
[what is not modelled](#9-not-modelled), [plan](#10-plan).

## 1. Inventory

Components with state that several goroutines, or several calls over time,
share. The module is in brackets.

| component | state | operations | what is hard | what makes it correct |
|---|---|---|---|---|
| Circuit breaker, `internal/core/error_handling/circuit_breaker.go` (`CircuitBreaker`) | state, failure and success counts, calls counted in half-open, time of the last failure | `Call` | the mutex is free while the protected function runs: a call admitted in one state reports in another | half-open lets a limited number of probes through, loses no slot, closes only on enough successes |
| Provider wrapper and retrier, `internal/llm/circuit_breaker_provider.go`, `internal/core/error_handling/retry_logic.go` (`RetryingCall`) | per call: attempt, backoff, context; shared: the breaker | `Call` (and `Stream`, `Embeddings` the same way) | retries of many callers multiply on one breaker; cancellation counts as failure | budget of attempts, no retry of a rejection, every call returns, recovery after an outage |
| Stream, `v1beta/streaming.go` (`Stream`, `StreamContract`) | bounded channel, done channel, context, result and error, `chunkIdx` | `Write`, `SetResult`, `Close`, `CloseWithError`, `Chunks`, `Wait`, `Cancel`, timeout | writers, handler, consumer, timer and cancel race; a send on a closed channel panics | order per writer, loss only by cancellation, one outcome, `Wait` returns |
| Streaming agent, `v1beta/agent_impl.go` (`AgentStream`) | the goroutine's position, provider's tokens, tool calls left | `RunStream`, `RunStreamWithOptions` | every step can fail after chunks went out; contexts derived from each other | an error is visible to a reader, "done" means there is a result, every stream ends |
| Agent, `v1beta/agent_impl.go`, `v1beta/utils.go` (`AgentRun`) | tools, temperature and memory provider that a run overwrites; chat history; metrics | `Run`, `RunWithOptions`, middlewares, the tool loops, memory | options are written into the shared agent and restored by several return paths; policies for several calls in a reply; half of an exchange remembered | base configuration back after the run, overrides hold during it, middlewares nest, tools run within budget and as reported, history has whole exchanges |
| Workflow, `v1beta/workflow.go` (`Workflow`) | steps and dependencies, `StepResults` and `Variables` that outlive a run, position, iteration | `AddStep`, `Run`, `RunStream` in sequential, parallel, DAG and loop mode | four ways to go through the steps and four more for streams, each with its own error paths; failures, skips and cancels in the middle | dependencies first, each step gets the right input, verdicts and `iteration_info` are true, every run returns |
| Sub-workflow agent, `v1beta/subworkflow.go` (`SubWorkflow`) | nesting depth, forwarder and its channel, chunk count, trace span | `RunStream`; the wrapper's `Chunks`, `Wait`, `Cancel` | three goroutines may end the span; a channel is put between two streams, with a second place to block | the wrapper is still a stream; one span, ended once and never overwritten; the forwarder ends |
| Runner, `core/runner.go` (`Runner`) | started flag, stop channel, WaitGroup, bounded event queue | `Start`, `Stop`, `Emit`, the loop | the loop emits into the queue it alone empties; the stop channel is read without the mutex; two goroutines may start and stop | one loop, no accepted event lost, doubled or overtaken, `Stop` waits and comes back |
| One event in the loop: callback registry (`core/factory.go`), route orchestrator (`internal/orchestrator/route.go`), result processing, error routers (`core/error_handling.go`, `internal/core/error_handling/error_routing.go`) (`EventRouting`) | callbacks per hook under a lock, handlers, session and routing metadata, retry counter | `Invoke`, `Register`, `Unregister`, `Dispatch`, `processAgentResult`, `CreateErrorEvent`, `IncrementRetryCount` | registration while callbacks run; seven hooks over two files; a failure becomes an event that may itself fail | hooks in pairs, a failing callback vetoes, a session never mixed up, retries bounded, a failure reaches a handler, the queue empties |
| Orchestrators and composite agents, `internal/orchestrator`, `internal/agents` (`Ensemble`) | handlers, the State handed around, results and errors of members | `Dispatch` of collaborative, sequential, loop, mixed; `Run` of `ParallelAgent`, `SequentialAgent`, `LoopAgent` | fan-out and fan-in with partial failure; State shared by reference or cloned | everybody is waited for, a success is in the answer, a failure is reported and, under clones, leaves nothing behind |
| Agent manager, `internal/agents/manager.go` (`AgentManager`) | agents and their configurations, two maps under one mutex | update, create, disable, initialise, reads | two maps written in different places; an agent that refuses a configuration | what the manager tells is what the agent runs |
| Configuration reloader, `internal/config/reloader.go` (`ConfigReload`) | path, watching flag, debounce timer, current configuration | `StartWatching`, `StopWatching`, `ReloadConfig`, watch loop, timer | reloads overlap, the mutex covers only their last step; the timer outlives the watch | agents match what was applied, current matches applied for serial reloads, no change missed |
| Graph validation, `internal/validation` (`GraphValidation`) | two depth-first searches with `visited` and `recStack`, two marking searches | `ValidateWorkflowGraph`, twice | the second search's state is left over from the first root; map order | verdicts on cycles, reachability and connectedness agree with their definitions |

Not modelled (section 9 has the reasons): MCP connections, tools, caches and
transports, the tool manager (`v1beta/tools.go`), handlers, memory, the LLM
adapters, builder and configuration values, state, events and sessions,
tracing and logging, the evaluation server, and `core/vnext` and
`internal/core/runner.go`, which are older copies of `v1beta` and
`core/runner.go`.

## 2. How the parts interact

    caller --Run/RunStream--> Workflow --Run/RunStream--> agent --Call/Stream--> provider wrapper
                                  |                         |                      |
                                  |  chunks                 | chunks               | retry
                                  +------> Stream <---------+                 circuit breaker --> provider
                                              |    ^
                                              |    +-- sub-workflow's forwarder -- its own Stream
                                         consumer, handler, timer

    emitter --Emit--> Runner queue --> loop --> callbacks, orchestrator, agents
                          ^                |
                          +--- follow-up --+    (route of the output, or error event)

    file --watcher--> watch loop --timer--> reload --> agent manager --> agents
                                  caller --ReloadConfig--^

- Calls: a workflow calls the agents of its steps; an agent calls its
  provider, its tools and its memory; the wrapped provider calls the real one
  through the breaker, once per attempt.
- Messages: the chunks of a stream (one bounded channel), the runner's events
  (another). Both have a single reader.
- Shared state: the breaker (all callers of a wrapped provider), the fields of
  an agent (all its callers), the workflow context (all steps, and all later
  runs), the State of an orchestrator's dispatch (all its members), the
  runner's flag and stop channel, the manager's maps.
- Callbacks: a stream's handler runs in the writer's goroutine; the breaker's
  state-change callback runs with its mutex held; runner callbacks run in the
  loop with the registry's read lock held.
- Contexts: the stream derives its own from the caller's. The provider is
  handed the caller's (`agent_impl.go:1049`), so ending the stream does not
  reach it; ending the caller's ends both.

Which module composes which: `RetryingCall` runs over `CircuitBreaker`,
`AgentStream` over `Stream`, `SubWorkflow` over any implementation of
`StreamContract`, `ConfigReload` over `AgentManager`. `EventRouting` is the
inside of the one handler step that `Runner` has. `EventRouting` itself puts
loop, registry, orchestrator and error router together.

## 3. Modules

| module | extends / instances | what it is |
|---|---|---|
| `CircuitBreaker` | | the breaker and any number of callers |
| `RetryingCall` | extends `CircuitBreaker` | retry loops over one shared breaker |
| `StreamContract` | | abstract specification: what a stream promises |
| `Stream` | instances `StreamContract` | the stream, writers, consumer, timer |
| `AgentStream` | extends `Stream` | the agent's goroutine over a stream |
| `SubWorkflow` | instances `StreamContract` twice | the wrapper around a workflow's stream |
| `AgentRun` | | an agent's `Run` and `RunWithOptions` |
| `Workflow` | | a workflow, all modes, several runs |
| `Runner` | | runner, emitters, controllers |
| `EventRouting` | | one event in the loop: callbacks, route, errors |
| `Ensemble` | | four orchestrators and three composite agents |
| `AgentManager` | | the manager's operations |
| `ConfigReload` | extends `AgentManager` | file, watch loop, timer, reloads, program |
| `GraphValidation` | | both validators of a workflow graph |
| `CircuitBreakerProofs` | extends `RetryingCall` | theorems on the breaker and on the retry loops over it |
| `StreamProofs` | extends `AgentStream` | theorems on the stream and on the agent that writes to it |
| `RunnerProofs` | extends `Runner` and `EventRouting` | theorems on the loop and on what it does with an event |
| `CompositeProofs` | extends `SubWorkflow` and `Ensemble` | theorems on the agents made of others |
| `AgentRunProofs`, `WorkflowProofs`, `ConfigReloadProofs`, `GraphValidationProofs` | extend the component | theorems |
| `MC*` | extend the component | the constants of the runs |

Operators whose comment starts with "Slip:" are not part of a specification.
Each is a plausible mistake in the definition that follows it, and
`PROJECT.json` ("mutants") says which property it must break: a property that
survives its slip would say nothing. A property named `...Inv` is the
conjunction of a module's type invariant and of the named safety parts that
follow it, each with its own comment.

**CircuitBreaker.** `Call` is two actions, because it is two critical sections
with the protected function between them: `Admit` or `Reject` (`canCall` and
the increment), then `Succeed` or `Fail` (`onSuccess`, `onFailure` and the
decrement). `state`, `failureCount`, `successCount` and `concurrentCalls` are
the fields of those names. `lastFailureTime` is reduced to the only question
asked of it, `timeoutPassed`. `probes`, `late` and `good` are history: the
running calls that this half-open episode admitted, the calls of earlier
states that came back during it, and its successes. The counter may go below
zero, as it can in the code.

**RetryingCall.** `phase` and `attempt` are the loop of `call`; an attempt is
`TryAdmitted` or `TryRejected`, then `ProviderAnswers` or `ProviderFails`, then
the backoff (`BackoffElapses`, `BackoffCancelled`). `Retriers` are the callers
that come through the retrier's policy, which may list the breaker's message
as retryable; the provider wrapper's never does. `healthy` says that the
outage is over, for the liveness property only.

**Stream.** `chunks`, `closed`, `ctxDone`, `result`, `err` and `chunkIdx` are
the fields of `basicStream` and the state of its channels. `Write` is split at
every point where another goroutine can come between: the first look at the
context, the load and the store of `chunkIdx` (no lock is held: `StoreIndex`
chooses among the values the increment may have loaded), the handler, the
final select. `CloseWithError` holds the mutex throughout and is one action.
The producer is the run that owns the stream: it waits for its writers, then
sets a result, closes with an error, or does neither, and its deferred `Close`
comes last. `StreamContract` knows nothing of this: chunks are produced,
lost or delivered, the stream is cancelled and ends, `Wait` tells the outcome.
`Stream!Contract` maps the one to the other.

**AgentStream.** One writer, whose steps are the statements of the goroutine in
`RunStream`: prompt, provider stream, tokens, tool calls and their results,
memory, result, the "done" chunk, the deferred close. `Fail` is every error
return: an error chunk and no `CloseWithError`. The provider is external.
`RunStreamWithOptions` differs by `CallReturns`, at which the deferred cancel
of its timeout context runs.

**Workflow.** A pass goes over a copy of `steps` (`plan`, `pos`); `log` is what
this run did, `stepResults` what the workflow remembers between runs. A text
is the set of pieces it was made from, so a property can say where an input
came from; an empty one is the empty string, which the code treats as "no
output". The agent call is split (`StepBegins`, then `StepSucceeds` or
`StepFails`), because cancellation and other parallel steps come between.
`DagDeadlock`, `DagEnds` and `DagStageEnds` are the end of a stage,
`Condition...`, `LimitReached`, `NextIteration`, `LoopCancelled`, `LegacyExit`
and `Converged` the ways through a loop. `RunStream` shares the actions where
the code does the same, and differs where it differs: it looks at the context
before each step, runs a DAG as a sequence, asks the loop condition only after
the first iteration, knows convergence but not `loop_continue`, and
leaves `iteration_info` alone.

**Runner.** A stop channel is the number of the `Start` that made it. The loop
reads the field on entering its select (`EnterSelect`) and waits on what it
saw; so does `Emit`. `Stop` is two actions, since it unlocks before it waits.
Callbacks, orchestrator and agents are one external handler that ends with a
follow-up event (`HandleRouted`: a route in the output, or the event of an
error) or without (`HandleLast`). A follow-up goes through the loop's own
`Emit` (`RouteBegin`, `RouteQueued`, `RouteFails`). `accepted` and `handled`
are history.

**AgentRun.** `run[c]` is the record of the run caller `c` is in, `at` its
position. `tools`, `temperature` and `memory` are the fields of `realAgent`
that `RunWithOptions` overwrites on the way in and `Return` restores from what
it saved (`ReturnUnrestored` is the slip). `RunStreamWithOptions` narrows the
tools too, by mode "none" or "specific", and nobody restores those: `base` is
history, the tools the agent was built with less what streaming runs took.
`BeforeRun` and `AfterRun` are the
middleware chain: they walk the registered positions, up and down, and pass
over those the options of the run skip. A reply of the provider is a
sequence of tool calls. Without reasoning there is one round; with it
`Continue` goes back to the provider. `SelectCalls` is `singleCallPolicy`,
`ExecuteTool` one call, with the signatures already seen skipped.
`StoreQuestion` and `StoreAnswer` are the two writes to memory, either of which
may fail.

**Ensemble.** The two families differ in what a member gets: `Clones` is true
for agents. A State is the set of marks of those that wrote to it, and
`object` the one an orchestrator hands round. `Write` is a member's write while
it and others run. The fan-out phase is `gather` (`Collect` for each return,
in any order, and `Gathered` after the last); the chain phase is `chain` and
`running` (`RunMember`, `MemberSucceeds`, `MemberFails`, `ChainEnds`), shared
by sequential, loop and the second half of mixed, which falls through from the
first. The chain goes through positions of the sequence of names (`line`);
`pos` is the last one it is done with, and `IsNext` the smallest one ahead,
which `RunMember` runs and `SkipMissing` passes over.

**EventRouting.** `waiting` is the runner's queue, `TakeEvent` the loop's
receive, and `stage` where the loop is with `event`: a hook's
callbacks, `dispatch`, the agent's `run`, or `result`. `Invoke` takes the
registry's read lock and a snapshot, `RunCallback` calls one callback,
`Register` and `Unregister` need the write lock. A failing callback of
`BeforeEventHandling` or `BeforeAgentRun` vetoes the agent. `ProcessSuccess`
and `ProcessAgentResult` build the follow-up event: the route named in the
output, or the error event, made by either router (`Severity`, `Recovery`,
`ErrorHandlerOf`). An error event holds the event it is about, hence the stack
of frames. `IncrementRetryCount` is what an error handler does to retry.

**GraphValidation.** The recursion of `dfs` is a stack of frames, so that the
search is a state machine without recursion. A frame is a node and the number
of edges its call has ranged over (`seen`): `Descend`, `Skip`, `ReportCycle`,
`ReturnFalse` and, when a cycle ends the whole search, `ReturnTrue` and
`Caught`. `Root` picks the next root as Go's map order may. The marking
searches only build a set; `Mark` and `MarkNeighbour` leave their order open.
The reference definitions (`Reachable`, `OnCycle`, `Joined`) are closures of a
set under the edges.

**SubWorkflow.** The inner stream's state is that of `StreamContract`, and
each of its steps is one the contract allows. `Take`, `PutWhenRoom` and
`PutOrDrop` are the forwarder's loop, `EndSpan` and `CloseOut` its deferred
calls. `Finalize` ends the span once. The client may range, leave its
loop, wait, cancel or walk away. `Wrapped` is the same contract instantiated
for what the client sees: chunks it received are those delivered, chunks in
the forwarder's hand and channel are in flight.

**AgentManager, ConfigReload.** Each manager operation holds its mutex from
start to end and is one action. `agents[n]` is what the agent itself runs with
and `agentConfigs[n]` what the manager tells of it. A reload is `Load`,
`Update` and `Store`; only the last is under the reloader's mutex. The watch
loop takes an event (`TakeEvent`), then re-arms the timer (`Debounce`).
`StartWatching` loads and updates before its loop starts (`InitialUpdate`,
`StartLoop`). `held` is set when an update has to disable an agent the
configuration no longer names: the update waits for the mutex it holds
(finding 1), and nothing of the manager moves after it.

## 4. Runs

| run | expects | shows |
|---|---|---|
| `provider_retry` | pass | `BreakerInv`: in half-open the counter is the probes in flight less the late returns, so probes exceed the limit by one per late return and no more; `SlotsReturn`: half-open never runs out of slots; `ReopenOrder`: open goes to half-open only, closed only on enough successes of one episode; `RetryInv`: the budget of attempts, and behind a wrapped provider no attempt after a rejected one (`RejectionsFinal`); `Progress`: every call returns, and a breaker in use ends up closed after an outage |
| `stream` | pass | `KeepsContract`: two writers' stream refines `StreamContract`; `Complete`: a stream nobody cancelled has every chunk; `WaitEnds` |
| `agent_stream` | pass | `AgentInv`: indexes count up (one writer), the error chunk is there, last, and only then; `DoneMeansResult`; `StreamEnds` |
| `runner` | pass | one controller, a queue of two: `LoopInv` (one loop at a time, and `Stop` waits for it), `HandledInOrder`, `StopEnds`, `AcceptedIsHandled` |
| `workflow` | pass | `WorkflowInv` (dependencies first, true DAG verdicts, true iteration reports), `DagInputs`, `Chained`, `ParallelVerdict`, `RunReturns` |
| `agent_run` | pass | one caller, whose runs with options take turns with streaming ones that take tools away: `OptionsScoped`: options hold during their run and, but for those tools, are gone after it; `MiddlewareNesting`; `ToolInv`: tools within budget, not twice, and as reported; `HistoryPaired`; `RunReturns` |
| `ensemble` | pass | `EnsembleInv`: nobody runs on after the return, and failures surface; `StateReturned`: the answer has what successful members returned and, under clones, nothing of failed ones; `Completes`: a sequence skips nobody, every dispatch returns |
| `event_routing` | pass | `RoutingInv`: session kept, one follow-up per event, retries bounded; `HookInv`: hooks come in pairs, and a failing callback keeps the agent from running; `NoLateCallback`: none after its `Unregister` returned; `Answered`: a failure reaches an error handler; `Drains`: retries and error events end |
| `graph_validation` | pass | `GraphInv`: a cycle is reported exactly when there is one, and the first pair lies on it; `ReachabilityInv`: accepted graphs can run, warnings and connectedness are exact |
| `sub_workflow` | pass | `KeepsContract`: the wrapper refines `StreamContract` again; `SpanInv`: the span tells what the client received; `Finishes`: span and forwarder end |
| `config_reload` | pass | two agents, one that takes configurations and one that is made again, either of which may fail to: `ConfigInv`: the manager tells what agents run, agents match what was last applied, and current matches applied while reloads do not overlap; `ChangeLoaded`: every version of a watched file, or a later one, is read |
| `config_removal` | violation | an update that drops an agent waits for itself (finding 1) |

Each passing run also checks the type invariant of its module, as a conjunct
of an `...Inv` or, for `stream`, through the contract it refines.

`CHECK_DEADLOCK FALSE` is set where the system stops once the bounded inputs
are used up: a stopped runner, a workflow or agent without further calls, a
dispatch that returned, an empty queue, a client that is gone, a reloader no
one edits for. What must not stop there is covered by the liveness property of
the run. The breaker and the retry loop never stop; a stream and a graph search
do, in explicit last steps (`Terminated`, `Finished`), so that one that stops
anywhere else is a deadlock and reported.

## 5. Bounds

| bound | value | why it is enough |
|---|---|---|
| `Callers` (retry) | 2, `MaxRetries` 1, limit 1 | a wrapper and a retrier, that overtake each other through every breaker state: one probe and one late return |
| `FailureThreshold`, `SuccessThreshold` | 2 | the smallest with a count below the threshold |
| `FailureCap` | threshold + 1 | the count is only compared with the threshold and set to 0 |
| `entered` | counted to `MaxRetries` + 2 | one more than the budget, so that an overrun shows |
| `Writers`, `MaxChunks`, `BufferSize` (stream) | 2, 2, 1 | a full buffer, a writer waiting for room while the other passes it, a chunk after a loss |
| `MaxTokens`, `MaxTools`, `BufferSize` (agent stream) | 2, 1, 2 | up to six chunks against a buffer of two |
| `Emitters`, `QueueSize`, `MaxEvents`, `MaxHops`, `MaxStarts` (runner) | 3, 2, 1, 1, 2 | two events in order in the queue, a queue filled by others while the loop emits, and a restart |
| workflow steps | 3 (loop 2), `MaxIterations` 2 | chains, joins, a cycle and a missing name fit in three steps; an iteration after an iteration |
| `DepChoices` | `{}`, `{a}`, `{a,b}`, `{c}` | free steps, a chain (and `a` on itself), a join, an edge against the order of adding, cycles through `c` and `a` |
| `MaxRuns` (workflow, agent) | 2 | what the first run left behind meets the second |
| agent run: tools, calls a reply, iterations | 2 and one unknown, 2, 2 | best of two, a repeated call, a call that is filtered, a second round |
| agent run: `Callers` | 1 | two at once lose the base configuration (section 7): the restore is not atomic |
| `OptionSet` | 4 | each override alone and all together, with one middleware and with both skipped |
| `StreamOptions` | 2 | no tools, and one of the two; "auto" changes nothing |
| ensemble: `Members`, `MaxIterations`, `MaxDispatches` | 3, 2, 1 | two succeed or fail around one that does otherwise; mixed has a group and a rest; nothing survives a dispatch but who is registered, which any first dispatch may find |
| event routing: `MaxEmits`, `MaxRoutes`, `MaxFaults`, `MaxChanges` | 1 each | one event already makes chains of error events and retries; a failure within a hop; a callback that comes or goes while others run |
| `MaxRetries`, `Codes` (event routing) | 2, 3 | a retry after a retry; a handler by category that exists, one that does not, the default |
| `Names`, `MaxEdges` (graph) | 3, 3 | cycles of one, two and three; a cycle off the path of the first root; every order of the map and of the edges |
| sub-workflow: `Writers`, `MaxChunks`, `OutSize`, `MaxDepth` | 2, 2, 1, 2 | four chunks against a channel of one and a hand; a depth below and at the limit |
| reload: names, versions, watches, timer runs, callers | 2, 2, 1, 1, 1 | one agent in `Aware` and one that is not, so that one may fail where the other does not; two edits against one debounce; a timer's reload that overlaps a caller's. A watch after a watch is in the model and in the theorem on `ConfigInv`, which is of any number of them, but more than the run can do with two agents |
| `Contents` (reload) | 3 | all on, all off, and one on where the file drops the other |

A cap either limits what the environment does (how many chunks, events,
steps, runs) or stops a count above the last value anything compares it with.

## 6. Fairness

The properties under `<>` and `~>` assume weak fairness of what the Go runtime
and its timers promise: a goroutine that can run is run, a timer that is set
fires. Beyond that:

- `RetryingCall`: a provider call returns, and requests keep arriving
  (`Begin`), which is the load `Recovers` speaks of. `Cancel` and `Recover`
  have no fairness: callers need not cancel and the outage need not end.
- `Stream`: a consumer in its range loop goes on ranging. It need not, where
  the timeout does it: `WaitEnds` holds also for a consumer that breaks out.
  Nobody has to cancel.
- `AgentStream`: the caller reads, and the provider goes on and ends. That is
  a real assumption: the goroutine ranges over the provider's channel with no
  other case, so with a provider that falls silent the stream does not end,
  even if it is cancelled (section 7).
- `AgentRun`: providers, tools, middlewares and handlers return. No caller has
  to come back.
- `Workflow`: an agent, condition or step in progress returns; nobody has to
  add steps, cancel or start a run.
- `SubWorkflow`: the inner stream ends, which is `WaitEnds` of `Stream`; a
  client that ranges or waits goes on. Nobody has to leave, wait or cancel.
- `Runner`: handlers and callbacks return. Nobody has to call `Start`, `Stop`
  or `Emit`, or end a context.
- `EventRouting`: the loop goes on, so agents and callbacks return. Nobody has
  to emit or register.
- `Ensemble`: members return and the dispatch goes on. Nobody has to write,
  stop, cancel or dispatch again.
- `ConfigReload`: the watch loop, `StartWatching` once begun, a timer that is
  set and a reload that runs go on, unless they wait for a mutex. Nobody has to
  edit the file, call or stop.

## 7. Findings

One run is expected to find a violation:

1. `internal/agents/manager.go:134`. "Agent is no longer in configuration,
   disable it" calls `DisableAgent`, which locks the mutex that
   `UpdateAgentConfigurations` has held since line 30. The branch for disabled
   agents above it calls `disableAgentInternal`, "using internal method to
   avoid deadlock". A file that drops an agent therefore leaves the agent active
   and blocks the manager for good. So does a reload begun before
   `StopWatching` that reads the path after it: the path is empty, the
   defaults name no agent.

The following have no run of their own. Those in the first list are in the
model: the definition or property named shows them, some of them only once the
constant named is changed as said.

- `circuit_breaker.go:75`. The decrement after a call depends on the state at
  the end of the call, the increment on the state at its start. A call
  admitted while closed and returning in half-open frees a slot it never
  took: with limit 1, two probes run, although `core/error_handling.go:89`
  calls the limit "Maximum concurrent calls in half-open state". `ProbeBound`
  states the limit that does hold; without its late returns it fails.
- `streaming.go:387`. Every chunk goes into the bounded channel after the
  handler has had it. With a handler and `Wait` alone (EXAMPLE 2 of the file,
  lines 623-632) the buffer fills, the run stands until the timeout, and
  `Wait` reports a success of which the handler saw a part.
- `agent_impl.go:1050`. The error returns of the streaming goroutine only run
  the deferred `Close`: `Wait` returns `nil, nil`, where `streaming.go:139`
  says it "Returns the final result and any error". `Fail` of `AgentStream`.
- `agent_impl.go:1217`. `RunStreamWithOptions` defers the cancel of its
  timeout context, so the stream it hands out is cancelled as the call
  returns. `CallReturns` of `AgentStream`.
- `core/runner.go:242`. `Stop` clears the flag and unlocks before it waits. A
  `Start` from another goroutine adds its loop to the same WaitGroup, and
  `Stop` waits for a loop that nobody has told to stop: with two
  `Controllers`, `StopEnds` fails. With one this cannot happen, as section 8
  proves for its safety part.
- `workflow.go:800`. A streamed DAG is run as a sequence in the order of
  `AddStep`; `docs/v1beta/workflows.md:148` says "dependent steps wait for
  prerequisites". `DependenciesFirst` says so of `Run` only.
- `internal/core/error_handling/error_routing.go:126`. `getRetryCount` reads
  "1", "2" and "3" and takes any other count for 0 (`RetryCount`): with
  `MaxRetries` 4 an event is retried without end and `RetriesBounded` fails.
- `internal/validation/workflow.go:424`. When a cycle is found the search
  returns without clearing `recStack`, so that a later root may report a pair
  that lies on no cycle. `FirstOnCycle` holds of the first pair only.
- `workflow_validator.go:581`. `isConnected` counts names no node has.
  `ConnectedVerdict` and part of `UnreachableExact` speak of graphs without
  unknown names for this reason: with two nodes and an edge from one of them to
  a third name, the graph passes for connected.
- `agent_impl.go:1256`. "Temporarily disable all tools": `RunStreamWithOptions`
  with tool mode "none" sets the tools to nil, with "specific" to the tools
  named (1270), and never restores them, where `RunWithOptions` does (814). The
  run `agent_run` has such streams; `base` counts what they took as taken. With
  `Tools` in the place of `base`, `BaseConfigKept` fails.
- `agent_impl.go:1066`. `streaming.go:138` says "Wait blocks until the stream is
  complete or cancelled". It blocks until the agent's goroutine closes the
  stream, and that one ranges over the provider's channel without a case for
  the stream's context; the provider has the caller's (1049). If the provider
  falls silent, a cancelled stream stays open. `StreamEnds` assumes it does not
  (section 6).
- `agent_impl.go:769`. Two callers of `RunWithOptions` at once: the second
  saves what the first has overwritten and may restore it last. With two
  `Callers`, `BaseConfigKept` fails, against the comment there.
- `internal/config/reloader.go:338`. Reloads that overlap may leave the agents
  with one version and `currentConfig` with another, and an agent that fails
  to take its configuration is passed over with `continue`;
  `docs/guides/agent-configuration-system.md` promises "All-or-nothing".
  `CurrentApplied` holds only while none overlap.
- A reloader that was stopped and started again reads the file once and then
  never more: its context stays cancelled. `ChangeLoaded` excepts it.
- `subworkflow.go:620`. After `Cancel` the forwarder may stay blocked in
  `outChan <- chunk` if its client has left the loop
  (`docs/v1beta/troubleshooting.md:146-163` has a deferred `Cancel` prevent
  leaking goroutines).
  `ForwarderEnds` excepts a client that left.
- `workflow.go:1657`. `loop_continue` leaves the loop before the last output
  is taken over, so the run returns the input of its last iteration
  (`LegacyExit`); the variable stays set for later runs.
- `workflow.go:1745`. A DAG step reads results by name, so if this run skips a
  dependency it gets the answer of an earlier run; `DagInputs` says this is
  the only way for something old to come in.
- `circuit_breaker.go:98`. With `MaxConcurrentCalls` 0 the first probe is let
  through all the same and, if one success is not enough, half-open then
  rejects everybody for good. The theorem on slots assumes a limit of at
  least 1 for this reason.
- `streaming.go:375`. Parallel writers number chunks without a lock: indexes
  may repeat. `IndexSequence` is stated for one writer only.

These are beside the model:

- *Workflow.* Parallel steps store results under a mutex of their own
  (`workflow.go:1275`), not the context's, while a condition may read the map:
  a data race. A streamed step transforms its input twice (`:930`). A streamed
  step whose agent failed counts as a success (`:1029`), because `Wait` says
  nothing. When the context is done, `executeStepStreaming` (`:977-988`)
  returns without `Wait` or `Cancel` on the inner stream.
- *Sub-workflow.* `Wait` and `Cancel` may end the span before all chunks have
  come, and its status is "ok" even if the workflow failed. The depth is
  checked but never raised, although `docs/reference/api/vnext/workflow.md:147`
  speaks of the limit.
- *Agent.* Options of a stream are undone before its goroutine has read them.
  With a single tool, reasoning may execute several calls and reports one.
  After `Cleanup`, `Run` is not refused.
- *Orchestrators.* What a failing collaborative member wrote into the shared
  State stays visible to the rest. `RegisterAgent` while a mixed dispatch
  begins is a race on its map. A nil `OutputState` is a nil dereference. After
  `Stop` a sequential dispatch succeeds with nobody run.
- *Events.* The basic error router (a program that does not import
  `internal/core/error_handling`) starts a new session for error events and
  always names "error-handler"; if that is missing, or fails, each failure
  makes another event, without end. The State `BeforeEventHandling` returns
  never reaches the agent. `BeforeAgentRun` and `AgentError` are invoked by
  runner and orchestrator both, so twice for an event. A failed run of the
  agent invokes `AgentError` in the place of `AfterAgentRun`, against "always,
  even on error" (`route.go:128`). A callback that registers
  another waits for the lock its caller holds. The retry counter of an event
  is not carried into the error events it causes.
- *Configuration.* Validation errors are logged and the configuration taken,
  where `docs/guides/configuration-system-comprehensive.md:563` has it
  rejected. An agent created or made again by an update has no LLM provider
  (`manager.go:99`, `:115`; compare `CreateAgentFromConfig`). A file replaced
  by renaming loses its watch. `core.NewConfigReloader` returns a no-op, and
  nothing in the repository constructs the reloader.

## 8. Proofs

TLAPS proves these for every value of the constants that satisfies the
named assumptions of the modules, and with no other axiom.

| theorem | of | states |
|---|---|---|
| `CircuitBreakerProofs!TypeCorrect` | `BreakerSpec` | `BreakerTypeOK` |
| `CircuitBreakerProofs!AccountingCorrect` | `BreakerSpec` | `ProbeAccounting` |
| `CircuitBreakerProofs!ProbesBounded` | `BreakerSpec` | `ProbeBound` |
| `CircuitBreakerProofs!InvCorrect` | `BreakerSpec` | `BreakerInv`, the three together |
| `CircuitBreakerProofs!NoSlotLeak` | `BreakerSpec`, limit at least 1 | `SlotsReturn` |
| `CircuitBreakerProofs!ReopensInOrder` | `BreakerSpec` | `ReopenOrder` |
| `CircuitBreakerProofs!LoopsUseBreaker` | `RetryingCall` | `BreakerSpec`: the loops are users of the breaker |
| `CircuitBreakerProofs!RetriesBounded` | `RetryingCall` | `RetryInv` |
| `CircuitBreakerProofs!SharedBreaker` | `RetryingCall` | `BreakerInv`, `ReopenOrder` |
| `StreamProofs!StreamTypeCorrect` | `Stream` | `TypeOK` |
| `StreamProofs!StreamComplete` | `Stream` | `Complete` |
| `StreamProofs!StreamKeepsContract` | `Stream` | `KeepsContract`: refines `StreamContract` |
| `StreamProofs!AgentInvHolds` | `AgentStream` | `AgentInv` |
| `StreamProofs!DoneBackedByResult` | `AgentStream` | `DoneMeansResult` |
| `CompositeProofs!SpanInvHolds` | `SubWorkflow` | `SpanInv` |
| `CompositeProofs!SubKeepsContract` | `SubWorkflow` | `KeepsContract`: refines `StreamContract` |
| `CompositeProofs!EnsembleCorrect` | `Ensemble` | `EnsembleInv` |
| `CompositeProofs!AnswersWhole` | `Ensemble` | `StateReturned` |
| `CompositeProofs!NobodySkipped` | `Ensemble` | `EveryoneRan`, the safety half of `Completes` |
| `AgentRunProofs!OptionsKept` | `AgentRun`, one caller | `OptionsScoped` |
| `AgentRunProofs!ToolLoopBounded` | `AgentRun`, one caller | `ToolInv` |
| `AgentRunProofs!HistoryWhole` | `AgentRun`, one caller | `HistoryPaired` |
| `AgentRunProofs!MiddlewaresNest` | `AgentRun`, any callers | `MiddlewareNesting` |
| `WorkflowProofs!WorkflowCorrect` | `Workflow` | `WorkflowInv` |
| `WorkflowProofs!InputsOfDag` | `Workflow` | `DagInputs` |
| `WorkflowProofs!InputsOfChain` | `Workflow` | `Chained` |
| `WorkflowProofs!ParallelCorrect` | `Workflow` | `ParallelVerdict` |
| `RunnerProofs!TypeCorrect` | `Runner`, any controllers | `TypeOK` |
| `RunnerProofs!OneLoopAtATime` | `Runner`, one controller | `OneLoop` |
| `RunnerProofs!StopWaitsForLoop` | `Runner`, one controller | `StopWaits` |
| `RunnerProofs!LoopInvHolds` | `Runner`, one controller | `LoopInv`, the three together |
| `RunnerProofs!EventsHandledInOrder` | `Runner`, one controller | `HandledInOrder` |
| `RunnerProofs!FollowUpsRight` | `EventRouting` | `RoutingTypeOK`, `SessionKept`, `OneFollowUp` |
| `RunnerProofs!RoutedRight` | `EventRouting`, `MaxRetries` at most 3 | `RoutingInv`, with `RetriesBounded` |
| `RunnerProofs!HooksInOrder` | `EventRouting` | `HookInv` |
| `RunnerProofs!CalledWhileRegistered` | `EventRouting` | `NoLateCallback` |
| `ConfigReloadProofs!TypeCorrect` | `ConfigReload` | `TypeOK` |
| `ConfigReloadProofs!ToldTruly` | `ConfigReload` | `ConfigTold` |
| `ConfigReloadProofs!ReloadCorrect` | `ConfigReload` | `ConfigInv` |
| `GraphValidationProofs!CyclesFound` | `GraphValidation` | `GraphInv` |
| `GraphValidationProofs!VerdictsOfMarking` | `GraphValidation` | `ReachabilityInv` |

*Breaker.* None of the properties is inductive alone. A return that finds the
breaker half-open takes one off the counter; whether that is one off the probes
or one more late return depends on what `probes` is. So the invariant adds to
the types and to `ProbeAccounting` that the probes are running calls, that
there are none outside half-open, and that in half-open the counter is within
the limit and the success count is the successes of this episode. `ProbeBound`
follows by arithmetic, `SlotsReturn` from a counter that is minus the late
returns when no probe runs, and `ReopenOrder` from the last part.

*Retry loops.* Each action of a loop is one of the breaker's with something
added, or leaves the breaker alone; that is the whole of `LoopsUseBreaker`, and
it carries the results above over to the breaker that retrying callers share
(`SharedBreaker`). The invariant of the loops (`LoopOf`) relates, for each
caller, its phase, its attempt and how often it ran the provider, with
`RejectionsFinal` for those whose policy does not list the rejection.

*Stream.* The refinement needs that a chunk is lost only to a cancel and that
its writer then writes no more. The invariant (`Flow`) counts: of each writer
as many chunks are in the stream as it made, or fewer, and if fewer, the
context is done and the writer is in no `Write`, where it would have looked at
the context first. With the first part goes that the writer's chunks are there
without gaps. `Shown` relates the handler's chunks to those; `Ended` orders the
close, the producer and `Wait`. The counter `chunkIdx` is bounded (`Numbered`)
by the number of chunks that have passed through it: two writers may load the
same value, so this is all that can be said of many writers. For the agent's
single writer `Numbering` says that it is the length of the stream, and
`Closing` and `Telling` where the goroutine stands when it is closed, or has
failed.

*Sub-workflow.* `out`, the forwarder's hand and what is left in the inner
stream are, in this order, what is in flight in the contract the client sees;
so a step of the forwarder is a stutter, and a step of the inner stream or a
receive of the client is one of the contract. For the span the invariant says
how far forwarder and client have come (`Phases`), that no chunk is made twice
(`Once`, from which the count of chunks is bounded), and what the span tells
at each point (`Spans`).

*Agent.* The invariant has two halves. What a run does to its own record
(`LocalInv`) needs nothing of the others: how many provider calls go with how
many iterations at each point (`Loop`), and which hooks the trail holds
(`Nested`). A hook is found in the trail at its rank among the middlewares the
run keeps, so a step of the chain adds the next rank or, for a skipped one,
none; `MiddlewaresNest` needs no more and holds for any number of callers. The
other half (`SoleInv`) speaks of the fields of the agent. They are what the
options of the run under way make of the base values (`Overridden`), and what a
run saved are the base values, which is true only of a single caller
(`OneCaller`: several overwrite each other's, section 7). The base values are
those of `base` for the tools: a streaming run narrows the two alike, at a time
when the caller has no run under way. From the fields follows that a run with
one tool executes one call an iteration (`OneEach`).
For the history it is said of each run how long it has left no message
(`Silent`), and that between the two writes the question is the last one
(`Stored`); that the runs counted are those begun, but for the one that is
`Pending`, bounds the metrics.

*Workflow.* What a pass did is in `log`, so the invariant relates the log to
where the pass is. A step is taken once in a pass, and in an ordered pass only
the last one taken can be running (`Taking`). A DAG stage that has taken
nothing is at its first step and began with something to take (`Staged`); so
if it ends without progress no step is eligible, and the steps left over are a
set in which each waits for another one or for no step at all, which is
`Unsolvable`. Conversely, if every step was taken, the one of any set that was
taken first did not wait for the others; and as many names as the plan has,
without repetition, are entries of the log, so none was taken twice. For the
inputs `Stored` says what is found under the name of a step this run has taken
or an earlier run left, and `Chain` that the text in hand is the last answer in
the log. An iteration report needs that every iteration that ended has an entry
once an earlier one has (`Looped`), since a pass over a plan with steps takes
at least one.

*Runner.* `OneLoop` holds because the only loop alive is the one of the
current stop channel (`LoopIsCurrent`). `Start` keeps that only if no loop is
alive when the flag is down, which is `StopWaits`, and that needs the second
half of `Stop` to come before the next `Start`: `NoStopWhileStarted`. With a
single controller (`OneController`) the goroutine that waits in `Stop` is the
only one that could start; with two it is not (section 7). `HandledInOrder`
adds the sequence facts: an accepted event is appended to the queue and the
history alike, and `Take` moves the head of the queue to the loop's hand.

*Event routing.* That no chain of events branches is not inductive: `OneThread`
says more, that a caller's event lives on in one event at most, which is in the
queue or in the loop's hand with its follow-up still to be made (`Owes`). An
event the loop may emit keeps the number, and under the internal router the
session, of the one in hand (`Follows`, one lemma for each of the three ways to
make one); since only one event of that number exists, the session
recorded for it cannot be changed behind its back (`InSession`). For the bound
on retries every frame of the stack counts, not only the top one: the event
under an error event is the one that a handler will emit again, so wherever a
retry is recommended the event below has one left (`CountsOK`). This is where
`MaxRetries` must be one the metadata can say, since `getRetryCount` reads 4
as 0 (`error_routing.go:126`); the default is 3
(`core/error_handling.go:181`), and the other results do not need it. The hooks
need the trail and the veto stage by stage (`HooksSoFar`): before the agent
`vetoed` is `lastErr`, which is what lets a success in between not hide a
failure. `NoLateCallback` needs that whatever `Invoke` has still to call is
registered (`TodoRegistered`), which `Unregister` keeps by waiting for the lock.

*Ensemble.* Outside the two phases nobody is at work, and in the chain phase
one member at most (`AtWork`), which is why an answer leaves nobody behind. What
was run is, at each point, the positions with a handler up to `pos`, in order
(`RanSoFar`); for an orchestrator that needs the lock that keeps registrations
out while it is busy, and for an agent that its members are fixed when it is
made. What a member that succeeded returned is in `combined` once it has been
collected, and in what `mixed` hands on when its second phase begins (`Merged`).
Who has failed is kept until the answer, and the second phase of `mixed` starts
only if a member of its group succeeded (`Failures`). For clones the invariant
says what each State may hold: the input and what the one member wrote, or,
along a chain, the input and what those before it did (`Private`).

*Reload.* What the manager tells and what its agents run is inductive as it
stands, one lemma for each of its operations (`Told`). `AgentsMatch` is
inductive with it. That the current configuration is the applied one needs the
order of the three steps of a reload while no other is under way (`Serial`).

*Graph validation.* The first half of the module is about graphs alone, with
the sequence of edges as a parameter: closures, and `SourcesReachAll`, which
says that in a finite acyclic graph every node is reached from one that nothing
leads to (a node that is not, and reaches the most, would have a predecessor
that reaches more). The invariant of the search for cycles holds while none has
been found (`Quiet`): the stack is a path, what is on the path is on the stack,
behind an edge that was looked at is a name that is done with or the call above
(`Behind`), and no edge leads out of what is done with, in which no name
reaches itself (`DoneAcyclic`). A search that ends quietly has done with all
nodes. If an edge meets the path, the stack from there on is the cycle. After
that there is nothing to maintain but the verdict, which is why pairs after the
first are worth nothing (section 7).

Every invariant and every action property of the passing runs is proved. Only
model-checked is all liveness (`Progress`, `WaitEnds`, `StreamEnds`, `StopEnds`,
`AcceptedIsHandled`, `RunReturns`, the `Returns` of `Completes`, `Answered`,
`Drains`, `Finishes`, `ChangeLoaded`):
fairness speaks of ENABLED, which this prover does not handle. Nor can it
instantiate an induction principle, so what a recursive definition computes for
every input stays out of reach; no module here has a recursive operator, and
the recursion of `dfs` is a state machine. Where a proof needs an induction
(`SourcesReachAll`) it takes a minimal element of a well-founded relation,
which is a fact without an operator in it.

## 9. Not modelled

Within the modelled components: `Reset` and the getters of the breaker, which
nothing calls while calls are in flight; the length of delays (jitter,
exponential), which is data; `AsReader` and the chunk builders of the stream;
the text of prompts and the parsing of tool calls, `Initialize` and `Cleanup`
of the agent; `SetMemory`, `SetLoopCondition`, `Initialize` and `Shutdown` of a
workflow; two concurrent runs of one workflow; the runner's trace dump; what
callbacks write into the State handed to them; `Stop` of an orchestrator while
a dispatch runs, and `UpdateConfiguration` of a composite agent while it runs;
the statistics of a sub-workflow's `Run`, a second `Chunks()`; the reloader's
callbacks, which are started in goroutines of their own in no order, and errors
of its watcher; the validators' rules on names, endpoints, composition and
orchestration, which compare single values.

Components left out:

- *MCP connections.* `internal/mcp/connection_pool.go` is constructed by
  nobody, and its `Connect` cannot succeed: it ends with `setLastError(nil)`,
  which stores nil in an `atomic.Value` and panics. A model of the pool beyond
  that line would be of a program that does not run.
- *MCP tools, caches and transports, memory, LLM adapters.* I/O over the
  network or to a database; their state is on the other side.
- *Tool manager.* `basicToolManager` is a placeholder that executes nothing;
  the one it stands in for is registered by a plugin, and no plugin is here.
- *Handlers, builder and configuration.* Composition and validation of values,
  in sequence, without state that outlives the call.
- *State, events and sessions.* Maps under one mutex each, with no invariant
  that spans two of them.
- *Tracing, logging, evaluation server.* Output, and an HTTP front of `Run`.
- *`core/vnext`, `internal/core/runner.go`, `internal/core/callback.go`.*
  Older copies of what is modelled.

Panics and the process ending are not modelled; two hazards in `PROJECT.json`
are about them.

## 10. Plan

Done, in this order, the most shared and most failure-prone parts first:

1. `CircuitBreaker` and its proofs; `RetryingCall`, which composes the breaker
   with the retry loops. The breaker is checked within `provider_retry`, whose
   specification contains it.
2. `StreamContract`, `Stream` (refines it), `AgentStream` (composes the stream
   with the agent).
3. `Runner` and its proofs.
4. `Workflow`.
5. `AgentRun`: options, middlewares, tool loops and memory.
6. `Ensemble`: orchestrators and composite agents.
7. `EventRouting`: the inside of the runner's handler step.
8. `GraphValidation` against reference definitions.
9. `SubWorkflow`, over and again under `StreamContract`.
10. `AgentManager` and `ConfigReload` over it.

11. Theorems on all of these: every invariant and every action property of the
    runs.

What is left is outside the present scope (section 9) or liveness, which stays
with TLC (section 8).
