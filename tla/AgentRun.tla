------------------------------ MODULE AgentRun ------------------------------
(***************************************************************************)
(* One agent's Run and RunWithOptions (v1beta/agent_impl.go): options that *)
(* override the agent's own fields for the length of a run, the middleware *)
(* chain, the call of the LLM provider, the loop that executes tool calls  *)
(* and goes back to the provider, and the chat history.                    *)
(*                                                                         *)
(* Callers share the agent: its tools, temperature and memory provider are *)
(* fields a run overwrites and restores without a lock.  A tool call is a  *)
(* pair of a tool's name and the signature of its arguments; prompts and   *)
(* answers appear only as the tool calls they contain.                     *)
(***************************************************************************)
EXTENDS Naturals, Sequences, SequencesExt, FiniteSets

CONSTANTS
  Callers,        \* goroutines that use the agent
  Tools,          \* the tools the agent is built with
  Middlewares,    \* the names of its middlewares, in registration order
  Calls,          \* the calls a reply may hold: [tool |-> , args |-> ]
  MaxCalls,       \* bound: calls in one reply
  MaxIterations,  \* Tools.Reasoning.MaxIterations, or its default
  OptionSet,      \* the options RunWithOptions is given
  StreamOptions,  \* the options RunStreamWithOptions is given
  MaxRuns         \* bound: runs in a behaviour

Names == ToSet(Middlewares)
Options == [mode : {"auto", "none", "specific"}, only : SUBSET Tools,
            memory : BOOLEAN, hot : BOOLEAN, skip : SUBSET Names]

ASSUME AgentRunAssumption ==
  /\ MaxCalls \in Nat /\ MaxIterations \in Nat \ {0} /\ MaxRuns \in Nat
  /\ Middlewares \in Seq(Names)
  /\ OptionSet \subseteq Options
  /\ StreamOptions \subseteq Options

VARIABLES
  \* the configuration of the agent, fixed when it is built
  policy,       \* Tools.SingleCallPolicy
  reasoning,    \* Tools.Reasoning.Enabled
  \* the fields of realAgent that a run may overwrite
  tools,        \* a.tools
  temperature,  \* a.config.LLM.Temperature: the base value or an override
  memory,       \* a.memoryProvider is set
  \* what the agent leaves behind
  base,         \* history: the tools the agent is built with, less those
                \* that streaming runs have taken from it
  chat,         \* the chat history of the memory provider
  metrics,      \* a.metrics: totalRuns and totalErrors
  runs,         \* runs begun, up to MaxRuns
  run           \* the run each caller is in

agentFields == <<tools, temperature, memory>>
config == <<policy, reasoning, base>>
vars == <<config, agentFields, chat, metrics, runs, run>>

Points == {"idle", "before", "call", "tools", "execute", "continue", "report",
           "question", "answer", "handler", "after", "return"}

(* singleCallPolicy: anything but "first" and "all" is "best".             *)
Policies == {"best", "first", "all"}

Replies == BoundedSeq(Calls, MaxCalls)

PlainRun == [mode |-> "auto", only |-> {}, memory |-> TRUE, hot |-> FALSE,
             skip |-> {}]

NoRun ==
  [at |-> "idle", id |-> 0, restores |-> FALSE, opts |-> PlainRun,
   saved |-> [tools |-> {}, temperature |-> "base"],
   stage |-> 0, trail |-> <<>>, native |-> FALSE, reply |-> <<>>,
   todo |-> <<>>, executed |-> <<>>, reported |-> <<>>, iteration |-> 0,
   llm |-> 0, failed |-> FALSE, used |-> "base", result |-> "none"]

TypeOK ==
  /\ policy \in Policies /\ reasoning \in BOOLEAN
  /\ tools \subseteq Tools /\ base \subseteq Tools
  /\ temperature \in {"base", "override"} /\ memory \in BOOLEAN
  /\ \A i \in DOMAIN chat :
        chat[i] \in [role : {"user", "assistant"}, by : 1..MaxRuns]
  /\ metrics \in [runs : 0..MaxRuns, errors : 0..MaxRuns]
  /\ metrics.errors <= metrics.runs
  /\ runs \in 0..MaxRuns
  /\ \A c \in Callers :
        /\ run[c].at \in Points /\ run[c].opts \in Options
        /\ run[c].stage \in 0..Len(Middlewares)
        /\ run[c].reply \in Replies /\ run[c].todo \in Replies
        /\ run[c].iteration \in 0..MaxIterations
        /\ run[c].result \in {"none", "ok", "error"}

Init ==
  /\ policy \in Policies /\ reasoning \in BOOLEAN
  /\ tools = Tools /\ base = Tools
  /\ temperature = "base" /\ memory = TRUE
  /\ chat = <<>> /\ metrics = [runs |-> 0, errors |-> 0] /\ runs = 0
  /\ run = [c \in Callers |-> NoRun]
-----------------------------------------------------------------------------
At(c, p) == run[c].at = p

(* Options that tell a run to skip the kth middleware.                     *)
Skips(o, k) == Middlewares[k] \in o.skip

(* The tools that options leave of ts; an empty list selects nothing out.  *)
Narrow(ts, o) ==
  CASE o.mode = "none" -> {}
    [] o.mode = "specific" /\ o.only # {} -> ts \cap o.only
    [] OTHER -> ts

(* Reasoning raises the one iteration of the fast path.                    *)
Iterations == IF reasoning THEN MaxIterations ELSE 1

(* One tool and several calls: only one of the calls counts.               *)
OnlyOne(calls) == Cardinality(tools) = 1 /\ Len(calls) > 1 /\ policy # "all"

(* "best" weighs the calls against the input: here, any of them.           *)
Best(calls) == {<<call>> : call \in ToSet(calls)}

Bounded == runs < MaxRuns
FirstStop == IF Middlewares = <<>> THEN "call" ELSE "before"

Run(c) ==
  /\ At(c, "idle") /\ Bounded
  /\ runs' = runs + 1
  /\ run' = [run EXCEPT ![c] =
               [NoRun EXCEPT !.at = FirstStop, !.id = runs + 1]]
  /\ UNCHANGED <<config, agentFields, chat, metrics>>

(* The override and the way back: what was read is what is restored.       *)
RunWithOptions(c, o) ==
  /\ At(c, "idle") /\ Bounded
  /\ runs' = runs + 1
  /\ run' = [run EXCEPT ![c] =
               [NoRun EXCEPT
                  !.at = FirstStop, !.id = runs + 1, !.opts = o,
                  !.restores = TRUE,
                  !.saved = [tools |-> tools, temperature |-> temperature]]]
  /\ tools' = Narrow(tools, o)
  /\ temperature' = IF o.hot THEN "override" ELSE temperature
  /\ memory' = (memory /\ o.memory)
  /\ UNCHANGED <<config, chat, metrics>>

(* RunStreamWithOptions returns as soon as the stream is open.  The copy   *)
(* of the config it works on is put back by then; the tools are not, here  *)
(* or in the goroutine of the stream (AgentStream), and the memory is not  *)
(* turned off.                                                             *)
RunStreamWithOptions(c, o) ==
  /\ At(c, "idle") /\ Bounded
  /\ runs' = runs + 1
  /\ tools' = Narrow(tools, o)
  /\ base' = Narrow(base, o)
  /\ UNCHANGED <<policy, reasoning, temperature, memory, chat, metrics, run>>
-----------------------------------------------------------------------------
(* The middleware chain.                                                   *)

(* From the first to the last: one that fails ends the run.                *)
BeforeRun(c) ==
  /\ At(c, "before")
  /\ LET k == run[c].stage + 1
         trail == IF Skips(run[c].opts, k) THEN run[c].trail
                  ELSE Append(run[c].trail, <<"before", k>>)
     IN  \/ run' = [run EXCEPT ![c].trail = trail, ![c].stage = k,
                               ![c].at = IF k = Len(Middlewares) THEN "call"
                                                                 ELSE @]
         \/ /\ ~Skips(run[c].opts, k)
            /\ run' = [run EXCEPT ![c].trail = trail, ![c].result = "error",
                                  ![c].at = "return"]
  /\ UNCHANGED <<config, agentFields, chat, metrics, runs>>

(* executeInner is over: the AfterRun hooks run, the last one first.       *)
ToAfter(r, result) ==
  [r EXCEPT !.at = IF r.stage = 0 THEN "return" ELSE "after",
            !.result = result]

(* What a hook makes of the outcome, or a skipped one leaves of it.        *)
AfterOutcomes(c, k) ==
  IF Skips(run[c].opts, k) THEN {run[c].result} ELSE {"ok", "error"}

(* Slip: AfterRun in registration order.                                   *)
AfterRunInOrder(c) ==
  /\ At(c, "after")
  /\ LET n == (Len(Middlewares) - run[c].stage) + 1 IN
       \E r \in AfterOutcomes(c, n) :
          run' = [run EXCEPT
                    ![c].trail = IF Skips(run[c].opts, n) THEN @
                                 ELSE Append(@, <<"after", n>>),
                    ![c].stage = @ - 1, ![c].result = r,
                    ![c].at = IF run[c].stage = 1 THEN "return" ELSE @]
  /\ UNCHANGED <<config, agentFields, chat, metrics, runs>>

(* From the last to the first: each passes the result and the error on, or *)
(* replaces them.                                                          *)
AfterRun(c) ==
  /\ At(c, "after")
  /\ LET k == run[c].stage IN
       \E r \in AfterOutcomes(c, k) :
          run' = [run EXCEPT
                    ![c].trail = IF Skips(run[c].opts, k) THEN @
                                 ELSE Append(@, <<"after", k>>),
                    ![c].stage = k - 1, ![c].result = r,
                    ![c].at = IF k = 1 THEN "return" ELSE @]
  /\ UNCHANGED <<config, agentFields, chat, metrics, runs>>
-----------------------------------------------------------------------------
(* The call of the provider.                                               *)

(* Slip: a prompt that does not format is tried again from the start.      *)
PromptFailsAgain(c) ==
  /\ At(c, "call")
  /\ run' = [run EXCEPT ![c].at = FirstStop, ![c].stage = 0,
                        ![c].trail = <<>>]
  /\ UNCHANGED <<config, agentFields, chat, metrics, runs>>

(* No provider, or a system prompt that does not format: not counted.      *)
PromptFails(c) ==
  /\ At(c, "call")
  /\ run' = [run EXCEPT ![c] = ToAfter(@, "error")]
  /\ UNCHANGED <<config, agentFields, chat, metrics, runs>>

CallFails(c) ==
  /\ At(c, "call")
  /\ metrics' = [runs |-> metrics.runs + 1, errors |-> metrics.errors + 1]
  /\ run' = [run EXCEPT ![c] =
               ToAfter([@ EXCEPT !.llm = 1, !.failed = TRUE,
                                 !.used = temperature], "error")]
  /\ UNCHANGED <<config, agentFields, chat, runs>>

(* A reply with structured calls takes the native loop, one with calls in  *)
(* its text, or none, the text loop; without tools there is no loop.       *)
CallSucceeds(c) ==
  /\ At(c, "call")
  /\ \E reply \in Replies, structured \in BOOLEAN :
        /\ structured => reply # <<>> /\ tools # {}
        /\ run' = [run EXCEPT
                     ![c].llm = 1, ![c].used = temperature,
                     ![c].reply = IF tools = {} THEN <<>> ELSE reply,
                     ![c].native = structured,
                     ![c].at = IF tools = {} THEN "question" ELSE "tools"]
  /\ UNCHANGED <<config, agentFields, chat, metrics, runs>>
-----------------------------------------------------------------------------
(* executeToolsAndContinue and executeNativeToolsAndContinue.              *)

SelectCalls(c) ==
  /\ At(c, "tools")
  /\ LET calls == run[c].reply IN
       \/ /\ calls = <<>>
          /\ run' = [run EXCEPT ![c].at = "report"]
       \/ /\ calls # <<>>
          /\ \E todo \in IF ~OnlyOne(calls) THEN {calls}
                         ELSE IF policy = "first" THEN {<<calls[1]>>}
                         ELSE Best(calls) :
                run' = [run EXCEPT ![c].todo = todo, ![c].at = "execute"]
  /\ UNCHANGED <<config, agentFields, chat, metrics, runs>>

(* The outcome of executeTool: a name that is not among the tools is not   *)
(* run; a tool may fail.                                                   *)
Outcome(call, ran) == [call |-> call, ran |-> ran]

Seen(c, call) ==
  run[c].native /\ \E i \in DOMAIN run[c].executed :
                      run[c].executed[i].call = call

(* Slip: a call that was already executed is executed again.               *)
ExecuteToolAgain(c) ==
  /\ At(c, "execute") /\ run[c].todo # <<>>
  /\ LET call == Head(run[c].todo) IN
       run' = [run EXCEPT
                 ![c].todo = Tail(@),
                 ![c].executed = Append(@, Outcome(call, call.tool \in tools))]
  /\ UNCHANGED <<config, agentFields, chat, metrics, runs>>

ExecuteTool(c) ==
  /\ At(c, "execute") /\ run[c].todo # <<>>
  /\ LET call == Head(run[c].todo) IN
       run' = [run EXCEPT
                 ![c].todo = Tail(@),
                 ![c].executed =
                    IF Seen(c, call) THEN @
                    ELSE Append(@, Outcome(call, call.tool \in tools))]
  /\ UNCHANGED <<config, agentFields, chat, metrics, runs>>

EndIteration(c) ==
  /\ At(c, "execute") /\ run[c].todo = <<>>
  /\ run' = [run EXCEPT
               ![c].iteration = @ + 1,
               ![c].at = IF run[c].iteration + 1 >= Iterations
                         THEN "report" ELSE "continue"]
  /\ UNCHANGED <<config, agentFields, chat, metrics, runs>>

(* The results go back to the provider; if that call fails the run goes on *)
(* with what it has.                                                       *)
Continue(c) ==
  /\ At(c, "continue")
  /\ \/ run' = [run EXCEPT ![c].llm = @ + 1, ![c].at = "report"]
     \/ \E reply \in Replies :
           run' = [run EXCEPT ![c].llm = @ + 1, ![c].at = "tools",
                              ![c].reply = reply]
  /\ UNCHANGED <<config, agentFields, chat, metrics, runs>>

(* Result.ToolCalls: what was executed, or the best call of it.            *)
Report(c) ==
  /\ At(c, "report")
  /\ \E calls \in IF OnlyOne(run[c].executed)
                  THEN Best(run[c].executed)
                  ELSE {run[c].executed} :
        run' = [run EXCEPT ![c].reported = calls, ![c].at = "question"]
  /\ UNCHANGED <<config, agentFields, chat, metrics, runs>>
-----------------------------------------------------------------------------
(* storeInMemory, and the handler.                                         *)
Message(c, role) == [role |-> role, by |-> run[c].id]

(* Slip: the answer is stored also when the question could not be.         *)
StoreQuestionAnyway(c) ==
  /\ At(c, "question")
  /\ \/ ~memory /\ run' = [run EXCEPT ![c].at = "handler"] /\ UNCHANGED chat
     \/ /\ memory /\ chat' \in {chat, Append(chat, Message(c, "user"))}
        /\ run' = [run EXCEPT ![c].at = "answer"]
  /\ UNCHANGED <<config, agentFields, metrics, runs>>

(* A question that cannot be stored ends the storing, not the run.         *)
StoreQuestion(c) ==
  /\ At(c, "question")
  /\ \/ chat' = chat /\ run' = [run EXCEPT ![c].at = "handler"]
     \/ /\ memory
        /\ chat' = Append(chat, Message(c, "user"))
        /\ run' = [run EXCEPT ![c].at = "answer"]
  /\ UNCHANGED <<config, agentFields, metrics, runs>>

StoreAnswer(c) ==
  /\ At(c, "answer")
  /\ chat' \in {chat, Append(chat, Message(c, "assistant"))}
  /\ run' = [run EXCEPT ![c].at = "handler"]
  /\ UNCHANGED <<config, agentFields, metrics, runs>>

(* A handler that fails is only logged; the run is counted a success.      *)
Handle(c) ==
  /\ At(c, "handler")
  /\ metrics' = [metrics EXCEPT !.runs = @ + 1]
  /\ run' = [run EXCEPT ![c] = ToAfter(@, "ok")]
  /\ UNCHANGED <<config, agentFields, chat, runs>>

(* Slip: a run that failed skips the restore.                              *)
ReturnUnrestored(c) ==
  /\ At(c, "return")
  /\ IF run[c].restores /\ run[c].result = "ok"
     THEN /\ tools' = run[c].saved.tools
          /\ temperature' = run[c].saved.temperature
          /\ memory' = (memory \/ ~run[c].opts.memory)
     ELSE UNCHANGED agentFields
  /\ run' = [run EXCEPT ![c] = NoRun]
  /\ UNCHANGED <<config, chat, metrics, runs>>

(* The deferred restores run on every way out of RunWithOptions.           *)
Return(c) ==
  /\ At(c, "return")
  /\ IF run[c].restores
     THEN /\ tools' = run[c].saved.tools
          /\ temperature' = run[c].saved.temperature
          /\ memory' = (memory \/ ~run[c].opts.memory)
     ELSE UNCHANGED agentFields
  /\ run' = [run EXCEPT ![c] = NoRun]
  /\ UNCHANGED <<config, chat, metrics, runs>>
-----------------------------------------------------------------------------
Step(c) ==
  \/ BeforeRun(c) \/ PromptFails(c) \/ CallFails(c) \/ CallSucceeds(c)
  \/ SelectCalls(c) \/ ExecuteTool(c) \/ EndIteration(c) \/ Continue(c)
  \/ Report(c) \/ StoreQuestion(c) \/ StoreAnswer(c) \/ Handle(c)
  \/ AfterRun(c) \/ Return(c)

Next ==
  \E c \in Callers :
     \/ Run(c)
     \/ \E o \in OptionSet : RunWithOptions(c, o)
     \/ \E o \in StreamOptions : RunStreamWithOptions(c, o)
     \/ Step(c)

Spec == Init /\ [][Next]_vars

(* Providers, tools, middlewares and handlers return; callers need not     *)
(* come back.                                                              *)
FairSpec == Spec /\ \A c \in Callers : WF_vars(Step(c))
-----------------------------------------------------------------------------
(* RunWithOptions, agent_impl.go:769 "without modifying the agent's base   *)
(* configuration": once no run is going on the agent has the temperature   *)
(* and the memory it was built with, and all of its tools but those that   *)
(* streaming runs took away, whatever runs came in between.                *)
BaseConfigKept ==
  (\A c \in Callers : At(c, "idle")) =>
     tools = base /\ temperature = "base" /\ memory

(* What a run's options asked for holds until it returns: the provider was *)
(* called with the run's temperature, and only tools it allows were run.   *)
OptionsHold ==
  \A c \in Callers :
     /\ run[c].llm > 0 =>
          (run[c].used = "override") = run[c].opts.hot
     /\ \A i \in DOMAIN run[c].executed :
          run[c].executed[i].ran =>
            run[c].executed[i].call.tool \in Narrow(base, run[c].opts)

(* Options apply to their own run: during it, and not after it.            *)
OptionsScoped == BaseConfigKept /\ OptionsHold

(* The middlewares options do not skip, and the place of one among them.   *)
Kept(o) == {k \in DOMAIN Middlewares : ~Skips(o, k)}
Rank(o, k) == Cardinality({j \in Kept(o) : j <= k})

(* agent.go:491-496: BeforeRun in registration order, AfterRun in reverse, *)
(* skipped middlewares in neither.  A BeforeRun that fails ends the run    *)
(* before any provider call and without an AfterRun.                       *)
MiddlewareNesting ==
  \A c \in Callers :
     At(c, "return") =>
       LET kept == Kept(run[c].opts)
           rank(k) == Rank(run[c].opts, k)
           n == Cardinality(kept)
           trail == run[c].trail
       IN  \/ /\ Len(trail) = 2 * n
              /\ \A k \in kept :
                   /\ trail[rank(k)] = <<"before", k>>
                   /\ trail[2 * n + 1 - rank(k)] = <<"after", k>>
           \/ \E last \in kept :
                /\ Len(trail) = rank(last)
                /\ \A k \in kept :
                     k <= last => trail[rank(k)] = <<"before", k>>
                /\ run[c].llm = 0 /\ run[c].result = "error"

(* The loop between provider and tools ends within its budget, and with a  *)
(* single tool it executes one call an iteration unless told otherwise.    *)
ToolBudget ==
  \A c \in Callers :
     /\ run[c].llm <= Iterations
     /\ Cardinality(Narrow(base, run[c].opts)) = 1 /\ policy # "all" =>
          Len(run[c].executed) <= run[c].iteration + 1

(* agent_impl.go:1815 "avoid duplicate executions within the same run".    *)
ExecutedOnce ==
  \A c \in Callers :
     run[c].native =>
       \A i, j \in DOMAIN run[c].executed :
          run[c].executed[i].call = run[c].executed[j].call => i = j

(* The tool calls of a result are calls that were executed, and all of     *)
(* them unless the agent has a single tool.                                *)
ReportedExecuted ==
  \A c \in Callers :
     At(c, "return") =>
       \/ run[c].reported = run[c].executed
       \/ /\ Cardinality(Narrow(base, run[c].opts)) = 1 /\ policy # "all"
          /\ Len(run[c].reported) = 1
          /\ run[c].reported[1] \in ToSet(run[c].executed)

(* The tool loop is bounded, repeats nothing and reports what it did.      *)
ToolInv == TypeOK /\ ToolBudget /\ ExecutedOnce /\ ReportedExecuted

(* In the chat history an answer follows the question of the same run.     *)
AnswerFollowsQuestion ==
  \A i \in DOMAIN chat :
     chat[i].role = "assistant" =>
       i > 1 /\ chat[i - 1] = [role |-> "user", by |-> chat[i].by]

(* The provider was not called, or failed at the first call.               *)
Unanswered(c) ==
  At(c, "return") /\ (run[c].llm = 0 \/ run[c].failed)

(* A run that may not use the memory, or that got no answer, leaves no     *)
(* message behind.                                                         *)
SilentRuns ==
  \A c \in Callers :
     ~run[c].opts.memory \/ Unanswered(c) =>
       \A i \in DOMAIN chat : chat[i].by # run[c].id

(* The history holds whole exchanges, of runs that may leave one.          *)
HistoryPaired == AnswerFollowsQuestion /\ SilentRuns

(* Every run returns.                                                      *)
RunReturns == \A c \in Callers : (~At(c, "idle")) ~> At(c, "idle")
=============================================================================
