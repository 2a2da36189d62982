---------------------------- MODULE AgentStream ----------------------------
(***************************************************************************)
(* realAgent.RunStream of v1beta/agent_impl.go over the stream of module   *)
(* Stream: the goroutine that builds the prompt, opens the provider's      *)
(* token channel, forwards tokens, runs the tools the answer asks for,     *)
(* stores the exchange and closes the stream.  The provider is external:   *)
(* it sends tokens, ends or fails when it likes, and must end only if the  *)
(* context it was given, the caller's, is done.                            *)
(*                                                                         *)
(* The goroutine runs while pc[Agent] is "ready", i.e. when no Write of    *)
(* its is in progress, and ignores what Write returns.                     *)
(***************************************************************************)
EXTENDS Stream

CONSTANTS
  Agent,          \* the goroutine, the only writer
  MaxTokens,      \* bound: tokens the provider sends
  MaxTools,       \* bound: tool calls in the answer
  RunTimeouts     \* does RunStreamWithOptions have runOpts.Timeout > 0?

ASSUME AgentAssumption ==
  /\ Writers = {Agent}
  /\ MaxTokens \in Nat /\ MaxTools \in Nat
  /\ MaxChunks >= MaxTokens + 2 * MaxTools + 2
  /\ RunTimeouts \in (SUBSET BOOLEAN) \ {{}}

VARIABLES
  step,        \* what the goroutine does next
  tokens,      \* tokens forwarded
  tools,       \* tool calls still to run
  callerDone,  \* the caller's context, which the provider sees, is done
  inCall,      \* RunStream has not returned to its caller yet
  failed       \* history: the run took an error return

agentVars == <<step, tokens, tools, callerDone, inCall, failed>>
allVars == <<vars, agentVars>>

Steps == {"prompt", "connect", "tokens", "tool", "toolResult", "store",
          "finish", "last", "return", "gone"}

AgentTypeOK ==
  /\ TypeOK
  /\ step \in Steps
  /\ tokens \in 0..MaxTokens
  /\ tools \in 0..MaxTools
  /\ {callerDone, inCall, failed} \subseteq BOOLEAN

AgentInit ==
  /\ Init
  /\ step = "prompt"
  /\ tokens = 0
  /\ tools = 0
  /\ callerDone = FALSE
  /\ inCall = TRUE
  /\ failed = FALSE
-----------------------------------------------------------------------------
(* One call of writer.Write: filtered, refused or begun.                   *)
CallWrite(kind) ==
  IF Filtered(kind) THEN pc[Agent] = "ready" /\ UNCHANGED vars
                    ELSE WriteBegin(Agent, kind) \/ WriteRefused(Agent)

At(s) == step = s /\ pc[Agent] = "ready"

(* Slip: the error is not written to the stream.                           *)
FailSilently ==
  /\ UNCHANGED vars
  /\ step' = "return"
  /\ failed' = TRUE
  /\ UNCHANGED <<tokens, tools, callerDone, inCall>>

(* Every error return of the goroutine: an error chunk, no CloseWithError. *)
Fail ==
  /\ CallWrite("error")
  /\ step' = "return"
  /\ failed' = TRUE
  /\ UNCHANGED <<tokens, tools, callerDone, inCall>>

FormatPrompt ==
  /\ At("prompt")
  /\ \/ Fail
     \/ /\ step' = "connect"
        /\ UNCHANGED <<vars, tokens, tools, callerDone, inCall, failed>>

ProviderStream ==
  /\ At("connect")
  /\ \/ Fail
     \/ /\ ~callerDone
        /\ step' = "tokens"
        /\ UNCHANGED <<vars, tokens, tools, callerDone, inCall, failed>>

ForwardToken ==
  /\ At("tokens")
  /\ tokens < MaxTokens
  /\ CallWrite("delta")
  /\ tokens' = tokens + 1
  /\ UNCHANGED <<step, tools, callerDone, inCall, failed>>

TokenError == At("tokens") /\ Fail

(* The provider closes the channel; the answer asks for n tool calls.      *)
TokensEnd ==
  /\ At("tokens")
  /\ \E n \in 0..MaxTools : tools' = n
  /\ step' = IF tools' = 0 THEN "store" ELSE "tool"
  /\ UNCHANGED <<vars, tokens, callerDone, inCall, failed>>

AnnounceTool ==
  /\ At("tool")
  /\ CallWrite("tool")
  /\ step' = "toolResult"
  /\ UNCHANGED <<tokens, tools, callerDone, inCall, failed>>

(* executeTool ran, well or not: either way its result is one chunk.       *)
ReportTool ==
  /\ At("toolResult")
  /\ CallWrite("tool")
  /\ tools' = tools - 1
  /\ step' = IF tools' = 0 THEN "store" ELSE "tool"
  /\ UNCHANGED <<tokens, callerDone, inCall, failed>>

(* storeInMemory; a failure is reported as a thought and does not stop.    *)
StoreExchange ==
  /\ At("store")
  /\ CallWrite("thought") \/ UNCHANGED vars
  /\ step' = "finish"
  /\ UNCHANGED <<tokens, tools, callerDone, inCall, failed>>

(* Slip: the completion chunk goes out before the result is set, and the   *)
(* result is set on the error path only.                                   *)
PublishResultLost ==
  /\ At("finish")
  /\ step' = "last"
  /\ UNCHANGED <<vars, tokens, tools, callerDone, inCall, failed>>

PublishResult ==
  /\ At("finish")
  /\ result' = "result"
  /\ step' = "last"
  /\ UNCHANGED <<chunks, closed, ctxDone, cancelled, err, writeVars, producer,
                 clientVars, tokens, tools, callerDone, inCall, failed>>

WriteDone ==
  /\ At("last")
  /\ CallWrite("done")
  /\ step' = "return"
  /\ UNCHANGED <<tokens, tools, callerDone, inCall, failed>>

AgentCloses ==
  /\ At("return")
  /\ CloseWithError("nil")
  /\ producer' = "gone"
  /\ step' = "gone"
  /\ UNCHANGED <<result, tokens, tools, callerDone, inCall, failed>>
-----------------------------------------------------------------------------
(* The caller's context ends; the stream's context is derived from it.     *)
CallerContextDone ==
  /\ ~callerDone
  /\ callerDone' = TRUE
  /\ ctxDone' = TRUE
  /\ cancelled' = (cancelled \/ ~closed)
  /\ UNCHANGED <<chunks, closed, result, err, writeVars, producer, clientVars,
                 step, tokens, tools, failed>>

CallerCancels ==
  /\ MayCancel
  /\ CallerContextDone
  /\ UNCHANGED inCall

(* RunStream has started the goroutine and returns.  In                    *)
(* RunStreamWithOptions the deferred cancel of the run timeout runs now.   *)
CallReturns ==
  /\ inCall
  /\ inCall' = FALSE
  /\ \E timeout \in RunTimeouts :
       IF timeout /\ ~callerDone
         THEN CallerContextDone
         ELSE UNCHANGED <<vars, step, tokens, tools, callerDone, failed>>

StreamStep ==
  /\ \/ ReadIndex(Agent) \/ StoreIndex(Agent)
     \/ HandlerAccepts(Agent) \/ HandlerStops(Agent)
     \/ Send(Agent) \/ SendCancelled(Agent)
  /\ UNCHANGED agentVars

(* The consumer has the stream only once the call has returned.            *)
ConsumerStep ==
  ~inCall /\ Consume /\ UNCHANGED agentVars

Leave ==
  ~inCall /\ (BreakOut \/ Cancel) /\ UNCHANGED agentVars

StreamTimeout == TimeoutFires /\ UNCHANGED agentVars

AgentTerminated == Terminated /\ ~inCall /\ UNCHANGED agentVars

(* Steps the goroutine takes on its own, and steps that wait for the       *)
(* provider.                                                               *)
AgentStep ==
  \/ FormatPrompt \/ AnnounceTool \/ ReportTool \/ StoreExchange
  \/ PublishResult \/ WriteDone \/ AgentCloses
ProviderStep == ProviderStream \/ ForwardToken \/ TokenError \/ TokensEnd

AgentNext ==
  \/ AgentStep \/ ProviderStep \/ StreamStep \/ ConsumerStep \/ Leave
  \/ StreamTimeout \/ CallerCancels \/ CallReturns \/ AgentTerminated

AgentSpec == AgentInit /\ [][AgentNext]_allVars

(* The runtime runs the goroutines and the timer; the caller returns and   *)
(* reads.  The provider goes on and ends: the run waits for it with no way *)
(* to leave, and the provider sees the caller's context, not the stream's, *)
(* so neither Cancel nor the stream timeout reaches a silent provider.     *)
AgentFairSpec ==
  /\ AgentSpec
  /\ WF_allVars(AgentStep) /\ WF_allVars(ProviderStep)
  /\ WF_allVars(StreamStep) /\ WF_allVars(StreamTimeout)
  /\ WF_allVars(CallReturns) /\ WF_allVars(ConsumerStep)
-----------------------------------------------------------------------------
(* streaming.go:117 "Errors are returned via error chunks": a consumer     *)
(* that ranges to the end of a stream nobody cancelled finds the error     *)
(* chunk of a failed run last, and of no other run.                        *)
ErrorReported ==
  consumer = "returned" /\ chunks = <<>> /\ ~cancelled /\ ~Filtered("error") =>
    (failed <=> received # <<>> /\ received[Len(received)].kind = "error")

(* What a reader may rely on, with the numbering of the chunks.            *)
AgentInv == AgentTypeOK /\ IndexSequence /\ ErrorReported

(* A completion chunk is backed by a result: whoever saw "done" gets a     *)
(* result from Wait, whatever was cancelled meanwhile.                     *)
DoneMeansResult ==
  /\ consumer = "returned"
  /\ \E i \in DOMAIN received : received[i].kind = "done"
  => result = "result" /\ ~failed

(* With a provider that ends, every call of RunStream ends in a closed     *)
(* stream and a Wait that returns.                                         *)
StreamEnds == <>(step = "gone" /\ consumer = "returned")
=============================================================================
