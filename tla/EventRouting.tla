---------------------------- MODULE EventRouting ----------------------------
(***************************************************************************)
(* What the runner's loop (core/runner.go) does with one event, together   *)
(* with the parts it calls: the callback registry (core/factory.go), the   *)
(* route orchestrator (internal/orchestrator/route.go) and the error       *)
(* router, the basic one of core/error_handling.go or the one of           *)
(* internal/core/error_handling, which replaces it in a program that       *)
(* imports that package.  Starting and stopping the loop, and waiting for  *)
(* room in the queue, are in Runner; here the loop's own Emit may fail.    *)
(*                                                                         *)
(* An event is a stack of frames: the event as such on top; under an error *)
(* event the event it is about (error_data.original_event); under that, if *)
(* it is an error event too, the one that one is about.                    *)
(* A session is "none", the one the caller "given" to a first event, the   *)
(* first event's "own" id, or any "other" id.                              *)
(* The State handed from callback to callback is left out.                 *)
(***************************************************************************)
EXTENDS Naturals, Sequences, SequencesExt, FiniteSets

CONSTANTS
  Names,             \* what events may be routed to
  Team,              \* those with a handler at the start
  ErrorHandlers,     \* the application's error handlers: they do not fail
  Codes,             \* the error codes that occur
  ErrorHandlerName, SeverityHandlers, CategoryHandlers,  \* the configuration
  MaxRetries,        \* the same
  Registrations,     \* callbacks that may be registered
  MaxEmits,          \* bound: events emitted by callers
  MaxRoutes,         \* bound: routes followed from a caller's event
  MaxFaults,         \* bound: callbacks that fail
  MaxChanges         \* bound: changes of who is registered

Hooks == {"BeforeEventHandling", "BeforeAgentRun", "AfterAgentRun",
          "AgentError", "AfterEventHandling", "AllHooks"}

ASSUME EventRoutingAssumption ==
  /\ ErrorHandlers \subseteq Names /\ Team \subseteq Names
  /\ ErrorHandlerName \in ErrorHandlers \cap Team
  /\ \A c \in Codes : c \in {"VALIDATION", "TIMEOUT", "LLM", "NETWORK", "AUTH",
                             "RESOURCE", "UNKNOWN"}
  /\ {"VALIDATION", "UNKNOWN"} \subseteq Codes
  /\ "error-handler" \in Names  \* the basic router's
  /\ \A s \in DOMAIN SeverityHandlers : SeverityHandlers[s] \in Names
  /\ \A c \in DOMAIN CategoryHandlers : CategoryHandlers[c] \in Names
  /\ "none" \notin Names
  /\ IsFiniteSet(Registrations)
  /\ \A r \in Registrations : r.hook \in Hooks
  /\ MaxRetries \in Nat /\ MaxEmits \in Nat /\ MaxRoutes \in Nat
  /\ MaxFaults \in Nat /\ MaxChanges \in Nat

VARIABLES
  router,      \* which error router the program has
  handlers,    \* names with a handler
  callbacks,   \* the registry: a sequence of callbacks for each hook
  changes,     \* registrations so far
  waiting,     \* the runner's queue
  emitted,     \* events callers have emitted
  session,     \* history: the session each caller's event came to have
  faults,      \* callbacks that failed

  stage,       \* where the loop is
  event,       \* the event it handles
  reading,     \* Invoke holds the registry's read lock
  todo,        \* the callbacks Invoke has still to call
  lastErr,     \* one of them has failed
  vetoed,      \* history: one of the runner's own, before the agent
  error,       \* agentErr: a code or "none"
  route,       \* the route the agent's output names, or "none"
  trail,       \* history: hooks invoked and agents run for this event
  unanswered,  \* history: caller's events with a failure no handler has seen
  lost         \* history: those of which an event was refused or skipped

invokeVars == <<reading, todo, lastErr, vetoed>>
handleVars == <<stage, event, error, route, trail>>
queueVars == <<waiting, emitted, session, unanswered, lost>>
fixedVars == <<router, handlers, callbacks, changes, faults>>
routingVars == <<fixedVars, queueVars, handleVars, invokeVars>>

(* The hook each stage of the loop invokes.                                *)
HookOf == [beforeEvent |-> "BeforeEventHandling",
           beforeAgent |-> "BeforeAgentRun",      \* the runner's
           beforeRun   |-> "BeforeAgentRun",      \* the orchestrator's
           afterRun    |-> "AfterAgentRun",
           runError    |-> "AgentError",          \* the orchestrator's
           agentError  |-> "AgentError",          \* the runner's
           afterEvent  |-> "AfterEventHandling"]

Stages == DOMAIN HookOf \cup {"idle", "dispatch", "run", "result"}
Sessions == {"none", "given", "own", "other"}
Actions == {"none", "retry", "fallback", "escalate", "terminate"}
Routes == Names \cup {"none"}

(* retries is what the metadata says; tries, a history, how often it was,   *)
(* up to one more than MaxRetries.                                         *)
Frame == [route : Routes, retries : Nat, tries : Nat, action : Actions]
RoutedEvent == [n : 1..MaxEmits, from : {"caller", "loop"}, session : Sessions,
          hop : 0..MaxRoutes, frames : Seq(Frame)]
Plain(r) == [route |-> r, retries |-> 0, tries |-> 0, action |-> "none"]
NoRoutedEvent == [n |-> 0, from |-> "none", session |-> "none", hop |-> 0,
            frames |-> <<>>]

RoutingTypeOK ==
  /\ router \in {"basic", "internal"} /\ handlers \subseteq Names
  /\ callbacks \in [Hooks -> Seq({r.name : r \in Registrations})]
  /\ waiting \in Seq(RoutedEvent)
  /\ emitted \in 0..MaxEmits
  /\ session \in [1..MaxEmits -> Sessions]
  /\ faults \in 0..MaxFaults /\ changes \in 0..MaxChanges
  /\ stage \in Stages /\ event \in RoutedEvent \cup {NoRoutedEvent}
  /\ reading \in BOOLEAN /\ lastErr \in BOOLEAN /\ vetoed \in BOOLEAN
  /\ error \in Codes \cup {"none"} /\ route \in Routes
  /\ stage \in {"beforeEvent", "beforeAgent", "dispatch", "run"} =>
       error = "none" /\ route = "none"
  /\ unanswered \subseteq 1..MaxEmits /\ lost \subseteq 1..MaxEmits

RoutingInit ==
  /\ router \in {"basic", "internal"}
  /\ handlers = Team
  /\ \E some \in {{}, Registrations} :
       callbacks = [h \in Hooks |->
                      SetToSeq({r.name : r \in {q \in some : q.hook = h}})]
  /\ changes = 0
  /\ waiting = <<>> /\ emitted = 0 /\ session = [n \in 1..MaxEmits |-> "none"]
  /\ faults = 0 /\ stage = "idle" /\ event = NoRoutedEvent
  /\ reading = FALSE /\ todo = <<>> /\ lastErr = FALSE /\ vetoed = FALSE
  /\ error = "none" /\ route = "none" /\ trail = <<>>
  /\ unanswered = {} /\ lost = {}
-----------------------------------------------------------------------------
(* Others: registrations and callers.                                      *)

Change == changes < MaxChanges /\ changes' = changes + 1

(* The route orchestrator locks its map for the lookup only.               *)
RegisterAgent(a) ==
  /\ a \notin handlers /\ Change
  /\ handlers' = handlers \cup {a}
  /\ UNCHANGED <<router, callbacks, faults, queueVars, handleVars, invokeVars>>

(* Slip: Invoke holds the lock only while it copies the list.              *)
MayWriteAnytime == TRUE

MayWrite == ~reading

(* A name is registered once for a hook.                                   *)
Register(r) ==
  /\ MayWrite /\ Change
  /\ ~Contains(callbacks[r.hook], r.name)
  /\ callbacks' = [callbacks EXCEPT ![r.hook] = Append(@, r.name)]
  /\ UNCHANGED <<router, handlers, faults, queueVars, handleVars, invokeVars>>

Unregister(r) ==
  /\ MayWrite /\ Change
  /\ \E i \in DOMAIN callbacks[r.hook] :
       /\ callbacks[r.hook][i] = r.name
       /\ callbacks' = [callbacks EXCEPT ![r.hook] = RemoveAt(@, i)]
  /\ UNCHANGED <<router, handlers, faults, queueVars, handleVars, invokeVars>>

EmitEvent(r, s) ==
  /\ emitted < MaxEmits
  /\ emitted' = emitted + 1
  /\ waiting' = Append(waiting, [n |-> emitted + 1, from |-> "caller",
                             session |-> s, hop |-> 0,
                             frames |-> <<Plain(r)>>])
  /\ UNCHANGED <<session, unanswered, lost, fixedVars, handleVars, invokeVars>>
-----------------------------------------------------------------------------
(* The registry's Invoke, on behalf of a stage.                            *)
Registered(s) == callbacks[HookOf[s]] \o callbacks["AllHooks"]

Invoke ==
  /\ stage \in DOMAIN HookOf /\ ~reading /\ Registered(stage) # <<>>
  /\ reading' = TRUE /\ lastErr' = FALSE
  /\ todo' = Registered(stage)
  /\ UNCHANGED <<vetoed, handleVars, fixedVars, queueVars>>

Veto == vetoed' = (vetoed \/ stage \in {"beforeEvent", "beforeAgent"})

(* Slip: the last callback decides.                                        *)
RunCallbackLast ==
  /\ reading /\ todo # <<>>
  /\ todo' = Tail(todo)
  /\ \/ lastErr' = FALSE /\ UNCHANGED <<vetoed, faults>>
     \/ faults < MaxFaults /\ faults' = faults + 1 /\ lastErr' = TRUE /\ Veto
  /\ UNCHANGED <<router, handlers, callbacks, changes, reading, handleVars,
                 queueVars>>

(* A callback that fails does not keep the next from running.              *)
RunCallback ==
  /\ reading /\ todo # <<>>
  /\ todo' = Tail(todo)
  /\ \/ UNCHANGED <<lastErr, vetoed, faults>>
     \/ faults < MaxFaults /\ faults' = faults + 1 /\ lastErr' = TRUE /\ Veto
  /\ UNCHANGED <<router, handlers, callbacks, changes, reading, handleVars,
                 queueVars>>

(* It has returned: at once when nothing is registered.                    *)
Invoked(s) ==
  /\ stage = s /\ todo = <<>> /\ (reading \/ Registered(s) = <<>>)
  /\ reading' = FALSE /\ lastErr' = FALSE
  /\ trail' = Append(trail, s)
  /\ UNCHANGED <<todo, vetoed>>
-----------------------------------------------------------------------------
(* The loop.                                                               *)

(* The loop's own Emit; the queue may be full of others' events.           *)
Emit(e) ==
  \/ waiting' = Append(waiting, e) /\ UNCHANGED lost
  \/ lost' = lost \cup {e.n} /\ UNCHANGED waiting

(* An event without a session is given its own id for one.                 *)
Settled(e) ==
  IF e.session # "none" THEN e
  ELSE [e EXCEPT !.session = IF e.from = "caller" THEN "own" ELSE "other"]

TakeEvent ==
  /\ stage = "idle" /\ waiting # <<>>
  /\ waiting' = Tail(waiting) /\ event' = Settled(Head(waiting))
  /\ session' = IF event'.from = "caller"
                THEN [session EXCEPT ![event'.n] = event'.session]
                ELSE session
  /\ stage' = "beforeEvent" /\ error' = "none" /\ route' = "none"
  /\ trail' = <<>> /\ vetoed' = FALSE
  /\ UNCHANGED <<emitted, unanswered, lost, fixedVars, reading, todo, lastErr>>

Target == Head(event.frames).route

(* Slip: the agent's own metadata comes last.                              *)
SuccessEventOwnMeta(e, r, s) ==
  [e EXCEPT !.frames = <<Plain(r)>>, !.from = "loop", !.hop = @ + 1,
            !.session = s]

(* The output's metadata becomes the event's, but for the session.         *)
SuccessEvent(e, r, s) ==
  [e EXCEPT !.frames = <<Plain(r)>>, !.from = "loop", !.hop = @ + 1]

(* A failing callback here makes the loop skip the event.                  *)
BeforeEventDone ==
  /\ Invoked("beforeEvent")
  /\ stage' = IF lastErr THEN "idle" ELSE "beforeAgent"
  /\ event' = IF lastErr THEN NoRoutedEvent ELSE event
  /\ lost' = IF lastErr THEN lost \cup {event.n} ELSE lost
  /\ UNCHANGED <<error, route, fixedVars, waiting, emitted, session,
                 unanswered>>

(* Here it stands for the agent's error, of any kind.                      *)
BeforeAgentDone ==
  /\ Invoked("beforeAgent")
  /\ IF lastErr THEN stage' = "agentError" /\ error' \in Codes
                ELSE stage' = "dispatch" /\ UNCHANGED error
  /\ UNCHANGED <<event, route, fixedVars, queueVars>>

(* "missing routing key" reads as a validation error, and "no agent        *)
(* handler registered" as an unknown one.                                  *)
Dispatch ==
  /\ stage = "dispatch"
  /\ CASE Target = "none" -> stage' = "agentError" /\ error' = "VALIDATION"
       [] Target \in Names \ handlers ->
            stage' = "agentError" /\ error' = "UNKNOWN"
       [] Target \in handlers -> stage' = "beforeRun" /\ UNCHANGED error
  /\ UNCHANGED <<event, route, trail, fixedVars, queueVars, invokeVars>>

(* The orchestrator only logs the error.                                   *)
BeforeRunDone ==
  /\ Invoked("beforeRun")
  /\ stage' = "run"
  /\ UNCHANGED <<event, error, route, fixedVars, queueVars>>
-----------------------------------------------------------------------------
(* The agent: code of the application.                                     *)
Ran(next) ==
  /\ stage = "run" /\ stage' = next
  /\ trail' = Append(trail, "run")
  /\ UNCHANGED <<event, fixedVars, invokeVars, emitted, session>>

Seen == IF Target \in ErrorHandlers THEN unanswered \ {event.n} ELSE unanswered

AgentSucceeds(r) ==
  /\ Ran("afterRun")
  /\ r # "none" => event.hop < MaxRoutes
  /\ route' = r
  /\ unanswered' = Seen
  /\ UNCHANGED <<error, waiting, lost>>

AgentFails(code) ==
  /\ Ran("runError") /\ Target \notin ErrorHandlers
  /\ error' = code
  /\ UNCHANGED <<route, waiting, lost, unanswered>>

(* getRetryCount: what the metadata says, as far as it is understood.      *)
RetryCount(n) == IF n \in 1..3 THEN n ELSE 0

More(tries) == IF tries > MaxRetries THEN tries ELSE tries + 1

(* Slip: the count is lost.                                                *)
IncrementRetryCountBasic(e) == [e EXCEPT !.frames[1].tries = More(@)]

IncrementRetryCount(e) ==
  [e EXCEPT !.frames[1].retries = RetryCount(@) + 1,
            !.frames[1].tries = More(@)]

(* A handler that follows the recommendation to retry emits the original   *)
(* event, counted.                                                         *)
HandlerRetries ==
  /\ Ran("afterRun") /\ Target \in ErrorHandlers
  /\ Head(event.frames).action = "retry"
  /\ unanswered' = Seen
  /\ Emit(IncrementRetryCount([event EXCEPT !.frames = Tail(@)]))
  /\ UNCHANGED <<error, route>>

(* EnsureProperRouting makes an event for a changed route, and drops it:   *)
(* the orchestrator has no emitter.                                        *)
AfterRunDone ==
  /\ Invoked("afterRun") \/ Invoked("runError")
  /\ stage' = IF error = "none" THEN "result" ELSE "agentError"
  /\ UNCHANGED <<event, error, route, fixedVars, queueVars>>

AgentErrorDone ==
  /\ Invoked("agentError")
  /\ stage' = "result"
  /\ UNCHANGED <<event, error, route, fixedVars, queueVars>>
-----------------------------------------------------------------------------
(* processAgentResult and the error routers.                               *)
Severity(code) ==
  CASE code \in {"TIMEOUT", "NETWORK"} -> "high"
    [] code \in {"AUTH", "RESOURCE"} -> "critical"
    [] OTHER -> "medium"

ErrorHandlerOf(code) ==
  IF Severity(code) \in DOMAIN SeverityHandlers
  THEN SeverityHandlers[Severity(code)]
  ELSE IF code \in DOMAIN CategoryHandlers THEN CategoryHandlers[code]
  ELSE ErrorHandlerName

(* determineRecoveryAction.                                                *)
Recovery(code, count) ==
  CASE code \in {"AUTH", "RESOURCE"} -> "escalate"
    [] code = "VALIDATION" -> "terminate"
    [] code \in {"TIMEOUT", "NETWORK", "LLM"} ->
         IF count >= MaxRetries THEN "fallback" ELSE "retry"
    [] OTHER -> IF count >= MaxRetries THEN "escalate" ELSE "retry"

(* CreateEnhancedErrorEvent.  The basic router's event names neither the   *)
(* session, nor the original event, nor an action.                         *)
ErrorEvent(e, code) ==
  LET action == Recovery(code, RetryCount(Head(e.frames).retries))
      frame == [Plain(ErrorHandlerOf(code)) EXCEPT !.action = action]
  IN  IF router = "basic"
      THEN [e EXCEPT !.frames = <<Plain("error-handler")>>, !.from = "loop",
                     !.session = "none"]
      ELSE [e EXCEPT !.frames = <<frame>> \o @, !.from = "loop"]

(* Slip: a failure is logged, and no event goes out.                       *)
ProcessSuccess ==
  /\ stage = "result"
  /\ IF error = "none" /\ route # "none"
       THEN \E s \in {"none", "other"} : Emit(SuccessEvent(event, route, s))
       ELSE UNCHANGED <<waiting, lost>>
  /\ unanswered' = IF error = "none" THEN unanswered
                                     ELSE unanswered \cup {event.n}
  /\ stage' = "afterEvent"
  /\ UNCHANGED <<event, error, route, trail, emitted, session, fixedVars,
                 invokeVars>>

(* An error makes an event for the handler; an output that names a route   *)
(* makes one for that.  s is the session in the output's own metadata.     *)
ProcessAgentResult ==
  /\ stage = "result"
  /\ CASE error # "none" -> Emit(ErrorEvent(event, error))
       [] error = "none" /\ route # "none" ->
            \E s \in {"none", "other"} : Emit(SuccessEvent(event, route, s))
       [] OTHER -> UNCHANGED <<waiting, lost>>
  /\ unanswered' = IF error = "none" THEN unanswered
                                     ELSE unanswered \cup {event.n}
  /\ stage' = "afterEvent"
  /\ UNCHANGED <<event, error, route, trail, emitted, session, fixedVars,
                 invokeVars>>

AfterEventDone ==
  /\ Invoked("afterEvent")
  /\ stage' = "idle" /\ event' = NoRoutedEvent
  /\ UNCHANGED <<error, route, fixedVars, queueVars>>
-----------------------------------------------------------------------------
Run == (\E r \in Routes : AgentSucceeds(r)) \/ (\E c \in Codes : AgentFails(c))
       \/ HandlerRetries

Loop == \/ TakeEvent \/ Invoke \/ RunCallback \/ BeforeEventDone
        \/ BeforeAgentDone \/ Dispatch \/ BeforeRunDone \/ Run
        \/ AfterRunDone \/ AgentErrorDone \/ ProcessAgentResult
        \/ AfterEventDone

RoutingNext ==
  \/ Loop
  \/ \E a \in Names : RegisterAgent(a)
  \/ \E r \in Registrations : Register(r) \/ Unregister(r)
  \/ \E r \in Routes, s \in {"none", "given"} : EmitEvent(r, s)

RoutingSpec == RoutingInit /\ [][RoutingNext]_routingVars

(* The loop goes on and handlers return; nobody has to emit or register.   *)
RoutingFairSpec == RoutingSpec /\ WF_routingVars(Loop)
-----------------------------------------------------------------------------
(* An event the loop emits, on success, on failure or for a retry, is in   *)
(* the session of the caller's event it descends from (runner.go:451).     *)
(* With the basic router an error event starts a session of its own.       *)
SessionKept ==
  router = "internal" =>
    \A i \in 1..Len(waiting) :
      waiting[i].from = "loop" => waiting[i].session = session[waiting[i].n]

(* An event has at most one follow-up, whether it succeeds, fails or is    *)
(* retried: no chain of events branches.                                   *)
OneFollowUp == Len(waiting) <= emitted

(* An agent runs only when all of the runner's callbacks before it have    *)
(* succeeded, the first as well as the last: runner.go:295 "Error during   *)
(* BeforeEventHandling callbacks. Skipping event."                         *)
VetoHolds == Contains(trail, "run") => ~vetoed

(* A callback is never called once its Unregister has returned, also when  *)
(* Invoke was under way.                                                   *)
NoLateCallback ==
  [][reading /\ reading' /\ todo' # todo =>
       \E h \in {HookOf[stage], "AllHooks"} :
         Contains(callbacks[h], Head(todo))]_routingVars

(* Where the hooks of an event stand when its handling has ended: the      *)
(* agent's run is between a BeforeAgentRun and one hook more, a failure    *)
(* reaches AgentError, and AfterEventHandling is last, unless the event    *)
(* was skipped (callback.go:16 "after all processing for an event is       *)
(* complete").                                                             *)
HooksPaired ==
  stage = "idle" /\ trail # <<>> =>
    LET Body == SubSeq(trail, 3, Len(trail) - 1)
    IN  trail = <<"beforeEvent">>
        \/ /\ SubSeq(trail, 1, 2) = <<"beforeEvent", "beforeAgent">>
           /\ Last(trail) = "afterEvent"
           /\ IF error = "none"
              THEN Body = <<"beforeRun", "run", "afterRun">>
              ELSE Body \in {<<"agentError">>,
                             <<"beforeRun", "run", "runError", "agentError">>}

(* The order of the hooks, and the runner's veto.                          *)
HookInv == HooksPaired /\ VetoHolds

(* Who follows the recommended recovery action does not retry an event     *)
(* more often than MaxRetries says.                                        *)
RetriesBounded ==
  \A i \in 1..Len(waiting) : Head(waiting[i].frames).tries <= MaxRetries

(* No event leaves its session, none has two follow-ups, and none is       *)
(* retried too often.                                                      *)
RoutingInv == RoutingTypeOK /\ SessionKept /\ OneFollowUp /\ RetriesBounded

(* A failure gets to an error handler, by way of other failures when the   *)
(* handler configured for it does not exist, unless the queue refuses it   *)
(* or a callback has the error event skipped.                              *)
Answered ==
  \A n \in 1..MaxEmits : n \in unanswered ~> n \notin unanswered \/ n \in lost

(* Retries and error events come to an end when error handlers do not fail *)
(* and callbacks fail finitely often.                                      *)
Drains == <>[](stage = "idle" /\ waiting = <<>>)
=============================================================================
