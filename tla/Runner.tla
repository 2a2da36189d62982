------------------------------- MODULE Runner -------------------------------
(***************************************************************************)
(* RunnerImpl of core/runner.go (internal/core/runner.go is its older      *)
(* twin): goroutines Emit events into a bounded queue, one loop goroutine  *)
(* takes them, runs the callbacks and the orchestrator, and emits the      *)
(* follow-up event itself, into the queue that it alone empties.  Start    *)
(* and Stop replace and close the stop channel under the mutex; the loop   *)
(* and Emit read that field without it.                                    *)
(*                                                                         *)
(* A stop channel is the number of the Start that made it.  A select reads *)
(* the field once, on entry, and then waits on the channel it saw: seen.   *)
(* Handlers and callbacks are external: they return when they like, with   *)
(* any of the outcomes the loop tells apart.                               *)
(***************************************************************************)
EXTENDS Integers, Sequences, FiniteSets

CONSTANTS
  Emitters,     \* goroutines that emit events
  Controllers,  \* goroutines that call Start and Stop
  QueueSize,
  MaxEvents,    \* bound: events per emitter
  MaxHops,      \* bound: follow-ups in the chain of one event
  MaxStarts     \* bound: successful calls of Start

ASSUME RunnerAssumption ==
  /\ Emitters # {} /\ IsFiniteSet(Emitters)
  /\ Controllers # {}
  /\ QueueSize \in Nat \ {0}
  /\ MaxEvents \in Nat /\ MaxHops \in Nat /\ MaxStarts \in Nat

VARIABLES
  started,
  stopChan,  \* the channel the field holds
  closed,    \* the stop channels that are closed
  ctxDone,   \* loops whose context is done
  loop,      \* where each loop goroutine is
  seen,      \* the stop channel each loop's select waits on
  hand,      \* the event each loop is handling, or the one it is emitting
  queue,
  emitter,   \* each emitter: "idle", or in the select of "Emit"
  watch,     \* the stop channel each emitter's select waits on
  sent,      \* Emit calls of each emitter
  control,   \* each controller: "idle", or "waiting" in Stop
  accepted,  \* history: the events Emit put into the queue
  handled    \* history: the events whose handling ended

loopVars == <<loop, seen, hand>>
emitVars == <<emitter, watch, sent>>
switchVars == <<started, stopChan, closed, control>>
vars == <<switchVars, loopVars, emitVars, ctxDone, queue, accepted, handled>>

Loops == 1..MaxStarts
Event == [from : Emitters, n : 1..MaxEvents, hop : 0..MaxHops]
NoEvent == [from |-> "none", n |-> 0, hop |-> 0]

LoopStates == {"none", "top", "select", "handling", "routing", "emitting",
               "exited"}

TypeOK ==
  /\ started \in BOOLEAN
  /\ stopChan \in 0..MaxStarts /\ closed \subseteq Loops
  /\ ctxDone \subseteq Loops
  /\ loop \in [Loops -> LoopStates]
  /\ seen \in [Loops -> 0..MaxStarts]
  /\ hand \in [Loops -> Event \cup {NoEvent}]
  /\ queue \in Seq(Event) /\ Len(queue) <= QueueSize
  /\ emitter \in [Emitters -> {"idle", "Emit"}]
  /\ watch \in [Emitters -> 0..MaxStarts]
  /\ sent \in [Emitters -> 0..MaxEvents]
  /\ control \in [Controllers -> {"idle", "waiting"}]
  /\ accepted \in Seq(Event) /\ handled \in Seq(Event)

Init ==
  /\ started = FALSE
  /\ stopChan = 0
  /\ closed = {}
  /\ ctxDone = {}
  /\ loop = [l \in Loops |-> "none"]
  /\ seen = [l \in Loops |-> 0]
  /\ hand = [l \in Loops |-> NoEvent]
  /\ queue = <<>>
  /\ emitter = [e \in Emitters |-> "idle"]
  /\ watch = [e \in Emitters |-> 0]
  /\ sent = [e \in Emitters |-> 0]
  /\ control = [c \in Controllers |-> "idle"]
  /\ accepted = <<>>
  /\ handled = <<>>

Alive == {l \in Loops : loop[l] \notin {"none", "exited"}}   \* the WaitGroup
-----------------------------------------------------------------------------
(* Start and Stop                                                          *)

MayStart == ~started

(* The field is replaced and the WaitGroup raised under the lock; the loop *)
(* starts when it is scheduled.                                            *)
Start(c) ==
  /\ control[c] = "idle"
  /\ stopChan < MaxStarts
  /\ MayStart
  /\ started' = TRUE
  /\ stopChan' = stopChan + 1
  /\ loop' = [loop EXCEPT ![stopChan + 1] = "top"]
  /\ UNCHANGED <<closed, control, seen, hand, emitVars, ctxDone, queue,
                 accepted, handled>>

(* Slip: Stop does not wait for the loop.                                  *)
StopAtOnce(c) ==
  /\ control[c] = "idle"
  /\ started
  /\ started' = FALSE
  /\ closed' = closed \cup {stopChan}
  /\ UNCHANGED <<stopChan, control, loopVars, emitVars, ctxDone, queue,
                 accepted, handled>>

Stop(c) ==
  /\ control[c] = "idle"
  /\ started
  /\ started' = FALSE
  /\ closed' = closed \cup {stopChan}
  /\ control' = [control EXCEPT ![c] = "waiting"]
  /\ UNCHANGED <<stopChan, loopVars, emitVars, ctxDone, queue, accepted,
                 handled>>

(* wg.Wait returns.                                                        *)
StopReturns(c) ==
  /\ control[c] = "waiting"
  /\ Alive = {}
  /\ control' = [control EXCEPT ![c] = "idle"]
  /\ UNCHANGED <<started, stopChan, closed, loopVars, emitVars, ctxDone, queue,
                 accepted, handled>>

(* The context given to Start ends; nothing tells the runner but its loop. *)
CancelContext(l) ==
  /\ l \in Alive \ ctxDone
  /\ ctxDone' = ctxDone \cup {l}
  /\ UNCHANGED <<switchVars, loopVars, emitVars, queue, accepted, handled>>
-----------------------------------------------------------------------------
(* Emit: the flag under the read lock, then the select                     *)

Room == Len(queue) < QueueSize

Enqueue(ev) ==
  /\ Room
  /\ queue' = Append(queue, ev)
  /\ accepted' = Append(accepted, ev)

(* Nothing shared is touched between the check of the flag and the reading *)
(* of the stop channel, so the two are one step.                           *)
EmitBegin(e) ==
  /\ emitter[e] = "idle"
  /\ sent[e] < MaxEvents
  /\ sent' = [sent EXCEPT ![e] = @ + 1]
  /\ IF started THEN /\ emitter' = [emitter EXCEPT ![e] = "Emit"]
                     /\ watch' = [watch EXCEPT ![e] = stopChan]
                ELSE UNCHANGED <<emitter, watch>>
  /\ UNCHANGED <<switchVars, loopVars, ctxDone, queue, accepted, handled>>

EmitEnds(e) ==
  /\ emitter[e] = "Emit"
  /\ emitter' = [emitter EXCEPT ![e] = "idle"]
  /\ UNCHANGED <<watch, sent, switchVars, loopVars, ctxDone, handled>>

EmitQueued(e) ==
  /\ EmitEnds(e)
  /\ Enqueue([from |-> e, n |-> sent[e], hop |-> 0])

(* The second of patience is over and the queue is still full, or the stop *)
(* channel is closed: the event is the caller's again.                     *)
GivenUp(channel) == ~Room \/ channel \in closed

EmitFails(e) ==
  /\ EmitEnds(e)
  /\ GivenUp(watch[e])
  /\ UNCHANGED <<queue, accepted>>
-----------------------------------------------------------------------------
(* The loop                                                                *)

Goto(l, state) == loop' = [loop EXCEPT ![l] = state]

(* The loop comes to its select and reads the field.                       *)
EnterSelect(l) ==
  /\ loop[l] = "top"
  /\ Goto(l, "select")
  /\ seen' = [seen EXCEPT ![l] = stopChan]
  /\ UNCHANGED <<switchVars, hand, emitVars, ctxDone, queue, accepted,
                 handled>>

Take(l) ==
  /\ loop[l] = "select"
  /\ queue # <<>>
  /\ Goto(l, "handling")
  /\ hand' = [hand EXCEPT ![l] = Head(queue)]
  /\ queue' = Tail(queue)
  /\ UNCHANGED <<switchVars, seen, emitVars, ctxDone, accepted, handled>>

(* Slip: the select has no case for the stop channel.                      *)
ExitOnContext(l) ==
  /\ loop[l] = "select"
  /\ l \in ctxDone
  /\ Goto(l, "exited")
  /\ UNCHANGED <<switchVars, seen, hand, emitVars, ctxDone, queue, accepted,
                 handled>>

Exit(l) ==
  /\ loop[l] = "select"
  /\ l \in ctxDone \/ seen[l] \in closed
  /\ Goto(l, "exited")
  /\ UNCHANGED <<switchVars, seen, hand, emitVars, ctxDone, queue, accepted,
                 handled>>

(* The handling of an event ends without a follow-up: a BeforeEvent-       *)
(* Handling callback failed and the event is skipped, or the agent         *)
(* succeeded and its output names no route.                                *)
HandleLast(l) ==
  /\ loop[l] = "handling"
  /\ Goto(l, "top")
  /\ handled' = Append(handled, hand[l])
  /\ hand' = [hand EXCEPT ![l] = NoEvent]
  /\ UNCHANGED <<switchVars, seen, emitVars, ctxDone, queue, accepted>>

FollowUp(ev) == [from |-> ev.from, n |-> ev.n, hop |-> ev.hop + 1]

(* It ends with one: the agent's output names a route, or a callback or    *)
(* the agent failed and an event for the error handler goes out.           *)
HandleRouted(l) ==
  /\ loop[l] = "handling"
  /\ hand[l].hop < MaxHops
  /\ Goto(l, "routing")
  /\ handled' = Append(handled, hand[l])
  /\ hand' = [hand EXCEPT ![l] = FollowUp(hand[l])]
  /\ UNCHANGED <<switchVars, seen, emitVars, ctxDone, queue, accepted>>

(* The loop's own Emit; a runner that is stopping accepts no follow-up.    *)
RouteBegin(l) ==
  /\ loop[l] = "routing"
  /\ IF started THEN /\ Goto(l, "emitting")
                     /\ seen' = [seen EXCEPT ![l] = stopChan]
                     /\ UNCHANGED hand
                ELSE /\ Goto(l, "top")
                     /\ hand' = [hand EXCEPT ![l] = NoEvent]
                     /\ UNCHANGED seen
  /\ UNCHANGED <<switchVars, emitVars, ctxDone, queue, accepted, handled>>

RouteEnds(l) ==
  /\ loop[l] = "emitting"
  /\ Goto(l, "top")
  /\ hand' = [hand EXCEPT ![l] = NoEvent]
  /\ UNCHANGED <<switchVars, seen, emitVars, ctxDone, handled>>

(* Slip: a follow-up goes ahead of the events that wait.                   *)
RouteQueuedFirst(l) ==
  /\ RouteEnds(l)
  /\ Room
  /\ queue' = <<hand[l]>> \o queue
  /\ accepted' = Append(accepted, hand[l])

RouteQueued(l) ==
  /\ RouteEnds(l)
  /\ Enqueue(hand[l])

(* Slip: the loop's own Emit has no timeout.                               *)
RouteFailsOnStop(l) ==
  /\ RouteEnds(l)
  /\ seen[l] \in closed
  /\ UNCHANGED <<queue, accepted>>

(* The follow-up is lost; the error is only logged.                        *)
RouteFails(l) ==
  /\ RouteEnds(l)
  /\ GivenUp(seen[l])
  /\ UNCHANGED <<queue, accepted>>
-----------------------------------------------------------------------------
EmitStep(e) == EmitQueued(e) \/ EmitFails(e)

LoopStep(l) ==
  \/ EnterSelect(l) \/ Take(l) \/ Exit(l)
  \/ HandleLast(l) \/ HandleRouted(l)
  \/ RouteBegin(l) \/ RouteQueued(l) \/ RouteFails(l)

Next ==
  \/ \E c \in Controllers : Start(c) \/ Stop(c) \/ StopReturns(c)
  \/ \E e \in Emitters : EmitBegin(e) \/ EmitStep(e)
  \/ \E l \in Loops : LoopStep(l) \/ CancelContext(l)

Spec == Init /\ [][Next]_vars

(* Goroutines that can run are run, timers fire, handlers return.  Nobody  *)
(* has to start, stop, cancel or emit.                                     *)
Fairness ==
  /\ \A c \in Controllers : WF_vars(StopReturns(c))
  /\ \A e \in Emitters : WF_vars(EmitStep(e))
  /\ \A l \in Loops : WF_vars(LoopStep(l))

FairSpec == Spec /\ Fairness
-----------------------------------------------------------------------------
(* internal/core/runner.go:60 "Flag to prevent multiple starts": no two    *)
(* loops take events from the queue at once.                               *)
OneLoop == Cardinality(Alive) <= 1

(* Every event that Emit accepted is in the queue, in the loop's hand or   *)
(* has been handled, once, and in the order of acceptance, also across     *)
(* stops, restarts and cancelled contexts.                                 *)
HandledInOrder ==
  /\ \A l \in Loops :
       loop[l] = "handling" => accepted = handled \o <<hand[l]>> \o queue
  /\ (\A l \in Loops : loop[l] # "handling") => accepted = handled \o queue

(* runner.go:31 "Stop gracefully shuts down the runner, waiting for active *)
(* processing to complete": while no Stop is under way and the runner is   *)
(* not started, no loop runs.                                              *)
StopWaits ==
  ~started /\ (\A c \in Controllers : control[c] = "idle") => Alive = {}

(* Never two loops, and none behind a Stop that has returned.               *)
LoopInv == TypeOK /\ OneLoop /\ StopWaits

(* runner.go:224 "Stop signals the runner to stop processing events and    *)
(* waits for it to finish": a Stop comes back, from a loop that is busy,   *)
(* blocked on its own full queue, or already gone with its context.        *)
StopEnds ==
  \A c \in Controllers : control[c] = "waiting" ~> control[c] = "idle"

(* An accepted event is handled, however full the queue and however often  *)
(* the loop has to wait for itself, unless somebody stops the runner or    *)
(* ends its context.                                                       *)
AcceptedIsHandled ==
  \A i \in 1..(MaxEvents * Cardinality(Emitters)) :
    Len(accepted) >= i ~>
      Len(handled) >= i \/ ~started \/ stopChan \in ctxDone
=============================================================================
