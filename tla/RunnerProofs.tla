---------------------------- MODULE RunnerProofs ----------------------------
(***************************************************************************)
(* Proofs about the runner: first Runner, for any emitters, any queue size *)
(* and any number of starts.  The types hold however many goroutines call  *)
(* Start and Stop; the other results need a single one (README, section 7, *)
(* says what two can do): the invariant behind them is that the only loop  *)
(* alive belongs to the current stop channel, and that no Stop waits while *)
(* the runner is started.  Then EventRouting, what that loop does with an  *)
(* event, for any names, callbacks, configuration and bounds.              *)
(***************************************************************************)
EXTENDS Runner, EventRouting, SequenceTheorems, FiniteSetTheorems, TLAPS

HoldsEvent == {"handling", "routing", "emitting"}

(* A runner that is started has made its channel, a loop that handles or   *)
(* emits has an event, and an emitter in its select has counted the call.  *)
TInv ==
  /\ TypeOK
  /\ started => stopChan >= 1
  /\ \A l \in Loops : loop[l] \in HoldsEvent => hand[l] \in Event
  /\ \A e \in Emitters : emitter[e] = "Emit" => sent[e] >= 1

LoopIsCurrent == \A l \in Alive : l = stopChan
NoStopWhileStarted == \A c \in Controllers : control[c] = "waiting" => ~started

IInv ==
  /\ TInv
  /\ LoopIsCurrent
  /\ NoStopWhileStarted
  /\ StopWaits
  /\ HandledInOrder

(* What the queue and the history do when an event is accepted ...         *)
LEMMA AppendToConcat ==
  ASSUME NEW s \in Seq(Event), NEW t \in Seq(Event), NEW x \in Event
  PROVE  Append(s \o t, x) = s \o Append(t, x)
<1>1. s \o t \in Seq(Event) /\ <<x>> \in Seq(Event)
  BY ConcatProperties
<1>2. Append(s \o t, x) = (s \o t) \o <<x>>
  BY <1>1, AppendIsConcat
<1>3. Append(t, x) = t \o <<x>>
  BY AppendIsConcat
<1>4. (s \o t) \o <<x>> = s \o (t \o <<x>>)
  BY <1>1, ConcatAssociative
<1> QED
  BY <1>2, <1>3, <1>4

(* ... and when the head of the queue changes hands.                       *)
LEMMA HeadMoves ==
  ASSUME NEW S, NEW s \in Seq(S), NEW t \in Seq(S), t # <<>>
  PROVE  s \o t = (s \o <<Head(t)>>) \o Tail(t)
<1>1. Head(t) \in S /\ Tail(t) \in Seq(S)
  BY HeadTailProperties
<1>2. t = <<Head(t)>> \o Tail(t)
  BY <1>1
<1>3. <<Head(t)>> \in Seq(S)
  BY <1>1
<1>4. (s \o <<Head(t)>>) \o Tail(t) = s \o (<<Head(t)>> \o Tail(t))
  BY <1>1, <1>3, ConcatAssociative
<1> QED
  BY <1>2, <1>4

LEMMA InitTInv == Init => TInv
<1> SUFFICES ASSUME Init PROVE TInv
  OBVIOUS
<1>1. /\ queue \in Seq(Event) /\ accepted \in Seq(Event)
      /\ handled \in Seq(Event) /\ Len(queue) <= QueueSize
  BY EmptySeq, RunnerAssumption DEF Init
<1>2. /\ loop \in [Loops -> LoopStates]
      /\ seen \in [Loops -> 0..MaxStarts]
      /\ hand \in [Loops -> Event \cup {NoEvent}]
  BY RunnerAssumption DEF Init, LoopStates
<1>3. /\ emitter \in [Emitters -> {"idle", "Emit"}]
      /\ watch \in [Emitters -> 0..MaxStarts]
      /\ sent \in [Emitters -> 0..MaxEvents]
      /\ control \in [Controllers -> {"idle", "waiting"}]
  BY RunnerAssumption DEF Init
<1>4. /\ started = FALSE /\ stopChan \in 0..MaxStarts
      /\ closed \subseteq Loops /\ ctxDone \subseteq Loops
  BY RunnerAssumption DEF Init
<1>5. TypeOK
  BY <1>1, <1>2, <1>3, <1>4 DEF TypeOK
<1> QED
  BY <1>5 DEF Init, TInv, HoldsEvent

LEMMA NewEvent ==
  ASSUME TInv, NEW e \in Emitters, emitter[e] = "Emit"
  PROVE  [from |-> e, n |-> sent[e], hop |-> 0] \in Event
BY RunnerAssumption DEF TInv, TypeOK, Event

LEMMA FollowUpEvent ==
  ASSUME NEW ev \in Event, ev.hop < MaxHops
  PROVE  FollowUp(ev) \in Event
BY RunnerAssumption DEF FollowUp, Event

LEMMA SentCounts ==
  ASSUME TInv, NEW e \in Emitters, EmitBegin(e)
  PROVE  /\ sent' \in [Emitters -> 0..MaxEvents] /\ sent'[e] >= 1
         /\ \A f \in Emitters \ {e} : sent'[f] = sent[f]
<1>1. MaxEvents \in Nat
  BY RunnerAssumption
<1>2. sent \in [Emitters -> 0..MaxEvents] /\ sent[e] < MaxEvents
  BY DEF TInv, TypeOK, EmitBegin
<1>3. sent' = [sent EXCEPT ![e] = sent[e] + 1]
  BY DEF EmitBegin
<1>4. sent[e] + 1 \in 0..MaxEvents /\ sent[e] + 1 >= 1
  BY <1>1, <1>2
<1> QED
  BY <1>2, <1>3, <1>4

LEMMA NextTInv == TInv /\ [Next]_vars => TInv'
<1> SUFFICES ASSUME TInv, [Next]_vars PROVE TInv'
  OBVIOUS
<1> USE RunnerAssumption DEF TInv, TypeOK, Loops, LoopStates, HoldsEvent,
        switchVars, loopVars, emitVars
<1>1. ASSUME NEW c \in Controllers, Start(c) PROVE TInv'
  BY SMTT(20), <1>1 DEF Start, MayStart
<1>2. ASSUME NEW c \in Controllers, Stop(c) PROVE TInv'
  <2>1. closed' \subseteq Loops
    BY <1>2 DEF Stop
  <2>2. control' \in [Controllers -> {"idle", "waiting"}]
    BY <1>2 DEF Stop
  <2> QED
    BY <1>2, <2>1, <2>2 DEF Stop
<1>3. ASSUME NEW c \in Controllers, StopReturns(c) PROVE TInv'
  BY <1>3 DEF StopReturns
<1>4. ASSUME NEW e \in Emitters, EmitBegin(e) PROVE TInv'
  <2>1. sent' \in [Emitters -> 0..MaxEvents] /\ sent'[e] >= 1
        /\ \A f \in Emitters \ {e} : sent'[f] = sent[f]
    BY <1>4, SentCounts
  <2>2. /\ emitter' \in [Emitters -> {"idle", "Emit"}]
        /\ watch' \in [Emitters -> 0..MaxStarts]
        /\ \A f \in Emitters \ {e} : emitter'[f] = emitter[f]
    BY <1>4 DEF EmitBegin
  <2>3. UNCHANGED <<switchVars, loopVars, ctxDone, queue, accepted, handled>>
    BY <1>4 DEF EmitBegin
  <2> QED
    BY <2>1, <2>2, <2>3
<1>5. ASSUME NEW e \in Emitters, EmitQueued(e) PROVE TInv'
  <2> DEFINE ev == [from |-> e, n |-> sent[e], hop |-> 0]
  <2>1. ev \in Event
    BY <1>5, NewEvent DEF EmitQueued, EmitEnds
  <2> HIDE DEF ev
  <2>2. /\ emitter' = [emitter EXCEPT ![e] = "idle"]
        /\ queue' = Append(queue, ev) /\ accepted' = Append(accepted, ev)
        /\ Len(queue) < QueueSize
        /\ UNCHANGED <<watch, sent, switchVars, loopVars, ctxDone, handled>>
    BY <1>5 DEF EmitQueued, EmitEnds, Enqueue, Room, ev
  <2>3. /\ queue' \in Seq(Event) /\ accepted' \in Seq(Event)
        /\ Len(queue') <= QueueSize
    BY <2>1, <2>2, AppendProperties
  <2> QED
    BY <2>2, <2>3
<1>6. ASSUME NEW e \in Emitters, EmitFails(e) PROVE TInv'
  BY <1>6 DEF EmitFails, EmitEnds
<1>7. ASSUME NEW l \in Loops, EnterSelect(l) PROVE TInv'
  BY <1>7 DEF EnterSelect, Goto
<1>8. ASSUME NEW l \in Loops, Take(l) PROVE TInv'
  <2>1. Head(queue) \in Event /\ Tail(queue) \in Seq(Event)
        /\ Len(Tail(queue)) = Len(queue) - 1
    BY <1>8, HeadTailProperties DEF Take
  <2> QED
    BY <1>8, <2>1 DEF Take, Goto
<1>9. ASSUME NEW l \in Loops, Exit(l) PROVE TInv'
  BY <1>9 DEF Exit, Goto
<1>10. ASSUME NEW l \in Loops, HandleLast(l) PROVE TInv'
  BY <1>10, AppendProperties DEF HandleLast, Goto
<1>11. ASSUME NEW l \in Loops, HandleRouted(l) PROVE TInv'
  <2>1. FollowUp(hand[l]) \in Event
    <3>1. hand[l] \in Event /\ hand[l].hop < MaxHops
      BY <1>11 DEF HandleRouted
    <3> QED
      BY <3>1, FollowUpEvent
  <2>2. handled' \in Seq(Event)
    BY <1>11, AppendProperties DEF HandleRouted
  <2> QED
    BY <1>11, <2>1, <2>2 DEF HandleRouted, Goto
<1>12. ASSUME NEW l \in Loops, RouteBegin(l) PROVE TInv'
  BY ZenonT(40), <1>12 DEF RouteBegin, Goto
<1>13. ASSUME NEW l \in Loops, RouteQueued(l) PROVE TInv'
  <2>1. hand[l] \in Event
    BY <1>13 DEF RouteQueued, RouteEnds
  <2>2. /\ queue' = Append(queue, hand[l])
        /\ accepted' = Append(accepted, hand[l])
        /\ Len(queue) < QueueSize
    BY <1>13 DEF RouteQueued, Enqueue, Room
  <2>3. /\ queue' \in Seq(Event) /\ accepted' \in Seq(Event)
        /\ Len(queue') <= QueueSize
    BY <2>1, <2>2, AppendProperties
  <2> QED
    BY <1>13, <2>3 DEF RouteQueued, RouteEnds, Goto
<1>14. ASSUME NEW l \in Loops, RouteFails(l) PROVE TInv'
  BY <1>14 DEF RouteFails, RouteEnds, Goto
<1>15. ASSUME NEW l \in Loops, CancelContext(l) PROVE TInv'
  BY <1>15 DEF CancelContext
<1>16. CASE UNCHANGED vars
  BY <1>16 DEF vars
<1> QED
  BY <1>1, <1>2, <1>3, <1>4, <1>5, <1>6, <1>7, <1>8, <1>9, <1>10, <1>11,
     <1>12, <1>13, <1>14, <1>15, <1>16 DEF Next, EmitStep, LoopStep

(* Every variable stays in its range, for any number of controllers.       *)
THEOREM TypeCorrect == Spec => []TypeOK
<1>1. TInv => TypeOK
  BY DEF TInv
<1> QED
  BY <1>1, InitTInv, NextTInv, PTL DEF Spec
-----------------------------------------------------------------------------
OneController == \A c, d \in Controllers : c = d

(* A step that starts no loop, leaves the switch alone and keeps the order *)
(* keeps the rest.                                                         *)
LEMMA SwitchUntouched ==
  ASSUME IInv, TInv', UNCHANGED switchVars, Alive' \subseteq Alive,
         HandledInOrder'
  PROVE  IInv'
BY DEF IInv, switchVars, LoopIsCurrent, NoStopWhileStarted, StopWaits

(* While one loop is past its top, no other handles an event.              *)
LEMMA Alone ==
  ASSUME IInv, NEW l \in Alive
  PROVE  \A m \in Loops \ {l} : m \notin Alive /\ loop[m] # "handling"
BY DEF IInv, LoopIsCurrent, Alive

LEMMA InitIInv == Init => IInv
<1> SUFFICES ASSUME Init PROVE IInv
  OBVIOUS
<1>1. TInv
  BY InitTInv
<1>2. Alive = {}
  BY DEF Init, Alive
<1>3. accepted = handled \o queue
  BY ConcatEmptySeq, EmptySeq DEF Init
<1>4. \A l \in Loops : loop[l] # "handling"
  BY DEF Init
<1>5. \A c \in Controllers : control[c] = "idle"
  BY DEF Init
<1> QED
  BY <1>1, <1>2, <1>3, <1>4, <1>5 DEF IInv, LoopIsCurrent,
     NoStopWhileStarted, StopWaits, HandledInOrder

(* Enqueue keeps the order, whoever does it.                               *)
LEMMA EnqueueInOrder ==
  ASSUME IInv, NEW ev \in Event, Enqueue(ev), UNCHANGED handled,
         \A l \in Loops : loop'[l] = "handling" <=> loop[l] = "handling",
         \A l \in Loops : loop[l] = "handling" => hand'[l] = hand[l]
  PROVE  HandledInOrder'
<1>1. /\ queue \in Seq(Event) /\ handled \in Seq(Event)
      /\ hand \in [Loops -> Event \cup {NoEvent}]
      /\ \A l \in Loops : loop[l] = "handling" => hand[l] \in Event
  BY DEF IInv, TInv, TypeOK, HoldsEvent
<1>2. ASSUME NEW l \in Loops, loop'[l] = "handling"
      PROVE  accepted' = handled' \o <<hand'[l]>> \o queue'
  <2>1. accepted = (handled \o <<hand[l]>>) \o queue /\ hand[l] \in Event
    BY <1>1, <1>2 DEF IInv, HandledInOrder
  <2>2. handled \o <<hand[l]>> \in Seq(Event)
    BY <1>1, <2>1, ConcatProperties
  <2>3. Append((handled \o <<hand[l]>>) \o queue, ev)
          = (handled \o <<hand[l]>>) \o Append(queue, ev)
    BY <1>1, <2>2, AppendToConcat
  <2>4. loop[l] = "handling" /\ hand'[l] = hand[l] /\ handled' = handled
    BY <1>2
  <2> QED
    BY <2>1, <2>3, <2>4 DEF Enqueue
<1>3. ASSUME \A l \in Loops : loop'[l] # "handling"
      PROVE  accepted' = handled' \o queue'
  <2>1. accepted = handled \o queue
    BY <1>3 DEF IInv, HandledInOrder
  <2>2. Append(handled \o queue, ev) = handled \o Append(queue, ev)
    BY <1>1, AppendToConcat
  <2> QED
    BY <2>1, <2>2 DEF Enqueue
<1> QED
  BY <1>2, <1>3 DEF HandledInOrder

(* A step that touches neither the events nor which loop handles one.      *)
LEMMA EventsUntouched ==
  ASSUME IInv, UNCHANGED <<queue, accepted, handled>>,
         \A l \in Loops : loop'[l] = "handling" =>
                            loop[l] = "handling" /\ hand'[l] = hand[l],
         \A l \in Loops : loop[l] = "handling" => loop'[l] = "handling"
  PROVE  HandledInOrder'
BY DEF IInv, HandledInOrder

LEMMA TakeInOrder ==
  ASSUME IInv, NEW l \in Loops, Take(l)
  PROVE  HandledInOrder'
<1>1. /\ queue \in Seq(Event) /\ handled \in Seq(Event)
      /\ loop \in [Loops -> LoopStates]
      /\ hand \in [Loops -> Event \cup {NoEvent}]
  BY DEF IInv, TInv, TypeOK
<1>2. l \in Alive /\ loop[l] # "handling"
  BY DEF Take, Alive
<1>3. \A m \in Loops : loop[m] # "handling"
  BY <1>2, Alone
<1>4. accepted = (handled \o <<Head(queue)>>) \o Tail(queue)
  BY <1>1, <1>3, HeadMoves DEF Take, IInv, HandledInOrder
<1>5. /\ hand'[l] = Head(queue) /\ queue' = Tail(queue)
      /\ loop'[l] = "handling"
      /\ UNCHANGED <<accepted, handled>>
  BY <1>1 DEF Take, Goto
<1>6. \A m \in Loops \ {l} : loop'[m] # "handling"
  BY <1>1, <1>3 DEF Take, Goto
<1> QED
  BY <1>4, <1>5, <1>6 DEF HandledInOrder

(* HandleLast and HandleRouted both put the event into the history.        *)
LEMMA HandledKeepsOrder ==
  ASSUME IInv, NEW l \in Loops, loop[l] = "handling",
         NEW state \in LoopStates \ {"handling"}, Goto(l, state),
         handled' = Append(handled, hand[l]), UNCHANGED <<accepted, queue>>
  PROVE  HandledInOrder'
<1>1. /\ handled \in Seq(Event) /\ hand[l] \in Event
      /\ loop \in [Loops -> LoopStates]
  BY DEF IInv, TInv, TypeOK, HoldsEvent
<1>2. accepted = (handled \o <<hand[l]>>) \o queue
  BY DEF IInv, HandledInOrder
<1>3. handled' = handled \o <<hand[l]>>
  BY <1>1, AppendIsConcat
<1>4. \A m \in Loops : loop'[m] # "handling"
  <2>1. l \in Alive
    BY DEF Alive
  <2> QED
    BY <1>1, <2>1, Alone DEF Goto
<1> QED
  BY <1>2, <1>3, <1>4 DEF HandledInOrder

LEMMA NextIInv ==
  ASSUME OneController, IInv, [Next]_vars
  PROVE  IInv'
<1>0. TInv' /\ TInv /\ loop \in [Loops -> LoopStates]
  BY NextTInv DEF IInv, TInv, TypeOK
<1> USE DEF switchVars, loopVars, emitVars
<1>1. ASSUME NEW c \in Controllers, Start(c) PROVE IInv'
  <2>1. /\ ~started /\ started' /\ control' = control
        /\ stopChan' = stopChan + 1 /\ stopChan + 1 \in Loops
        /\ loop' = [loop EXCEPT ![stopChan + 1] = "top"]
        /\ UNCHANGED <<hand, queue, accepted, handled>>
    BY <1>0, <1>1, RunnerAssumption
       DEF Start, MayStart, TInv, TypeOK, Loops
  <2>2. \A d \in Controllers : control[d] = "idle"
    BY <1>1 DEF Start, OneController
  <2>3. Alive = {}
    BY <2>1, <2>2 DEF IInv, StopWaits
  <2>4. \A l \in Loops : loop[l] \in {"none", "exited"}
    BY <2>3 DEF Alive
  <2>5. LoopIsCurrent'
    BY <1>0, <2>1, <2>4 DEF LoopIsCurrent, Alive
  <2>6. NoStopWhileStarted'
    BY <2>1, <2>2 DEF NoStopWhileStarted
  <2>7. HandledInOrder'
    BY <1>0, <2>1, <2>4 DEF IInv, HandledInOrder
  <2> QED
    BY <1>0, <2>1, <2>5, <2>6, <2>7 DEF IInv, StopWaits
<1>2. ASSUME NEW c \in Controllers, Stop(c) PROVE IInv'
  <2>1. control'[c] = "waiting" /\ ~started'
        /\ UNCHANGED <<stopChan, loop, hand, queue, accepted, handled>>
    BY <1>0, <1>2 DEF Stop, TInv, TypeOK
  <2>2. LoopIsCurrent' /\ HandledInOrder'
    BY <2>1 DEF IInv, LoopIsCurrent, HandledInOrder, Alive
  <2> QED
    BY <1>0, <2>1, <2>2 DEF IInv, NoStopWhileStarted, StopWaits
<1>3. ASSUME NEW c \in Controllers, StopReturns(c) PROVE IInv'
  <2>1. /\ Alive = {}
        /\ \A d \in Controllers : control'[d] = "waiting" =>
                                     control[d] = "waiting"
        /\ UNCHANGED <<started, stopChan, loop, hand, queue, accepted,
                       handled>>
    BY <1>0, <1>3 DEF StopReturns, TInv, TypeOK
  <2>2. LoopIsCurrent' /\ HandledInOrder' /\ Alive' = {}
    BY <2>1 DEF IInv, LoopIsCurrent, HandledInOrder, Alive
  <2> QED
    BY <1>0, <2>1, <2>2 DEF IInv, NoStopWhileStarted, StopWaits
<1>4. ASSUME NEW e \in Emitters, EmitBegin(e) PROVE IInv'
  BY <1>0, <1>4, EventsUntouched, SwitchUntouched DEF EmitBegin, Alive
<1>5. ASSUME NEW e \in Emitters, EmitQueued(e) PROVE IInv'
  <2>1. HandledInOrder'
    BY <1>0, <1>5, NewEvent, EnqueueInOrder DEF EmitQueued, EmitEnds
  <2> QED
    BY <1>0, <1>5, <2>1, SwitchUntouched DEF EmitQueued, EmitEnds, Alive
<1>6. ASSUME NEW e \in Emitters, EmitFails(e) PROVE IInv'
  BY <1>0, <1>6, EventsUntouched, SwitchUntouched
     DEF EmitFails, EmitEnds, Alive
<1>7. ASSUME NEW l \in Loops, EnterSelect(l) PROVE IInv'
  BY <1>0, <1>7, EventsUntouched, SwitchUntouched
     DEF EnterSelect, Goto, Alive
<1>8. ASSUME NEW l \in Loops, Take(l) PROVE IInv'
  BY <1>0, <1>8, TakeInOrder, SwitchUntouched DEF Take, Goto, Alive
<1>9. ASSUME NEW l \in Loops, Exit(l) PROVE IInv'
  BY <1>0, <1>9, EventsUntouched, SwitchUntouched DEF Exit, Goto, Alive
<1>10. ASSUME NEW l \in Loops, HandleLast(l) PROVE IInv'
  <2>1. HandledInOrder'
    BY <1>10, HandledKeepsOrder DEF HandleLast, LoopStates
  <2> QED
    BY <1>0, <1>10, <2>1, SwitchUntouched DEF HandleLast, Goto, Alive
<1>11. ASSUME NEW l \in Loops, HandleRouted(l) PROVE IInv'
  <2>1. HandledInOrder'
    BY <1>11, HandledKeepsOrder DEF HandleRouted, LoopStates
  <2> QED
    BY <1>0, <1>11, <2>1, SwitchUntouched DEF HandleRouted, Goto, Alive
<1>12. ASSUME NEW l \in Loops, RouteBegin(l) PROVE IInv'
  <2>1. /\ loop[l] = "routing"
        /\ loop' = [loop EXCEPT ![l] = loop'[l]]
        /\ loop'[l] \in {"emitting", "top"}
        /\ \A m \in Loops \ {l} : hand'[m] = hand[m]
        /\ UNCHANGED <<switchVars, queue, accepted, handled>>
    BY <1>0, <1>12 DEF RouteBegin, Goto, TInv, TypeOK
  <2> QED
    BY <1>0, <2>1, EventsUntouched, SwitchUntouched DEF Alive
<1>13. ASSUME NEW l \in Loops, RouteQueued(l) PROVE IInv'
  <2>1. hand[l] \in Event
    BY <1>0, <1>13 DEF RouteQueued, RouteEnds, TInv, HoldsEvent
  <2>2. HandledInOrder'
    <3>1. /\ \A m \in Loops : loop'[m] = "handling" <=> loop[m] = "handling"
          /\ \A m \in Loops : loop[m] = "handling" => hand'[m] = hand[m]
      BY <1>0, <1>13 DEF RouteQueued, RouteEnds, Goto, TInv, TypeOK
    <3> QED
      BY <1>13, <2>1, <3>1, EnqueueInOrder DEF RouteQueued, RouteEnds
  <2> QED
    BY <1>0, <1>13, <2>2, SwitchUntouched
       DEF RouteQueued, RouteEnds, Goto, Alive
<1>14. ASSUME NEW l \in Loops, RouteFails(l) PROVE IInv'
  <2>1. /\ loop[l] = "emitting"
        /\ loop' = [loop EXCEPT ![l] = "top"]
        /\ \A m \in Loops \ {l} : hand'[m] = hand[m]
        /\ UNCHANGED <<switchVars, queue, accepted, handled>>
    BY <1>0, <1>14 DEF RouteFails, RouteEnds, Goto, TInv, TypeOK
  <2> QED
    BY <1>0, <2>1, EventsUntouched, SwitchUntouched DEF Alive
<1>15. ASSUME NEW l \in Loops, CancelContext(l) PROVE IInv'
  BY <1>0, <1>15, EventsUntouched, SwitchUntouched DEF CancelContext, Alive
<1>16. CASE UNCHANGED vars
  BY <1>0, <1>16, EventsUntouched, SwitchUntouched DEF vars, Alive
<1> QED
  BY <1>1, <1>2, <1>3, <1>4, <1>5, <1>6, <1>7, <1>8, <1>9, <1>10, <1>11,
     <1>12, <1>13, <1>14, <1>15, <1>16 DEF Next, EmitStep, LoopStep

LEMMA Invariance ==
  ASSUME OneController
  PROVE  Spec => []IInv
<1>1. IInv /\ [Next]_vars => IInv'
  BY NextIInv
<1> QED
  BY <1>1, InitIInv, PTL DEF Spec

(* With one controller, two loops never take events from the queue at once,*)
(* however Start and Stop, ended contexts and full queues interleave.      *)
THEOREM OneLoopAtATime ==
  ASSUME OneController
  PROVE  Spec => []OneLoop
<1>1. IInv => OneLoop
  <2> SUFFICES ASSUME IInv PROVE OneLoop
    OBVIOUS
  <2>1. Alive \subseteq {stopChan}
    BY DEF IInv, LoopIsCurrent
  <2>2. IsFiniteSet({stopChan}) /\ Cardinality({stopChan}) = 1
    BY FS_Singleton
  <2>3. /\ Cardinality(Alive) <= Cardinality({stopChan})
        /\ IsFiniteSet(Alive)
    BY <2>1, <2>2, FS_Subset
  <2> QED
    BY <2>2, <2>3 DEF OneLoop
<1> QED
  BY <1>1, Invariance, PTL

(* With one controller, a Stop that has returned leaves no loop behind.    *)
THEOREM StopWaitsForLoop ==
  ASSUME OneController
  PROVE  Spec => []StopWaits
<1>1. IInv => StopWaits
  BY DEF IInv
<1> QED
  BY <1>1, Invariance, PTL

(* With one controller the runner's whole invariant holds: the types, one  *)
(* loop at a time, and no loop behind a Stop that has returned.            *)
THEOREM LoopInvHolds ==
  ASSUME OneController
  PROVE  Spec => []LoopInv
<1>1. TypeOK /\ OneLoop /\ StopWaits => LoopInv
  BY DEF LoopInv
<1> QED
  BY <1>1, TypeCorrect, OneLoopAtATime, StopWaitsForLoop, PTL

(* With one controller, no accepted event is lost, doubled or overtaken.   *)
THEOREM EventsHandledInOrder ==
  ASSUME OneController
  PROVE  Spec => []HandledInOrder
<1>1. IInv => HandledInOrder
  BY DEF IInv
<1> QED
  BY <1>1, Invariance, PTL

-----------------------------------------------------------------------------
(* EventRouting.                                                           *)

(* The names callbacks are registered under.                               *)
RegisteredNames == {r.name : r \in Registrations}

(* A stack of frames: an event on top, and under an event that recommends  *)
(* a retry the event to retry.                                             *)
FramesOK(fs) ==
  /\ fs \in Seq(Frame) /\ fs # <<>>
  /\ \A i \in DOMAIN fs : fs[i].action = "retry" => i + 1 \in DOMAIN fs

(* The metadata says how often an event was retried, which is not more     *)
(* than the maximum, and less where one more retry is recommended.         *)
CountsOK(fs) ==
  \A i \in DOMAIN fs :
    /\ fs[i].retries = fs[i].tries /\ fs[i].tries <= MaxRetries
    /\ fs[i].action = "retry" => fs[i + 1].tries < MaxRetries

(* The lock is held while callbacks are called.                            *)
Calling ==
  /\ todo \in Seq(RegisteredNames)
  /\ ~reading => todo = <<>> /\ ~lastErr
  /\ reading => stage \in DOMAIN HookOf

Framed ==
  /\ \A i \in DOMAIN waiting : FramesOK(waiting[i].frames)
  /\ stage # "idle" =>
       /\ event \in RoutedEvent /\ FramesOK(event.frames)
       /\ event.session # "none"
       /\ route # "none" => event.hop < MaxRoutes

(* The error and the route, stage by stage.                                *)
Settling ==
  /\ stage \in {"runError", "agentError"} => error # "none"
  /\ stage \in {"beforeRun", "run", "afterRun"} => error = "none"
  /\ stage = "beforeRun" => route = "none"

RoutingTyped == RoutingTypeOK /\ Calling /\ Framed /\ Settling

(* The follow-up of the event in hand has still to be made.                *)
Owes ==
  \/ stage \in {"beforeEvent", "beforeAgent", "dispatch", "beforeRun", "run"}
  \/ /\ stage \in {"afterRun", "runError", "agentError", "result"}
     /\ error # "none" \/ route # "none"

(* A caller's event lives on in one event at most, waiting or in hand.     *)
OneThread ==
  /\ \A i \in DOMAIN waiting : waiting[i].n <= emitted
  /\ \A i, j \in DOMAIN waiting : waiting[i].n = waiting[j].n => i = j
  /\ stage # "idle" => event.n <= emitted
  /\ Owes => \A i \in DOMAIN waiting : waiting[i].n # event.n
  /\ Len(waiting) + (IF Owes THEN 1 ELSE 0) <= emitted

(* Whatever descends from a caller's event is in the session that event    *)
(* came to have.                                                           *)
InSession ==
  router = "internal" =>
    /\ \A i \in DOMAIN waiting :
         waiting[i].from = "loop" =>
           /\ waiting[i].session = session[waiting[i].n]
           /\ waiting[i].session # "none"
    /\ stage # "idle" => event.session = session[event.n]

(* The counts of every event that waits, and of the one in hand.           *)
Counted ==
  /\ \A i \in DOMAIN waiting : CountsOK(waiting[i].frames)
  /\ stage # "idle" => CountsOK(event.frames)

(* The trail up to the agent, and when it has run.                         *)
Opened == Append(<<"beforeEvent">>, "beforeAgent")
HandRun == Append(Append(Opened, "beforeRun"), "run")

(* What has come when the result is processed.                             *)
Through(t) ==
  IF error = "none"
  THEN t = Append(HandRun, "afterRun") /\ ~vetoed
  ELSE \/ t = Append(Opened, "agentError")
       \/ t = Append(Append(HandRun, "runError"), "agentError") /\ ~vetoed

(* The hooks so far, for each stage.                                       *)
HooksSoFar ==
  /\ stage = "beforeEvent" => trail = <<>> /\ vetoed = lastErr
  /\ stage = "beforeAgent" => trail = <<"beforeEvent">> /\ vetoed = lastErr
  /\ stage \in {"dispatch", "beforeRun"} => trail = Opened /\ ~vetoed
  /\ stage = "run" => trail = Append(Opened, "beforeRun") /\ ~vetoed
  /\ stage \in {"afterRun", "runError"} => trail = HandRun /\ ~vetoed
  /\ stage = "agentError" =>
       \/ trail = Opened
       \/ trail = Append(HandRun, "runError") /\ ~vetoed
  /\ stage \in {"result", "afterEvent"} => Through(trail)
  /\ stage = "idle" =>
       \/ trail = <<>> \/ trail = <<"beforeEvent">>
       \/ \E t \in {Append(HandRun, "afterRun"), Append(Opened, "agentError"),
                   Append(Append(HandRun, "runError"), "agentError")} :
            Through(t) /\ trail = Append(t, "afterEvent")

(* Whatever Invoke has still to call is registered.                        *)
TodoRegistered ==
  reading => \A i \in DOMAIN todo :
               \E h \in {HookOf[stage], "AllHooks"} :
                 Contains(callbacks[h], todo[i])

(* The inductive invariant; Counted joins it where the maximum is one the  *)
(* metadata can say.                                                       *)
RInv == /\ RoutingTyped /\ OneThread /\ InSession
        /\ HooksSoFar /\ TodoRegistered

-----------------------------------------------------------------------------
(* What the assumption on the constants says.                              *)
LEMMA RoutingFacts ==
  /\ "none" \notin Codes /\ "none" \notin Names /\ Names \subseteq Routes
  /\ "none" \in Routes /\ "error-handler" \in Names
  /\ MaxRetries \in Nat /\ MaxEmits \in Nat /\ MaxRoutes \in Nat
  /\ MaxFaults \in Nat /\ MaxChanges \in Nat
BY EventRoutingAssumption DEF Routes

(* A stack has a top frame.                                                *)
LEMMA FramesTop ==
  ASSUME NEW fs, FramesOK(fs)
  PROVE  /\ Len(fs) \in Nat /\ Len(fs) >= 1 /\ DOMAIN fs = 1..Len(fs)
         /\ 1 \in DOMAIN fs /\ Head(fs) = fs[1] /\ fs[1] \in Frame
BY EmptySeq, LenProperties DEF FramesOK

(* An event as such is a frame of its own.                                 *)
LEMMA PlainFrame ==
  ASSUME NEW r \in Routes
  PROVE  /\ Plain(r) \in Frame /\ Plain(r).action = "none"
         /\ Plain(r).retries = 0 /\ Plain(r).tries = 0
BY DEF Plain, Frame, Actions

(* A stack of one plain frame.                                             *)
LEMMA PlainFrames ==
  ASSUME NEW r \in Routes
  PROVE  FramesOK(<<Plain(r)>>) /\ CountsOK(<<Plain(r)>>)
<1>1. <<Plain(r)>> \in Seq(Frame) /\ DOMAIN <<Plain(r)>> = {1}
      /\ <<Plain(r)>>[1] = Plain(r) /\ <<Plain(r)>> # <<>>
  BY PlainFrame
<1> QED
  BY <1>1, PlainFrame, RoutingFacts DEF FramesOK, CountsOK

(* An error event on top of the event it is about.                         *)
LEMMA PushFrame ==
  ASSUME NEW fs, FramesOK(fs), NEW f \in Frame
  PROVE  /\ FramesOK(<<f>> \o fs)
         /\ /\ CountsOK(fs) /\ f.retries = 0 /\ f.tries = 0
            /\ f.action = "retry" => fs[1].tries < MaxRetries
            => CountsOK(<<f>> \o fs)
<1> DEFINE q == <<f>> \o fs
<1>1. /\ q \in Seq(Frame) /\ Len(q) = Len(fs) + 1
      /\ DOMAIN q = 1..(Len(fs) + 1)
      /\ q[1] = f /\ \A i \in 1..Len(fs) : q[i + 1] = fs[i]
      /\ \A i \in 2..Len(fs) + 1 : q[i] = fs[i - 1]
  BY FramesTop DEF FramesOK
<1>2. q # <<>>
  BY <1>1, FramesTop
<1> HIDE DEF q
<1>3. FramesOK(q)
  <2>1. ASSUME NEW i \in DOMAIN q, q[i].action = "retry"
        PROVE  i + 1 \in DOMAIN q
    <3>1. CASE i = 1
      BY <1>1, <3>1, FramesTop
    <3>2. CASE i # 1
      <4>1. i - 1 \in DOMAIN fs /\ q[i] = fs[i - 1]
        BY <1>1, <3>2, FramesTop
      <4> QED
        BY <1>1, <2>1, <4>1, FramesTop DEF FramesOK
    <3> QED
      BY <3>1, <3>2
  <2> QED
    BY <1>1, <1>2, <2>1 DEF FramesOK
<1>4. ASSUME CountsOK(fs), f.retries = 0, f.tries = 0,
             f.action = "retry" => fs[1].tries < MaxRetries
      PROVE  CountsOK(q)
  <2> SUFFICES ASSUME NEW i \in DOMAIN q
               PROVE  /\ q[i].retries = q[i].tries /\ q[i].tries <= MaxRetries
                      /\ q[i].action = "retry" => q[i + 1].tries < MaxRetries
    BY DEF CountsOK
  <2>1. CASE i = 1
    BY <1>1, <1>4, <2>1, FramesTop, RoutingFacts
  <2>2. CASE i # 1
    <3>1. i - 1 \in DOMAIN fs /\ q[i] = fs[i - 1]
      BY <1>1, <2>2, FramesTop
    <3>2. fs[i - 1].action = "retry" => q[i + 1] = fs[i]
      <4> SUFFICES ASSUME fs[i - 1].action = "retry" PROVE q[i + 1] = fs[i]
        OBVIOUS
      <4>1. (i - 1) + 1 \in DOMAIN fs
        BY <3>1 DEF FramesOK
      <4>2. i \in 1..Len(fs)
        BY <1>1, <4>1, FramesTop
      <4> QED
        BY <1>1, <4>2
    <3>3. (i - 1) + 1 = i
      BY <1>1
    <3> QED
      BY <1>4, <3>1, <3>2, <3>3 DEF CountsOK
  <2> QED
    BY <2>1, <2>2
<1> QED
  BY <1>3, <1>4 DEF q

(* The event under one that recommends a retry.                            *)
LEMMA PopFrame ==
  ASSUME NEW fs, FramesOK(fs), Head(fs).action = "retry"
  PROVE  /\ FramesOK(Tail(fs)) /\ Tail(fs)[1] = fs[2] /\ 2 \in DOMAIN fs
         /\ CountsOK(fs) => CountsOK(Tail(fs)) /\ fs[2].tries < MaxRetries
<1> DEFINE q == Tail(fs)
<1>1. 1 + 1 \in DOMAIN fs
  BY FramesTop DEF FramesOK
<1>2. /\ q \in Seq(Frame) /\ Len(q) = Len(fs) - 1
      /\ DOMAIN q = 1..(Len(fs) - 1)
      /\ \A i \in DOMAIN q : i + 1 \in DOMAIN fs /\ q[i] = fs[i + 1]
      /\ 1 \in DOMAIN q /\ q # <<>>
  BY <1>1, FramesTop DEF FramesOK
<1> HIDE DEF q
<1>3. FramesOK(q)
  <2>1. ASSUME NEW i \in DOMAIN q, q[i].action = "retry"
        PROVE  i + 1 \in DOMAIN q
    <3>1. (i + 1) + 1 \in DOMAIN fs
      BY <1>2, <2>1 DEF FramesOK
    <3> QED
      BY <1>2, <3>1, FramesTop
  <2> QED
    BY <1>2, <2>1 DEF FramesOK
<1>4. ASSUME CountsOK(fs) PROVE CountsOK(q) /\ fs[2].tries < MaxRetries
  <2>1. ASSUME NEW i \in DOMAIN q
        PROVE  /\ q[i].retries = q[i].tries /\ q[i].tries <= MaxRetries
               /\ q[i].action = "retry" => q[i + 1].tries < MaxRetries
    <3>1. q[i].action = "retry" => i + 1 \in DOMAIN q
      BY <1>3 DEF FramesOK
    <3> QED
      BY <1>2, <1>4, <3>1 DEF CountsOK
  <2>2. fs[1 + 1].tries < MaxRetries
    BY <1>4, FramesTop DEF CountsOK
  <2> QED
    BY <2>1, <2>2 DEF CountsOK
<1> QED
  BY <1>1, <1>2, <1>3, <1>4 DEF q

-----------------------------------------------------------------------------
(* The queue when an event is put in.                                      *)
LEMMA QueueAppend ==
  ASSUME NEW q \in Seq(RoutedEvent), NEW e \in RoutedEvent
  PROVE  /\ Append(q, e) \in Seq(RoutedEvent)
         /\ Len(Append(q, e)) = Len(q) + 1
         /\ \A i \in DOMAIN q : Append(q, e)[i] = q[i]
         /\ Append(q, e)[Len(q) + 1] = e
         /\ \A i \in DOMAIN Append(q, e) : i \in DOMAIN q \/ i = Len(q) + 1
         /\ DOMAIN q = 1..Len(q) /\ Len(q) \in Nat
OBVIOUS

(* The queue when one is taken.                                            *)
LEMMA QueueTail ==
  ASSUME NEW q \in Seq(RoutedEvent), q # <<>>
  PROVE  /\ Tail(q) \in Seq(RoutedEvent)
         /\ Len(Tail(q)) = Len(q) - 1 /\ Len(q) \in Nat
         /\ \A i \in DOMAIN Tail(q) :
              i \in Nat /\ i + 1 \in DOMAIN q /\ i + 1 # 1
              /\ Tail(q)[i] = q[i + 1]
         /\ 1 \in DOMAIN q /\ Head(q) = q[1] /\ q[1] \in RoutedEvent
BY EmptySeq

(* An event that may follow the one in hand.                               *)
Follows(e) ==
  /\ e \in RoutedEvent /\ FramesOK(e.frames) /\ e.n = event.n
  /\ router = "internal" => e.session = event.session
  /\ MaxRetries <= 3 /\ CountsOK(event.frames) => CountsOK(e.frames)

(* The event a success makes follows the one in hand.                      *)
LEMMA SuccessFollows ==
  ASSUME RoutingTyped, stage = "result", error = "none", route # "none",
         NEW s
  PROVE  Follows(SuccessEvent(event, route, s))
<1>1. /\ event \in RoutedEvent /\ event.hop \in 0..MaxRoutes
      /\ event.hop < MaxRoutes /\ route \in Routes
      /\ event.hop + 1 \in 0..MaxRoutes
  BY RoutingFacts DEF RoutingTyped, RoutingTypeOK, Framed, RoutedEvent
<1> DEFINE h == <<Plain(route)>>
           e == SuccessEvent(event, route, s)
<1>2. h \in Seq(Frame) /\ FramesOK(h) /\ CountsOK(h)
  BY <1>1, PlainFrames DEF FramesOK
<1>3. e = [event EXCEPT !.frames = h, !.from = "loop", !.hop = @ + 1]
  BY DEF SuccessEvent
<1> HIDE DEF h, e
<1>4. e \in RoutedEvent /\ e.frames = h /\ e.n = event.n
      /\ e.session = event.session
  BY <1>1, <1>2, <1>3 DEF RoutedEvent
<1>5. Follows(e)
  BY <1>2, <1>4 DEF Follows
<1> QED
  BY <1>5 DEF e

(* The configured handler is a name.                                       *)
LEMMA HandlerNames ==
  ASSUME NEW code PROVE ErrorHandlerOf(code) \in Names
BY EventRoutingAssumption DEF ErrorHandlerOf

(* A retry is recommended while the count is below the maximum.            *)
LEMMA RecoveryAction ==
  ASSUME NEW code, NEW count \in Nat
  PROVE  /\ Recovery(code, count) \in Actions
         /\ Recovery(code, count) = "retry" => count < MaxRetries
BY RoutingFacts DEF Recovery, Actions

(* The event a failure makes follows it, whichever router makes it.        *)
LEMMA ErrorFollows ==
  ASSUME RoutingTyped, stage = "result", error # "none"
  PROVE  Follows(ErrorEvent(event, error))
<1> DEFINE fs == event.frames
           count == RetryCount(Head(fs).retries)
           f == [Plain(ErrorHandlerOf(error))
                   EXCEPT !.action = Recovery(error, count)]
           e == ErrorEvent(event, error)
<1>1. event \in RoutedEvent /\ FramesOK(fs) /\ router \in {"basic", "internal"}
  BY DEF RoutingTyped, RoutingTypeOK, Framed
<1>2. count \in Nat /\ Head(fs) = fs[1] /\ fs[1].retries \in Nat
      /\ fs[1].tries \in Nat /\ 1 \in DOMAIN fs
  BY <1>1, FramesTop DEF RetryCount, Frame
<1>3. /\ f \in Frame /\ f.retries = 0 /\ f.tries = 0
      /\ f.action = Recovery(error, count)
  <2>1. ErrorHandlerOf(error) \in Routes
    BY HandlerNames, RoutingFacts
  <2> QED
    BY <1>2, <2>1, RecoveryAction, PlainFrame DEF Plain, Frame
<1>4. ASSUME MaxRetries <= 3, CountsOK(fs), f.action = "retry"
      PROVE  fs[1].tries < MaxRetries
  <2>1. count < MaxRetries
    BY <1>2, <1>3, <1>4, RecoveryAction
  <2>2. fs[1].retries = fs[1].tries /\ fs[1].tries <= MaxRetries
    BY <1>2, <1>4 DEF CountsOK
  <2> QED
    BY <1>2, <1>4, <2>1, <2>2, RoutingFacts DEF RetryCount
<1>5. CASE router = "basic"
  <2> DEFINE h == <<Plain("error-handler")>>
  <2>1. FramesOK(h) /\ CountsOK(h) /\ h \in Seq(Frame)
    BY PlainFrames, RoutingFacts DEF FramesOK
  <2>2. e = [event EXCEPT !.frames = h, !.from = "loop", !.session = "none"]
    BY <1>5 DEF ErrorEvent
  <2> HIDE DEF e, h
  <2>3. e \in RoutedEvent /\ e.frames = h /\ e.n = event.n
    BY <1>1, <2>1, <2>2 DEF RoutedEvent, Sessions
  <2>4. router # "internal"
    BY <1>5
  <2>5. Follows(e)
    BY <2>1, <2>3, <2>4 DEF Follows
  <2> QED
    BY <2>5 DEF e
<1>6. CASE router = "internal"
  <2> DEFINE h == <<f>> \o fs
  <2> HIDE DEF f, count
  <2>1. /\ FramesOK(h) /\ h \in Seq(Frame)
        /\ MaxRetries <= 3 /\ CountsOK(fs) => CountsOK(h)
    BY <1>1, <1>3, <1>4, PushFrame DEF FramesOK
  <2>2. e = [event EXCEPT !.frames = h, !.from = "loop"]
    BY <1>6 DEF ErrorEvent, f, count
  <2> HIDE DEF e, h
  <2>3. e \in RoutedEvent /\ e.frames = h /\ e.n = event.n
        /\ e.session = event.session
    BY <1>1, <2>1, <2>2 DEF RoutedEvent
  <2>4. Follows(e)
    BY <2>1, <2>3 DEF Follows
  <2> QED
    BY <2>4 DEF e
<1> QED
  BY <1>1, <1>5, <1>6

(* The original event, counted once more, follows too.                     *)
LEMMA RetryFollows ==
  ASSUME RoutingTyped, stage = "run", Head(event.frames).action = "retry"
  PROVE  Follows(IncrementRetryCount([event EXCEPT !.frames = Tail(@)]))
<1> DEFINE fs == event.frames
           q == Tail(fs)
           o == [event EXCEPT !.frames = Tail(@)]
           e == IncrementRetryCount(o)
           g == e.frames
<1>1. event \in RoutedEvent /\ FramesOK(fs)
  BY DEF RoutingTyped, Framed
<1>2. /\ FramesOK(q) /\ q[1] = fs[2] /\ q \in Seq(Frame)
      /\ CountsOK(fs) => CountsOK(q) /\ fs[2].tries < MaxRetries
  BY <1>1, PopFrame DEF FramesOK
<1>3. o \in RoutedEvent /\ o.frames = q /\ o.n = event.n
      /\ o.session = event.session
  BY <1>1, <1>2 DEF RoutedEvent
<1>4. q[1] \in Frame /\ 1 \in DOMAIN q /\ q[1].tries \in Nat
      /\ q[1].retries \in Nat /\ DOMAIN q = 1..Len(q) /\ Len(q) \in Nat
  BY <1>2, FramesTop DEF Frame
<1> HIDE DEF o, q
<1> DEFINE t == [q[1] EXCEPT !.retries = RetryCount(@) + 1, !.tries = More(@)]
<1>5. /\ t \in Frame /\ t.action = q[1].action
      /\ t.retries = RetryCount(q[1].retries) + 1 /\ t.tries = More(q[1].tries)
  <2>1. RetryCount(q[1].retries) + 1 \in Nat
    BY <1>4 DEF RetryCount
  <2>2. More(q[1].tries) \in Nat
    BY <1>4, RoutingFacts DEF More
  <2> QED
    BY <1>4, <2>1, <2>2 DEF Frame
<1>6. g = [q EXCEPT ![1] = t] /\ e.n = event.n /\ e.session = event.session
  BY <1>3, <1>4 DEF IncrementRetryCount, RoutedEvent
<1>7. g \in Seq(Frame) /\ g # <<>> /\ DOMAIN g = DOMAIN q /\ g[1] = t
      /\ \A i \in DOMAIN g : i # 1 => g[i] = q[i]
  <2> HIDE DEF t, g
  <2> QED
  BY <1>2, <1>4, <1>5, <1>6, ExceptSeq
<1>8. e \in RoutedEvent
  <2>1. e = [o EXCEPT !.frames = g]
    BY <1>3 DEF IncrementRetryCount, RoutedEvent
  <2> HIDE DEF e, g
  <2> QED
    BY <1>3, <1>7, <2>1 DEF RoutedEvent
<1> HIDE DEF t, e
<1>9. FramesOK(g)
  BY <1>2, <1>5, <1>7 DEF FramesOK
<1>10. ASSUME MaxRetries <= 3, CountsOK(fs) PROVE CountsOK(g)
  <2>1. /\ q[1].retries = q[1].tries /\ q[1].tries < MaxRetries
        /\ q[1].action = "retry" => q[2].tries < MaxRetries
        /\ \A i \in DOMAIN q : i # 1 => CountsOK(q)
    BY <1>2, <1>4, <1>10 DEF CountsOK
  <2>2. t.retries = t.tries /\ t.tries <= MaxRetries
    BY <1>4, <1>5, <1>10, <2>1, RoutingFacts DEF RetryCount, More
  <2> SUFFICES ASSUME NEW i \in DOMAIN g
               PROVE  /\ g[i].retries = g[i].tries /\ g[i].tries <= MaxRetries
                      /\ g[i].action = "retry" => g[i + 1].tries < MaxRetries
    BY DEF CountsOK
  <2>3. g[i].action = q[i].action
    BY <1>5, <1>7
  <2>4. q[i].action = "retry" => i + 1 \in DOMAIN g /\ i + 1 # 1
        /\ g[i + 1] = q[i + 1] /\ q[i + 1].tries < MaxRetries
    <3>1. CountsOK(q)
      BY <1>2, <1>10
    <3> QED
      BY <1>2, <1>4, <1>7, <3>1 DEF FramesOK, CountsOK
  <2>5. g[i].retries = g[i].tries /\ g[i].tries <= MaxRetries
    BY <1>2, <1>7, <1>10, <2>2 DEF CountsOK
  <2> QED
    BY <2>3, <2>4, <2>5
<1>11. Follows(e)
  BY <1>6, <1>8, <1>9, <1>10 DEF Follows
<1> QED
  BY <1>11 DEF e, o

(* processAgentResult emits a follow-up when one is owed, and no event     *)
(* when none is.                                                           *)
LEMMA ProcessFollows ==
  ASSUME RoutingTyped, ProcessAgentResult
  PROVE  \/ UNCHANGED <<waiting, lost>> /\ ~Owes
         \/ \E e : Follows(e) /\ Emit(e) /\ Owes
<1>0. stage = "result"
  BY DEF ProcessAgentResult
<1>1. CASE error # "none"
  BY <1>0, <1>1, ErrorFollows DEF ProcessAgentResult, Owes
<1>2. CASE error = "none" /\ route # "none"
  BY <1>0, <1>2, SuccessFollows DEF ProcessAgentResult, Owes
<1>3. CASE error = "none" /\ route = "none"
  BY <1>0, <1>3 DEF ProcessAgentResult, Owes
<1> QED
  BY <1>1, <1>2, <1>3

(* The stages and their hooks.                                             *)
LEMMA StageFacts ==
  /\ DOMAIN HookOf = {"beforeEvent", "beforeAgent", "beforeRun", "afterRun",
                      "runError", "agentError", "afterEvent"}
  /\ Stages = {"beforeEvent", "beforeAgent", "beforeRun", "afterRun",
               "runError", "agentError", "afterEvent", "idle", "dispatch",
               "run", "result"}
  /\ \A s \in DOMAIN HookOf : HookOf[s] \in Hooks
  /\ "AllHooks" \in Hooks
BY DEF HookOf, Stages, Hooks

(* Invoke's list is of registered names.                                   *)
LEMMA RegisteredType ==
  ASSUME callbacks \in [Hooks -> Seq(RegisteredNames)], NEW s \in DOMAIN HookOf
  PROVE  Registered(s) \in Seq(RegisteredNames)
<1>1. callbacks[HookOf[s]] \in Seq(RegisteredNames)
      /\ callbacks["AllHooks"] \in Seq(RegisteredNames)
  BY StageFacts
<1> QED
  BY <1>1, ConcatProperties DEF Registered

(* Taking an element out of a list keeps its type.                         *)
LEMMA RemoveAtType ==
  ASSUME NEW S, NEW q \in Seq(S), NEW i \in DOMAIN q
  PROVE  RemoveAt(q, i) \in Seq(S)
<1>1. SubSeq(q, 1, i - 1) \in Seq(S) /\ SubSeq(q, i + 1, Len(q)) \in Seq(S)
  OBVIOUS
<1> QED
  BY <1>1, ConcatProperties DEF RemoveAt

(* An event gets a session when it has none, and nothing else changes.     *)
LEMMA SettledEvent ==
  ASSUME NEW e \in RoutedEvent
  PROVE  /\ Settled(e) \in RoutedEvent /\ Settled(e).session # "none"
         /\ Settled(e).n = e.n /\ Settled(e).from = e.from
         /\ Settled(e).frames = e.frames /\ Settled(e).hop = e.hop
         /\ e.session # "none" => Settled(e) = e
BY DEF Settled, RoutedEvent, Sessions

(* A caller's event is new, and has one plain frame.                       *)
LEMMA CallersEvent ==
  ASSUME RoutingTyped, NEW r \in Routes, NEW s \in {"none", "given"},
         EmitEvent(r, s)
  PROVE  \E e \in RoutedEvent :
           /\ waiting' = Append(waiting, e)
           /\ e.n = emitted + 1 /\ e.from = "caller"
           /\ FramesOK(e.frames) /\ CountsOK(e.frames)
<1> DEFINE h == <<Plain(r)>>
           e == [n |-> emitted + 1, from |-> "caller", session |-> s,
                 hop |-> 0, frames |-> h]
<1>1. h \in Seq(Frame) /\ FramesOK(h) /\ CountsOK(h)
  BY PlainFrames DEF FramesOK
<1>2. emitted + 1 \in 1..MaxEmits /\ 0 \in 0..MaxRoutes
  BY RoutingFacts DEF RoutingTyped, RoutingTypeOK, EmitEvent
<1>3. waiting' = Append(waiting, e)
  BY DEF EmitEvent
<1> HIDE DEF h
<1>4. e \in RoutedEvent
  BY <1>1, <1>2 DEF RoutedEvent, Sessions
<1>5. e.n = emitted + 1 /\ e.from = "caller" /\ e.frames = h
  OBVIOUS
<1> HIDE DEF e
<1> QED
  BY <1>1, <1>3, <1>4, <1>5

(* The loop's own Emit keeps the queue's type.                             *)
LEMMA Emitted ==
  ASSUME RoutingTyped, NEW e, Follows(e), Emit(e), stage # "idle"
  PROVE  /\ waiting' \in Seq(RoutedEvent) /\ lost' \subseteq 1..MaxEmits
         /\ \A i \in DOMAIN waiting' : FramesOK(waiting'[i].frames)
<1>1. e \in RoutedEvent /\ waiting \in Seq(RoutedEvent)
      /\ e.n \in 1..MaxEmits
  BY DEF Follows, RoutingTyped, RoutingTypeOK, RoutedEvent
<1>2. CASE waiting' = Append(waiting, e) /\ lost' = lost
  BY <1>1, <1>2, QueueAppend
     DEF Follows, RoutingTyped, RoutingTypeOK, Framed
<1>3. CASE waiting' = waiting /\ lost' = lost \cup {e.n}
  BY <1>1, <1>3 DEF RoutingTyped, RoutingTypeOK, Framed
<1> QED
  BY <1>2, <1>3 DEF Emit

(* A handler that retries emits a follow-up.                               *)
LEMMA RetryEmits ==
  ASSUME RoutingTyped, HandlerRetries
  PROVE  \E e : Follows(e) /\ Emit(e)
BY RetryFollows DEF HandlerRetries, Ran

(* While the loop is not idle it has an event.                             *)
LEMMA InHand ==
  ASSUME RoutingTyped, stage # "idle"
  PROVE  /\ event \in RoutedEvent /\ event.n \in 1..MaxEmits
         /\ event.n \in Nat /\ Target \in Routes
<1>1. event \in RoutedEvent /\ FramesOK(event.frames)
  BY DEF RoutingTyped, Framed
<1> QED
  BY <1>1, RoutingFacts, FramesTop DEF RoutedEvent, Target, Frame

(* An event without a handler becomes an error.                            *)
LEMMA Dispatched ==
  ASSUME RoutingTyped, Dispatch
  PROVE  /\ stage = "dispatch" /\ route = "none" /\ route' = "none"
         /\ \/ stage' = "beforeRun" /\ error' = "none"
            \/ stage' = "agentError" /\ error' \in {"VALIDATION", "UNKNOWN"}
<1>1. Target \in Routes /\ stage = "dispatch"
  BY InHand DEF Dispatch
<1>2. error = "none" /\ route = "none"
  BY <1>1 DEF RoutingTyped, RoutingTypeOK
<1> QED
  BY <1>1, <1>2 DEF Dispatch, Routes

(* Every step keeps the types of the variables.                            *)
LEMMA TypeOKStep ==
  ASSUME RoutingTyped, [RoutingNext]_routingVars
  PROVE  RoutingTypeOK'
<1>1. ASSUME NEW a \in Names, RegisterAgent(a)
      PROVE  RoutingTypeOK'
  <2>1. handlers' \subseteq Names /\ changes' \in 0..MaxChanges
    BY <1>1, RoutingFacts
       DEF RegisterAgent, Change, RoutingTyped, RoutingTypeOK
  <2>2. UNCHANGED <<router, callbacks, faults, queueVars, handleVars,
                    invokeVars>>
    BY <1>1 DEF RegisterAgent
  <2> QED
    BY <2>1, <2>2
       DEF queueVars, handleVars, invokeVars, RoutingTyped, RoutingTypeOK
<1>2. ASSUME NEW r \in Registrations, Register(r)
      PROVE  RoutingTypeOK'
  <2>1. Append(callbacks[r.hook], r.name) \in Seq(RegisteredNames)
    BY EventRoutingAssumption
       DEF RoutingTyped, RoutingTypeOK, RegisteredNames
  <2>2. callbacks' \in [Hooks -> Seq(RegisteredNames)]
    BY <1>2, <2>1, EventRoutingAssumption
       DEF Register, RoutingTyped, RoutingTypeOK, RegisteredNames
  <2> QED
    BY <1>2, <2>2, EventRoutingAssumption
       DEF Register, Change, queueVars, handleVars, invokeVars, RoutingTyped,
           RoutingTypeOK, RegisteredNames
<1>3. ASSUME NEW r \in Registrations, Unregister(r)
      PROVE  RoutingTypeOK'
  <2>1. PICK i \in DOMAIN callbacks[r.hook] :
          callbacks' = [callbacks EXCEPT ![r.hook] = RemoveAt(@, i)]
    BY <1>3 DEF Unregister
  <2>2. RemoveAt(callbacks[r.hook], i) \in Seq(RegisteredNames)
    BY RemoveAtType, EventRoutingAssumption
       DEF RoutingTyped, RoutingTypeOK, RegisteredNames
  <2>3. callbacks' \in [Hooks -> Seq(RegisteredNames)]
    BY <2>1, <2>2, EventRoutingAssumption
       DEF RoutingTyped, RoutingTypeOK, RegisteredNames
  <2> QED
    BY <1>3, <2>3, EventRoutingAssumption
       DEF Unregister, Change, queueVars, handleVars, invokeVars, RoutingTyped,
           RoutingTypeOK, RegisteredNames
<1>4. ASSUME NEW r \in Routes, NEW s \in {"none", "given"}, EmitEvent(r, s)
      PROVE  RoutingTypeOK'
  <2>1. waiting' \in Seq(RoutedEvent)
    <3>1. PICK e \in RoutedEvent : waiting' = Append(waiting, e)
      BY <1>4, CallersEvent
    <3> QED
      BY <3>1, QueueAppend DEF RoutingTyped, RoutingTypeOK
  <2>2. emitted' \in 0..MaxEmits
    BY <1>4, RoutingFacts DEF EmitEvent, RoutingTyped, RoutingTypeOK
  <2>3. UNCHANGED <<session, unanswered, lost, fixedVars, handleVars,
                    invokeVars>>
    BY <1>4 DEF EmitEvent
  <2> QED
    BY <2>1, <2>2, <2>3
       DEF fixedVars, handleVars, invokeVars, RoutingTyped, RoutingTypeOK
<1>5. CASE TakeEvent
  <2>1. /\ waiting' \in Seq(RoutedEvent) /\ Head(waiting) \in RoutedEvent
    BY <1>5, QueueTail DEF TakeEvent, RoutingTyped, RoutingTypeOK
  <2>2. event' \in RoutedEvent
    BY <1>5, <2>1, SettledEvent DEF TakeEvent
  <2>3. session' \in [1..MaxEmits -> Sessions]
    BY <1>5, <2>2 DEF TakeEvent, RoutingTyped, RoutingTypeOK, RoutedEvent
  <2>4. /\ stage' \in Stages /\ error' \in Codes \cup {"none"}
        /\ route' \in Routes /\ vetoed' \in BOOLEAN
        /\ error' = "none" /\ route' = "none"
    BY <1>5, StageFacts, RoutingFacts DEF TakeEvent
  <2>5. UNCHANGED <<emitted, unanswered, lost, fixedVars, reading, lastErr>>
    BY <1>5 DEF TakeEvent
  <2> QED
    BY <2>1, <2>2, <2>3, <2>4, <2>5
       DEF fixedVars, RoutingTyped, RoutingTypeOK
<1>6. CASE Invoke
  BY <1>6, InHand, RoutingFacts, StageFacts DEF Invoke, handleVars, fixedVars,
     queueVars, RoutingTyped, RoutingTypeOK
<1>7. CASE RunCallback
  <2>1. faults' \in 0..MaxFaults
    BY <1>7, RoutingFacts DEF RunCallback, RoutingTyped, RoutingTypeOK
  <2>2. vetoed' \in BOOLEAN
    BY <1>7, Zenon DEF RunCallback, Veto, RoutingTyped, RoutingTypeOK
  <2>3. lastErr' \in BOOLEAN
    BY <1>7 DEF RunCallback, RoutingTyped, RoutingTypeOK
  <2>4. UNCHANGED <<router, handlers, callbacks, changes, reading,
                    handleVars, queueVars>>
    BY <1>7 DEF RunCallback
  <2> QED
    BY <2>1, <2>2, <2>3, <2>4
       DEF handleVars, queueVars, RoutingTyped, RoutingTypeOK
<1>8. CASE BeforeEventDone
  BY <1>8, InHand, RoutingFacts, StageFacts DEF BeforeEventDone, Invoked,
     fixedVars, RoutingTyped, RoutingTypeOK
<1>9. CASE BeforeAgentDone
  BY <1>9, InHand, RoutingFacts, StageFacts DEF BeforeAgentDone, Invoked,
     fixedVars, queueVars, RoutingTyped, RoutingTypeOK
<1>10. CASE Dispatch
  <2>1. UNCHANGED <<event, route, trail, fixedVars, queueVars, invokeVars>>
    BY <1>10 DEF Dispatch
  <2> QED
    BY <1>10, <2>1, Dispatched, StageFacts, EventRoutingAssumption
       DEF fixedVars, queueVars, invokeVars, RoutingTyped, RoutingTypeOK
<1>11. CASE BeforeRunDone
  BY <1>11, InHand, RoutingFacts, StageFacts DEF BeforeRunDone, Invoked,
     fixedVars, queueVars, RoutingTyped, RoutingTypeOK, Settling
<1>12. ASSUME NEW r \in Routes, AgentSucceeds(r)
      PROVE  RoutingTypeOK'
  BY <1>12, InHand, RoutingFacts, StageFacts DEF AgentSucceeds, Ran, Seen,
     fixedVars, invokeVars, RoutingTyped, RoutingTypeOK
<1>13. ASSUME NEW c \in Codes, AgentFails(c)
      PROVE  RoutingTypeOK'
  BY <1>13, InHand, RoutingFacts, StageFacts DEF AgentFails, Ran, fixedVars,
     invokeVars, queueVars, RoutingTyped, RoutingTypeOK
<1>14. CASE HandlerRetries
  <2>1. /\ waiting' \in Seq(RoutedEvent) /\ lost' \subseteq 1..MaxEmits
    BY <1>14, RetryEmits, Emitted DEF HandlerRetries, Ran
  <2>2. stage = "run" /\ stage' = "afterRun" /\ Seen \subseteq 1..MaxEmits
    BY <1>14 DEF HandlerRetries, Ran, Seen, RoutingTyped, RoutingTypeOK
  <2> QED
    BY <1>14, <2>1, <2>2, StageFacts
       DEF HandlerRetries, Ran, fixedVars, invokeVars, RoutingTyped,
           RoutingTypeOK
<1>15. CASE AfterRunDone
  BY <1>15, InHand, RoutingFacts, StageFacts DEF AfterRunDone, Invoked,
     fixedVars, queueVars, RoutingTyped, RoutingTypeOK
<1>16. CASE AgentErrorDone
  BY <1>16, InHand, RoutingFacts, StageFacts DEF AgentErrorDone, Invoked,
     fixedVars, queueVars, RoutingTyped, RoutingTypeOK
<1>17. CASE ProcessAgentResult
  <2>1. /\ waiting' \in Seq(RoutedEvent) /\ lost' \subseteq 1..MaxEmits
    BY <1>17, ProcessFollows, Emitted
       DEF ProcessAgentResult, RoutingTyped, RoutingTypeOK
  <2>2. /\ stage = "result" /\ stage' = "afterEvent"
        /\ unanswered' \subseteq 1..MaxEmits
    BY <1>17, InHand DEF ProcessAgentResult, RoutingTyped, RoutingTypeOK
  <2> QED
    BY <1>17, <2>1, <2>2, StageFacts
       DEF ProcessAgentResult, fixedVars, invokeVars, RoutingTyped,
           RoutingTypeOK
<1>18. CASE AfterEventDone
  BY <1>18, InHand, RoutingFacts, StageFacts DEF AfterEventDone, Invoked,
     fixedVars, queueVars, RoutingTyped, RoutingTypeOK
<1>19. CASE UNCHANGED routingVars
  BY <1>19, InHand, RoutingFacts, StageFacts DEF routingVars, invokeVars,
     handleVars, queueVars, fixedVars, RoutingTyped, RoutingTypeOK
<1> QED
  BY <1>1, <1>2, <1>3, <1>4, <1>5, <1>6, <1>7, <1>8, <1>9, <1>10, <1>11, <1>12,
     <1>13, <1>14, <1>15, <1>16, <1>17, <1>18, <1>19 DEF RoutingNext, Loop, Run

(* Every step keeps what is known of Invoke's lock and list.               *)
LEMMA CallingStep ==
  ASSUME RoutingTyped, [RoutingNext]_routingVars
  PROVE  Calling'
<1>1. ASSUME NEW a \in Names, RegisterAgent(a)
      PROVE  Calling'
  BY <1>1, StageFacts DEF RegisterAgent, Change, queueVars, handleVars,
     invokeVars, RoutingTyped, Calling
<1>2. ASSUME NEW r \in Registrations, Register(r)
      PROVE  Calling'
  BY <1>2, StageFacts DEF Register, MayWrite, Change, queueVars, handleVars,
     invokeVars, RoutingTyped, Calling
<1>3. ASSUME NEW r \in Registrations, Unregister(r)
      PROVE  Calling'
  BY <1>3, StageFacts DEF Unregister, MayWrite, Change, queueVars, handleVars,
     invokeVars, RoutingTyped, Calling
<1>4. ASSUME NEW r \in Routes, NEW s \in {"none", "given"}, EmitEvent(r, s)
      PROVE  Calling'
  BY <1>4, StageFacts DEF EmitEvent, fixedVars, handleVars, invokeVars,
     RoutingTyped, Calling
<1>5. CASE TakeEvent
  BY <1>5, StageFacts DEF TakeEvent, fixedVars, RoutingTyped, Calling
<1>6. CASE Invoke
  BY <1>6, StageFacts, RegisteredType
     DEF Invoke, handleVars, RoutingTyped, RoutingTypeOK, Calling,
         RegisteredNames
<1>7. CASE RunCallback
  <2>1. Tail(todo) \in Seq(RegisteredNames)
    BY <1>7 DEF RunCallback, RoutingTyped, Calling
  <2> QED
    BY <1>7, <2>1 DEF RunCallback, handleVars, RoutingTyped, Calling
<1>8. CASE BeforeEventDone
  BY <1>8, StageFacts DEF BeforeEventDone, Invoked, fixedVars, RoutingTyped,
     Calling
<1>9. CASE BeforeAgentDone
  BY <1>9, StageFacts DEF BeforeAgentDone, Invoked, fixedVars, queueVars,
     RoutingTyped, Calling
<1>10. CASE Dispatch
  BY <1>10, StageFacts DEF Dispatch, fixedVars, queueVars, invokeVars,
     RoutingTyped, Calling
<1>11. CASE BeforeRunDone
  BY <1>11, StageFacts DEF BeforeRunDone, Invoked, fixedVars, queueVars,
     RoutingTyped, Calling
<1>12. ASSUME NEW r \in Routes, AgentSucceeds(r)
      PROVE  Calling'
  BY <1>12, StageFacts DEF AgentSucceeds, Ran, Seen, fixedVars, invokeVars,
     RoutingTyped, Calling
<1>13. ASSUME NEW c \in Codes, AgentFails(c)
      PROVE  Calling'
  BY <1>13, StageFacts DEF AgentFails, Ran, fixedVars, invokeVars, queueVars,
     RoutingTyped, Calling
<1>14. CASE HandlerRetries
  BY <1>14, StageFacts DEF HandlerRetries, Ran, Seen, Emit, fixedVars,
     invokeVars, RoutingTyped, Calling
<1>15. CASE AfterRunDone
  BY <1>15, StageFacts DEF AfterRunDone, Invoked, fixedVars, queueVars,
     RoutingTyped, Calling
<1>16. CASE AgentErrorDone
  BY <1>16, StageFacts DEF AgentErrorDone, Invoked, fixedVars, queueVars,
     RoutingTyped, Calling
<1>17. CASE ProcessAgentResult
  BY <1>17, StageFacts DEF ProcessAgentResult, fixedVars, invokeVars,
     RoutingTyped, Calling
<1>18. CASE AfterEventDone
  BY <1>18, StageFacts DEF AfterEventDone, Invoked, fixedVars, queueVars,
     RoutingTyped, Calling
<1>19. CASE UNCHANGED routingVars
  BY <1>19, StageFacts DEF routingVars, invokeVars, handleVars, queueVars,
     fixedVars, RoutingTyped, Calling
<1> QED
  BY <1>1, <1>2, <1>3, <1>4, <1>5, <1>6, <1>7, <1>8, <1>9, <1>10, <1>11, <1>12,
     <1>13, <1>14, <1>15, <1>16, <1>17, <1>18, <1>19 DEF RoutingNext, Loop, Run

(* Every step keeps the stacks of frames.                                  *)
LEMMA FramedStep ==
  ASSUME RoutingTyped, [RoutingNext]_routingVars
  PROVE  Framed'
<1>1. ASSUME NEW a \in Names, RegisterAgent(a)
      PROVE  Framed'
  BY <1>1, StageFacts DEF RegisterAgent, Change, queueVars, handleVars,
     invokeVars, RoutingTyped, Framed
<1>2. ASSUME NEW r \in Registrations, Register(r)
      PROVE  Framed'
  BY <1>2, StageFacts DEF Register, MayWrite, Change, queueVars, handleVars,
     invokeVars, RoutingTyped, Framed
<1>3. ASSUME NEW r \in Registrations, Unregister(r)
      PROVE  Framed'
  BY <1>3, StageFacts DEF Unregister, MayWrite, Change, queueVars, handleVars,
     invokeVars, RoutingTyped, Framed
<1>4. ASSUME NEW r \in Routes, NEW s \in {"none", "given"}, EmitEvent(r, s)
      PROVE  Framed'
  <2>1. PICK e \in RoutedEvent :
          waiting' = Append(waiting, e) /\ FramesOK(e.frames)
    BY <1>4, CallersEvent
  <2>2. \A i \in DOMAIN waiting' : FramesOK(waiting'[i].frames)
    BY <2>1, QueueAppend DEF RoutingTyped, RoutingTypeOK, Framed
  <2> QED
    BY <1>4, <2>2 DEF EmitEvent, handleVars, RoutingTyped, Framed
<1>5. CASE TakeEvent
  <2> DEFINE h == Head(waiting)
  <2>1. /\ h \in RoutedEvent /\ FramesOK(h.frames)
        /\ \A i \in DOMAIN waiting' : FramesOK(waiting'[i].frames)
    BY <1>5, QueueTail DEF TakeEvent, RoutingTyped, RoutingTypeOK, Framed
  <2>2. event' \in RoutedEvent /\ event'.session # "none"
        /\ event'.frames = h.frames
    BY <1>5, <2>1, SettledEvent DEF TakeEvent
  <2>3. route' = "none"
    BY <1>5 DEF TakeEvent
  <2> QED
    BY <2>1, <2>2, <2>3 DEF Framed
<1>6. CASE Invoke
  BY <1>6, StageFacts DEF Invoke, handleVars, fixedVars, queueVars,
     RoutingTyped, Framed
<1>7. CASE RunCallback
  BY <1>7, StageFacts DEF RunCallback, Veto, handleVars, queueVars,
     RoutingTyped, Framed
<1>8. CASE BeforeEventDone
  BY <1>8, StageFacts DEF BeforeEventDone, Invoked, fixedVars, RoutingTyped,
     Framed
<1>9. CASE BeforeAgentDone
  BY <1>9, StageFacts DEF BeforeAgentDone, Invoked, fixedVars, queueVars,
     RoutingTyped, Framed
<1>10. CASE Dispatch
  BY <1>10, StageFacts DEF Dispatch, fixedVars, queueVars, invokeVars,
     RoutingTyped, Framed
<1>11. CASE BeforeRunDone
  BY <1>11, StageFacts DEF BeforeRunDone, Invoked, fixedVars, queueVars,
     RoutingTyped, Framed
<1>12. ASSUME NEW r \in Routes, AgentSucceeds(r)
      PROVE  Framed'
  BY <1>12 DEF AgentSucceeds, Ran, RoutingTyped, Framed
<1>13. ASSUME NEW c \in Codes, AgentFails(c)
      PROVE  Framed'
  BY <1>13, StageFacts DEF AgentFails, Ran, fixedVars, invokeVars, queueVars,
     RoutingTyped, Framed
<1>14. CASE HandlerRetries
  <2>1. \A i \in DOMAIN waiting' : FramesOK(waiting'[i].frames)
    BY <1>14, RetryEmits, Emitted DEF HandlerRetries, Ran
  <2> QED
    BY <1>14, <2>1 DEF HandlerRetries, Ran, RoutingTyped, Framed
<1>15. CASE AfterRunDone
  BY <1>15, StageFacts DEF AfterRunDone, Invoked, fixedVars, queueVars,
     RoutingTyped, Framed
<1>16. CASE AgentErrorDone
  BY <1>16, StageFacts DEF AgentErrorDone, Invoked, fixedVars, queueVars,
     RoutingTyped, Framed
<1>17. CASE ProcessAgentResult
  <2>1. \A i \in DOMAIN waiting' : FramesOK(waiting'[i].frames)
    BY <1>17, ProcessFollows, Emitted
       DEF ProcessAgentResult, RoutingTyped, Framed
  <2> QED
    BY <1>17, <2>1 DEF ProcessAgentResult, RoutingTyped, Framed
<1>18. CASE AfterEventDone
  BY <1>18, StageFacts DEF AfterEventDone, Invoked, fixedVars, queueVars,
     RoutingTyped, Framed
<1>19. CASE UNCHANGED routingVars
  BY <1>19, StageFacts DEF routingVars, invokeVars, handleVars, queueVars,
     fixedVars, RoutingTyped, Framed
<1> QED
  BY <1>1, <1>2, <1>3, <1>4, <1>5, <1>6, <1>7, <1>8, <1>9, <1>10, <1>11, <1>12,
     <1>13, <1>14, <1>15, <1>16, <1>17, <1>18, <1>19 DEF RoutingNext, Loop, Run

(* Every step keeps what is known of the error.                            *)
LEMMA SettlingStep ==
  ASSUME RoutingTyped, [RoutingNext]_routingVars
  PROVE  Settling'
<1>1. ASSUME NEW a \in Names, RegisterAgent(a)
      PROVE  Settling'
  BY <1>1, StageFacts, RoutingFacts DEF RegisterAgent, Change, queueVars,
     handleVars, invokeVars, RoutingTyped, RoutingTypeOK, Settling
<1>2. ASSUME NEW r \in Registrations, Register(r)
      PROVE  Settling'
  BY <1>2, StageFacts, RoutingFacts DEF Register, MayWrite, Change, queueVars,
     handleVars, invokeVars, RoutingTyped, RoutingTypeOK, Settling
<1>3. ASSUME NEW r \in Registrations, Unregister(r)
      PROVE  Settling'
  BY <1>3, StageFacts, RoutingFacts DEF Unregister, MayWrite, Change,
     queueVars, handleVars, invokeVars, RoutingTyped, RoutingTypeOK, Settling
<1>4. ASSUME NEW r \in Routes, NEW s \in {"none", "given"}, EmitEvent(r, s)
      PROVE  Settling'
  BY <1>4, StageFacts, RoutingFacts DEF EmitEvent, fixedVars, handleVars,
     invokeVars, RoutingTyped, RoutingTypeOK, Settling
<1>5. CASE TakeEvent
  BY <1>5, StageFacts, RoutingFacts DEF TakeEvent, fixedVars, RoutingTyped,
     RoutingTypeOK, Settling
<1>6. CASE Invoke
  BY <1>6, StageFacts, RoutingFacts DEF Invoke, handleVars, fixedVars,
     queueVars, RoutingTyped, RoutingTypeOK, Settling
<1>7. CASE RunCallback
  BY <1>7, StageFacts, RoutingFacts DEF RunCallback, Veto, handleVars,
     queueVars, RoutingTyped, RoutingTypeOK, Settling
<1>8. CASE BeforeEventDone
  BY <1>8, StageFacts, RoutingFacts DEF BeforeEventDone, Invoked, fixedVars,
     RoutingTyped, RoutingTypeOK, Settling
<1>9. CASE BeforeAgentDone
  BY <1>9, StageFacts, RoutingFacts DEF BeforeAgentDone, Invoked, fixedVars,
     queueVars, RoutingTyped, RoutingTypeOK, Settling
<1>10. CASE Dispatch
  BY <1>10, Dispatched DEF Settling
<1>11. CASE BeforeRunDone
  BY <1>11, StageFacts, RoutingFacts DEF BeforeRunDone, Invoked, fixedVars,
     queueVars, RoutingTyped, RoutingTypeOK, Settling
<1>12. ASSUME NEW r \in Routes, AgentSucceeds(r)
      PROVE  Settling'
  BY <1>12, StageFacts, RoutingFacts DEF AgentSucceeds, Ran, Seen, fixedVars,
     invokeVars, RoutingTyped, RoutingTypeOK, Settling
<1>13. ASSUME NEW c \in Codes, AgentFails(c)
      PROVE  Settling'
  BY <1>13, StageFacts, RoutingFacts DEF AgentFails, Ran, fixedVars,
     invokeVars, queueVars, RoutingTyped, RoutingTypeOK, Settling
<1>14. CASE HandlerRetries
  BY <1>14, StageFacts, RoutingFacts DEF HandlerRetries, Ran, Seen, Emit,
     fixedVars, invokeVars, RoutingTyped, RoutingTypeOK, Settling
<1>15. CASE AfterRunDone
  BY <1>15, StageFacts, RoutingFacts DEF AfterRunDone, Invoked, fixedVars,
     queueVars, RoutingTyped, RoutingTypeOK, Settling
<1>16. CASE AgentErrorDone
  BY <1>16, StageFacts, RoutingFacts DEF AgentErrorDone, Invoked, fixedVars,
     queueVars, RoutingTyped, RoutingTypeOK, Settling
<1>17. CASE ProcessAgentResult
  BY <1>17, StageFacts, RoutingFacts DEF ProcessAgentResult, fixedVars,
     invokeVars, RoutingTyped, RoutingTypeOK, Settling
<1>18. CASE AfterEventDone
  BY <1>18, StageFacts, RoutingFacts DEF AfterEventDone, Invoked, fixedVars,
     queueVars, RoutingTyped, RoutingTypeOK, Settling
<1>19. CASE UNCHANGED routingVars
  BY <1>19, StageFacts, RoutingFacts DEF routingVars, invokeVars, handleVars,
     queueVars, fixedVars, RoutingTyped, RoutingTypeOK, Settling
<1> QED
  BY <1>1, <1>2, <1>3, <1>4, <1>5, <1>6, <1>7, <1>8, <1>9, <1>10, <1>11, <1>12,
     <1>13, <1>14, <1>15, <1>16, <1>17, <1>18, <1>19 DEF RoutingNext, Loop, Run

LEMMA TypedStays ==
  ASSUME RoutingTyped, [RoutingNext]_routingVars
  PROVE  RoutingTyped'
BY TypeOKStep, CallingStep, FramedStep, SettlingStep DEF RoutingTyped

(* A follow-up takes the place of the event in hand.                       *)
LEMMA OneFollows ==
  ASSUME RoutingTyped, OneThread, Owes, NEW e, Follows(e), Emit(e),
         UNCHANGED <<emitted, event>>, ~Owes'
  PROVE  OneThread'
<1>1. /\ stage # "idle" /\ e \in RoutedEvent /\ e.n = event.n
      /\ waiting \in Seq(RoutedEvent) /\ emitted \in Nat
  BY DEF Owes, Follows, RoutingTyped, RoutingTypeOK
<1>2. CASE waiting' = Append(waiting, e)
  BY <1>1, <1>2, QueueAppend DEF OneThread
<1>3. CASE waiting' = waiting
  BY <1>1, <1>3, LenProperties DEF OneThread
<1> QED
  BY <1>2, <1>3 DEF Emit

(* No step makes a second event of a caller's one.                         *)
LEMMA OneThreadStep ==
  ASSUME RoutingTyped, OneThread, [RoutingNext]_routingVars
  PROVE  OneThread'
<1>1. ASSUME NEW a \in Names, RegisterAgent(a)
      PROVE  OneThread'
  BY <1>1, StageFacts DEF RegisterAgent, Change, queueVars, handleVars,
     invokeVars, RoutingTyped, RoutingTypeOK, OneThread, Owes
<1>2. ASSUME NEW r \in Registrations, Register(r)
      PROVE  OneThread'
  BY <1>2, StageFacts DEF Register, MayWrite, Change, queueVars, handleVars,
     invokeVars, RoutingTyped, RoutingTypeOK, OneThread, Owes
<1>3. ASSUME NEW r \in Registrations, Unregister(r)
      PROVE  OneThread'
  BY <1>3, StageFacts DEF Unregister, MayWrite, Change, queueVars, handleVars,
     invokeVars, RoutingTyped, RoutingTypeOK, OneThread, Owes
<1>4. ASSUME NEW r \in Routes, NEW s \in {"none", "given"}, EmitEvent(r, s)
      PROVE  OneThread'
  <2>1. PICK e \in RoutedEvent :
          waiting' = Append(waiting, e) /\ e.n = emitted + 1
    BY <1>4, CallersEvent
  <2>2. emitted \in Nat /\ waiting \in Seq(RoutedEvent)
    BY DEF RoutingTyped, RoutingTypeOK
  <2>3. emitted' = emitted + 1 /\ stage' = stage /\ event' = event
        /\ Owes' = Owes
    BY <1>4 DEF EmitEvent, handleVars, Owes
  <2>4. stage # "idle" => event.n \in Nat
    BY InHand
  <2>5. \A i \in DOMAIN waiting : waiting[i].n \in Nat
    <3>1. \A i \in DOMAIN waiting : waiting[i] \in RoutedEvent
      BY <2>2
    <3> QED
      BY <3>1, RoutingFacts DEF RoutedEvent
  <2>6. /\ \A i \in DOMAIN waiting' : waiting'[i].n <= emitted'
        /\ \A i, j \in DOMAIN waiting' :
             waiting'[i].n = waiting'[j].n => i = j
    BY <2>1, <2>2, <2>3, <2>5, QueueAppend DEF OneThread
  <2>7. stage' # "idle" => event'.n <= emitted'
    BY <2>2, <2>3, <2>4 DEF OneThread
  <2>8. Owes' => \A i \in DOMAIN waiting' : waiting'[i].n # event'.n
    BY <2>1, <2>2, <2>3, <2>4, QueueAppend DEF OneThread, Owes
  <2>9. Len(waiting') + (IF Owes' THEN 1 ELSE 0) <= emitted'
    BY <2>1, <2>2, <2>3, QueueAppend DEF OneThread
  <2> QED
    BY <2>6, <2>7, <2>8, <2>9 DEF OneThread
<1>5. CASE TakeEvent
  <2>1. /\ stage = "idle" /\ waiting' = Tail(waiting) /\ waiting # <<>>
        /\ event' = Settled(Head(waiting)) /\ emitted' = emitted
    BY <1>5 DEF TakeEvent
  <2>2. waiting \in Seq(RoutedEvent) /\ emitted \in Nat /\ ~Owes
    BY <2>1 DEF RoutingTyped, RoutingTypeOK, Owes
  <2>3. event'.n = waiting[1].n
    BY <2>1, <2>2, QueueTail, SettledEvent
  <2> QED
    BY <2>1, <2>2, <2>3, QueueTail DEF OneThread
<1>6. CASE Invoke
  BY <1>6, StageFacts DEF Invoke, handleVars, fixedVars, queueVars,
     RoutingTyped, RoutingTypeOK, OneThread, Owes
<1>7. CASE RunCallback
  BY <1>7, StageFacts DEF RunCallback, Veto, handleVars, queueVars,
     RoutingTyped, RoutingTypeOK, OneThread, Owes
<1>8. CASE BeforeEventDone
  BY <1>8, StageFacts DEF BeforeEventDone, Invoked, fixedVars, RoutingTyped,
     RoutingTypeOK, OneThread, Owes
<1>9. CASE BeforeAgentDone
  BY <1>9, StageFacts DEF BeforeAgentDone, Invoked, fixedVars, queueVars,
     RoutingTyped, RoutingTypeOK, OneThread, Owes
<1>10. CASE Dispatch
  BY <1>10, Dispatched
     DEF Dispatch, queueVars, OneThread, Owes
<1>11. CASE BeforeRunDone
  BY <1>11, StageFacts DEF BeforeRunDone, Invoked, fixedVars, queueVars,
     RoutingTyped, RoutingTypeOK, OneThread, Owes
<1>12. ASSUME NEW r \in Routes, AgentSucceeds(r)
      PROVE  OneThread'
  BY <1>12, StageFacts DEF AgentSucceeds, Ran, Seen, fixedVars, invokeVars,
     RoutingTyped, RoutingTypeOK, OneThread, Owes
<1>13. ASSUME NEW c \in Codes, AgentFails(c)
      PROVE  OneThread'
  BY <1>13, StageFacts DEF AgentFails, Ran, fixedVars, invokeVars, queueVars,
     RoutingTyped, RoutingTypeOK, OneThread, Owes
<1>14. CASE HandlerRetries
  <2>1. /\ stage = "run" /\ stage' = "afterRun"
        /\ UNCHANGED <<error, route, emitted, event>>
    BY <1>14 DEF HandlerRetries, Ran
  <2>2. Owes /\ ~Owes'
    BY <2>1 DEF Owes, RoutingTyped, RoutingTypeOK
  <2> QED
    BY <1>14, <2>1, <2>2, RetryEmits, OneFollows
<1>15. CASE AfterRunDone
  BY <1>15, StageFacts DEF AfterRunDone, Invoked, fixedVars, queueVars,
     RoutingTyped, RoutingTypeOK, OneThread, Owes
<1>16. CASE AgentErrorDone
  BY <1>16, StageFacts DEF AgentErrorDone, Invoked, fixedVars, queueVars,
     RoutingTyped, RoutingTypeOK, OneThread, Owes
<1>17. CASE ProcessAgentResult
  <2>1. /\ stage = "result" /\ stage' = "afterEvent"
        /\ UNCHANGED <<emitted, event>>
    BY <1>17 DEF ProcessAgentResult
  <2>2. ~Owes'
    BY <2>1 DEF Owes
  <2>3. CASE UNCHANGED waiting /\ ~Owes
    BY <2>1, <2>2, <2>3 DEF OneThread
  <2> QED
    BY <1>17, <2>1, <2>2, <2>3, ProcessFollows, OneFollows
<1>18. CASE AfterEventDone
  BY <1>18, StageFacts DEF AfterEventDone, Invoked, fixedVars, queueVars,
     RoutingTyped, RoutingTypeOK, OneThread, Owes
<1>19. CASE UNCHANGED routingVars
  BY <1>19, StageFacts DEF routingVars, invokeVars, handleVars, queueVars,
     fixedVars, RoutingTyped, RoutingTypeOK, OneThread, Owes
<1> QED
  BY <1>1, <1>2, <1>3, <1>4, <1>5, <1>6, <1>7, <1>8, <1>9, <1>10, <1>11, <1>12,
     <1>13, <1>14, <1>15, <1>16, <1>17, <1>18, <1>19 DEF RoutingNext, Loop, Run

(* A follow-up is in the session of the event in hand.                     *)
LEMMA SessionFollows ==
  ASSUME RoutingTyped, InSession, stage # "idle", NEW e, Follows(e), Emit(e),
         UNCHANGED <<router, session, event>>
  PROVE  InSession'
<1>1. /\ e \in RoutedEvent /\ e.n = event.n
      /\ router = "internal" => e.session = event.session
      /\ waiting \in Seq(RoutedEvent) /\ event.session # "none"
  BY DEF Follows, RoutingTyped, RoutingTypeOK, Framed
<1>2. CASE waiting' = Append(waiting, e)
  BY <1>1, <1>2, QueueAppend DEF InSession
<1>3. CASE waiting' = waiting
  BY <1>1, <1>3 DEF InSession
<1> QED
  BY <1>2, <1>3 DEF Emit

(* Every step keeps the sessions.                                          *)
LEMMA InSessionStep ==
  ASSUME RoutingTyped, OneThread, InSession, [RoutingNext]_routingVars
  PROVE  InSession'
<1>1. ASSUME NEW a \in Names, RegisterAgent(a)
      PROVE  InSession'
  BY <1>1, StageFacts DEF RegisterAgent, Change, queueVars, handleVars,
     invokeVars, InSession
<1>2. ASSUME NEW r \in Registrations, Register(r)
      PROVE  InSession'
  BY <1>2, StageFacts DEF Register, MayWrite, Change, queueVars, handleVars,
     invokeVars, InSession
<1>3. ASSUME NEW r \in Registrations, Unregister(r)
      PROVE  InSession'
  BY <1>3, StageFacts DEF Unregister, MayWrite, Change, queueVars, handleVars,
     invokeVars, InSession
<1>4. ASSUME NEW r \in Routes, NEW s \in {"none", "given"}, EmitEvent(r, s)
      PROVE  InSession'
  <2>1. PICK e \in RoutedEvent :
          waiting' = Append(waiting, e) /\ e.from = "caller"
    BY <1>4, CallersEvent
  <2>2. waiting \in Seq(RoutedEvent)
        /\ UNCHANGED <<stage, event, session, router>>
    BY <1>4 DEF EmitEvent, handleVars, fixedVars, RoutingTyped, RoutingTypeOK
  <2> QED
    BY <2>1, <2>2, QueueAppend DEF InSession
<1>5. CASE TakeEvent
  <2> DEFINE h == Head(waiting)
  <2>1. /\ stage = "idle" /\ waiting' = Tail(waiting) /\ waiting # <<>>
        /\ event' = Settled(h) /\ router' = router
        /\ session' = IF event'.from = "caller"
                      THEN [session EXCEPT ![event'.n] = event'.session]
                      ELSE session
    BY <1>5 DEF TakeEvent, fixedVars
  <2>2. waiting \in Seq(RoutedEvent) /\ session \in [1..MaxEmits -> Sessions]
    BY DEF RoutingTyped, RoutingTypeOK
  <2>3. /\ h = waiting[1] /\ h \in RoutedEvent /\ 1 \in DOMAIN waiting
        /\ event'.n = h.n /\ event'.from = h.from /\ h.n \in 1..MaxEmits
        /\ h.session # "none" => event' = h
    BY <2>1, <2>2, QueueTail, SettledEvent DEF RoutedEvent
  <2>4. \A i \in DOMAIN waiting' :
          i + 1 \in DOMAIN waiting /\ waiting'[i] = waiting[i + 1]
          /\ waiting'[i].n # h.n
    BY <2>1, <2>2, <2>3, QueueTail DEF OneThread
  <2>5. ASSUME NEW i \in DOMAIN waiting' PROVE
          session'[waiting'[i].n] = session[waiting'[i].n]
    BY <2>1, <2>2, <2>3, <2>4, <2>5
  <2>6. router = "internal" => event'.session = session'[event'.n]
    <3>1. CASE h.from = "caller"
      BY <2>1, <2>2, <2>3, <3>1
    <3>2. CASE h.from # "caller"
      <4>1. h.from = "loop"
        BY <2>3, <3>2 DEF RoutedEvent
      <4> QED
        BY <2>1, <2>3, <4>1 DEF InSession
    <3> QED
      BY <3>1, <3>2
  <2> QED
    BY <2>1, <2>4, <2>5, <2>6 DEF InSession
<1>6. CASE Invoke
  BY <1>6, StageFacts DEF Invoke, handleVars, fixedVars, queueVars, InSession
<1>7. CASE RunCallback
  BY <1>7, StageFacts DEF RunCallback, Veto, handleVars, queueVars, InSession
<1>8. CASE BeforeEventDone
  BY <1>8, StageFacts DEF BeforeEventDone, Invoked, fixedVars, InSession
<1>9. CASE BeforeAgentDone
  BY <1>9, StageFacts DEF BeforeAgentDone, Invoked, fixedVars, queueVars,
     InSession
<1>10. CASE Dispatch
  BY <1>10, StageFacts DEF Dispatch, fixedVars, queueVars, invokeVars,
     InSession
<1>11. CASE BeforeRunDone
  BY <1>11, StageFacts DEF BeforeRunDone, Invoked, fixedVars, queueVars,
     InSession
<1>12. ASSUME NEW r \in Routes, AgentSucceeds(r)
      PROVE  InSession'
  BY <1>12, StageFacts DEF AgentSucceeds, Ran, Seen, fixedVars, invokeVars,
     InSession
<1>13. ASSUME NEW c \in Codes, AgentFails(c)
      PROVE  InSession'
  BY <1>13, StageFacts DEF AgentFails, Ran, fixedVars, invokeVars, queueVars,
     InSession
<1>14. CASE HandlerRetries
  <2>1. stage = "run" /\ UNCHANGED <<router, session, event>>
    BY <1>14 DEF HandlerRetries, Ran, fixedVars
  <2> QED
    BY <1>14, <2>1, RetryEmits, SessionFollows
<1>15. CASE AfterRunDone
  BY <1>15, StageFacts DEF AfterRunDone, Invoked, fixedVars, queueVars,
     InSession
<1>16. CASE AgentErrorDone
  BY <1>16, StageFacts DEF AgentErrorDone, Invoked, fixedVars, queueVars,
     InSession
<1>17. CASE ProcessAgentResult
  <2>1. /\ stage = "result" /\ stage' = "afterEvent"
        /\ UNCHANGED <<router, session, event>>
    BY <1>17 DEF ProcessAgentResult, fixedVars
  <2>2. CASE UNCHANGED waiting
    BY <2>1, <2>2 DEF InSession
  <2> QED
    BY <1>17, <2>1, <2>2, ProcessFollows, SessionFollows
<1>18. CASE AfterEventDone
  BY <1>18, StageFacts DEF AfterEventDone, Invoked, fixedVars, queueVars,
     InSession
<1>19. CASE UNCHANGED routingVars
  BY <1>19, StageFacts DEF routingVars, invokeVars, handleVars, queueVars,
     fixedVars, InSession
<1> QED
  BY <1>1, <1>2, <1>3, <1>4, <1>5, <1>6, <1>7, <1>8, <1>9, <1>10, <1>11, <1>12,
     <1>13, <1>14, <1>15, <1>16, <1>17, <1>18, <1>19 DEF RoutingNext, Loop, Run

(* A follow-up is counted right when the event in hand is.                 *)
LEMMA CountFollows ==
  ASSUME RoutingTyped, Counted, MaxRetries <= 3,
         stage # "idle", stage' # "idle",
         NEW e, Follows(e), Emit(e), UNCHANGED event
  PROVE  Counted'
<1>1. /\ e \in RoutedEvent /\ CountsOK(e.frames) /\ CountsOK(event.frames)
      /\ waiting \in Seq(RoutedEvent)
  BY DEF Follows, Counted, RoutingTyped, RoutingTypeOK
<1>2. CASE waiting' = Append(waiting, e)
  BY <1>1, <1>2, QueueAppend DEF Counted
<1>3. CASE waiting' = waiting
  BY <1>1, <1>3 DEF Counted
<1> QED
  BY <1>2, <1>3 DEF Emit

(* Every step keeps the counts, when the maximum is at most what           *)
(* getRetryCount understands.                                              *)
LEMMA CountedStep ==
  ASSUME RoutingTyped, Counted, MaxRetries <= 3, [RoutingNext]_routingVars
  PROVE  Counted'
<1>1. ASSUME NEW a \in Names, RegisterAgent(a)
      PROVE  Counted'
  BY <1>1, StageFacts DEF RegisterAgent, Change, queueVars, handleVars,
     invokeVars, Counted
<1>2. ASSUME NEW r \in Registrations, Register(r)
      PROVE  Counted'
  BY <1>2, StageFacts DEF Register, MayWrite, Change, queueVars, handleVars,
     invokeVars, Counted
<1>3. ASSUME NEW r \in Registrations, Unregister(r)
      PROVE  Counted'
  BY <1>3, StageFacts DEF Unregister, MayWrite, Change, queueVars, handleVars,
     invokeVars, Counted
<1>4. ASSUME NEW r \in Routes, NEW s \in {"none", "given"}, EmitEvent(r, s)
      PROVE  Counted'
  <2>1. PICK e \in RoutedEvent :
          waiting' = Append(waiting, e) /\ CountsOK(e.frames)
    BY <1>4, CallersEvent
  <2>2. waiting \in Seq(RoutedEvent) /\ UNCHANGED <<stage, event>>
    BY <1>4 DEF EmitEvent, handleVars, RoutingTyped, RoutingTypeOK
  <2> QED
    BY <2>1, <2>2, QueueAppend DEF Counted
<1>5. CASE TakeEvent
  <2>1. waiting \in Seq(RoutedEvent) /\ waiting # <<>>
        /\ waiting' = Tail(waiting) /\ event' = Settled(Head(waiting))
    BY <1>5 DEF TakeEvent, RoutingTyped, RoutingTypeOK
  <2>2. event'.frames = waiting[1].frames /\ 1 \in DOMAIN waiting
    BY <2>1, QueueTail, SettledEvent
  <2>3. \A i \in DOMAIN waiting' : CountsOK(waiting'[i].frames)
    BY <2>1, QueueTail DEF Counted
  <2> QED
    BY <2>2, <2>3 DEF Counted
<1>6. CASE Invoke
  BY <1>6, StageFacts DEF Invoke, handleVars, fixedVars, queueVars, Counted
<1>7. CASE RunCallback
  BY <1>7, StageFacts DEF RunCallback, Veto, handleVars, queueVars, Counted
<1>8. CASE BeforeEventDone
  BY <1>8, StageFacts DEF BeforeEventDone, Invoked, fixedVars, Counted
<1>9. CASE BeforeAgentDone
  BY <1>9, StageFacts DEF BeforeAgentDone, Invoked, fixedVars, queueVars,
     Counted
<1>10. CASE Dispatch
  BY <1>10, StageFacts DEF Dispatch, fixedVars, queueVars, invokeVars, Counted
<1>11. CASE BeforeRunDone
  BY <1>11, StageFacts DEF BeforeRunDone, Invoked, fixedVars, queueVars,
     Counted
<1>12. ASSUME NEW r \in Routes, AgentSucceeds(r)
      PROVE  Counted'
  BY <1>12, StageFacts DEF AgentSucceeds, Ran, Seen, fixedVars, invokeVars,
     Counted
<1>13. ASSUME NEW c \in Codes, AgentFails(c)
      PROVE  Counted'
  BY <1>13, StageFacts DEF AgentFails, Ran, fixedVars, invokeVars, queueVars,
     Counted
<1>14. CASE HandlerRetries
  <2>1. stage = "run" /\ stage' = "afterRun" /\ UNCHANGED event
    BY <1>14 DEF HandlerRetries, Ran
  <2> QED
    BY <1>14, <2>1, RetryEmits, CountFollows
<1>15. CASE AfterRunDone
  BY <1>15, StageFacts DEF AfterRunDone, Invoked, fixedVars, queueVars, Counted
<1>16. CASE AgentErrorDone
  BY <1>16, StageFacts DEF AgentErrorDone, Invoked, fixedVars, queueVars,
     Counted
<1>17. CASE ProcessAgentResult
  <2>1. stage = "result" /\ stage' = "afterEvent" /\ UNCHANGED event
    BY <1>17 DEF ProcessAgentResult
  <2>2. CASE UNCHANGED waiting
    BY <2>1, <2>2 DEF Counted
  <2> QED
    BY <1>17, <2>1, <2>2, ProcessFollows, CountFollows
<1>18. CASE AfterEventDone
  BY <1>18, StageFacts DEF AfterEventDone, Invoked, fixedVars, queueVars,
     Counted
<1>19. CASE UNCHANGED routingVars
  BY <1>19, StageFacts DEF routingVars, invokeVars, handleVars, queueVars,
     fixedVars, Counted
<1> QED
  BY <1>1, <1>2, <1>3, <1>4, <1>5, <1>6, <1>7, <1>8, <1>9, <1>10, <1>11, <1>12,
     <1>13, <1>14, <1>15, <1>16, <1>17, <1>18, <1>19 DEF RoutingNext, Loop, Run

(* The trail as it grows.                                                  *)
LEMMA TrailFacts ==
  /\ Append(<<>>, "beforeEvent") = <<"beforeEvent">>
  /\ Append(<<"beforeEvent">>, "beforeAgent") = Opened
  /\ Append(Append(Opened, "beforeRun"), "run") = HandRun
<1>1. Append(<<>>, "beforeEvent") = <<"beforeEvent">>
  OBVIOUS
<1>2. Append(<<"beforeEvent">>, "beforeAgent") = Opened
  BY DEF Opened
<1>3. Append(Append(Opened, "beforeRun"), "run") = HandRun
  BY DEF HandRun
<1> QED
  BY <1>1, <1>2, <1>3

(* Before the agent a failing callback is a veto; later it is not.         *)
LEMMA VetoFacts ==
  ASSUME RoutingTyped, RunCallback
  PROVE  /\ stage \in {"beforeEvent", "beforeAgent"} /\ vetoed = lastErr
              => vetoed' = lastErr'
         /\ stage \notin {"beforeEvent", "beforeAgent"} => vetoed' = vetoed
         /\ UNCHANGED <<stage, error, trail>>
<1>1. vetoed \in BOOLEAN /\ lastErr \in BOOLEAN
  BY DEF RoutingTyped, RoutingTypeOK
<1>2. UNCHANGED <<stage, error, trail>>
  BY DEF RunCallback, handleVars
<1>3. CASE UNCHANGED <<lastErr, vetoed, faults>>
  BY <1>2, <1>3
<1>4. CASE lastErr' = TRUE /\ Veto
  <2>1. stage \in {"beforeEvent", "beforeAgent"} => vetoed' = TRUE
    BY <1>4, Zenon DEF Veto
  <2>2. stage \notin {"beforeEvent", "beforeAgent"} => vetoed' = vetoed
    BY <1>1, <1>4, Zenon DEF Veto
  <2> QED
    BY <1>2, <1>4, <2>1, <2>2
<1> QED
  BY <1>3, <1>4 DEF RunCallback

(* Every step adds its hook to the trail, in order.                        *)
LEMMA HooksStep ==
  ASSUME RoutingTyped, HooksSoFar, [RoutingNext]_routingVars
  PROVE  HooksSoFar'
<1>1. ASSUME NEW a \in Names, RegisterAgent(a)
      PROVE  HooksSoFar'
  BY <1>1, StageFacts, TrailFacts DEF RegisterAgent, Change, queueVars,
     handleVars, invokeVars, RoutingTyped, HooksSoFar, Through
<1>2. ASSUME NEW r \in Registrations, Register(r)
      PROVE  HooksSoFar'
  BY <1>2, StageFacts, TrailFacts DEF Register, MayWrite, Change, queueVars,
     handleVars, invokeVars, RoutingTyped, HooksSoFar, Through
<1>3. ASSUME NEW r \in Registrations, Unregister(r)
      PROVE  HooksSoFar'
  BY <1>3, StageFacts, TrailFacts DEF Unregister, MayWrite, Change, queueVars,
     handleVars, invokeVars, RoutingTyped, HooksSoFar, Through
<1>4. ASSUME NEW r \in Routes, NEW s \in {"none", "given"}, EmitEvent(r, s)
      PROVE  HooksSoFar'
  BY <1>4, StageFacts, TrailFacts DEF EmitEvent, fixedVars, handleVars,
     invokeVars, RoutingTyped, HooksSoFar, Through
<1>5. CASE TakeEvent
  BY <1>5, StageFacts, TrailFacts DEF TakeEvent, fixedVars, RoutingTyped,
     HooksSoFar, Through, Calling, RoutingTypeOK
<1>6. CASE Invoke
  BY <1>6, StageFacts, TrailFacts DEF Invoke, handleVars, fixedVars, queueVars,
     RoutingTyped, HooksSoFar, Through, Calling, RoutingTypeOK
<1>7. CASE RunCallback
  BY <1>7, StageFacts, VetoFacts DEF RoutingTyped, HooksSoFar, Through
<1>8. CASE BeforeEventDone
  BY <1>8, StageFacts, TrailFacts DEF BeforeEventDone, Invoked, fixedVars,
     RoutingTyped, HooksSoFar, Through, Calling, RoutingTypeOK
<1>9. CASE BeforeAgentDone
  <2>1. /\ stage = "beforeAgent" /\ trail' = Append(trail, "beforeAgent")
        /\ vetoed' = vetoed /\ lastErr' = FALSE
    BY <1>9 DEF BeforeAgentDone, Invoked
  <2>2. trail' = Opened /\ vetoed = lastErr
    BY <2>1, TrailFacts DEF HooksSoFar
  <2>3. CASE lastErr
    <3>1. stage' = "agentError"
      BY <1>9, <2>3 DEF BeforeAgentDone
    <3> QED
      BY <2>2, <3>1 DEF HooksSoFar
  <2>4. CASE ~lastErr
    <3>1. stage' = "dispatch"
      BY <1>9, <2>4 DEF BeforeAgentDone
    <3> QED
      BY <2>1, <2>2, <2>4, <3>1 DEF HooksSoFar
  <2> QED
    BY <2>3, <2>4
<1>10. CASE Dispatch
  BY <1>10, Dispatched DEF Dispatch, invokeVars, HooksSoFar
<1>11. CASE BeforeRunDone
  BY <1>11, StageFacts, TrailFacts DEF BeforeRunDone, Invoked, fixedVars,
     queueVars, RoutingTyped, HooksSoFar, Through
<1>12. ASSUME NEW r \in Routes, AgentSucceeds(r)
      PROVE  HooksSoFar'
  BY <1>12, StageFacts, TrailFacts DEF AgentSucceeds, Ran, Seen, fixedVars,
     invokeVars, RoutingTyped, HooksSoFar, Through
<1>13. ASSUME NEW c \in Codes, AgentFails(c)
      PROVE  HooksSoFar'
  BY <1>13, StageFacts, TrailFacts DEF AgentFails, Ran, fixedVars, invokeVars,
     queueVars, RoutingTyped, HooksSoFar, Through
<1>14. CASE HandlerRetries
  BY <1>14, StageFacts, TrailFacts DEF HandlerRetries, Ran, Seen, Emit,
     fixedVars, invokeVars, RoutingTyped, HooksSoFar, Through
<1>15. CASE AfterRunDone
  BY <1>15, StageFacts, TrailFacts DEF AfterRunDone, Invoked, fixedVars,
     queueVars, RoutingTyped, HooksSoFar, Through, Settling
<1>16. CASE AgentErrorDone
  BY <1>16, StageFacts, TrailFacts DEF AgentErrorDone, Invoked, fixedVars,
     queueVars, RoutingTyped, HooksSoFar, Through, Settling
<1>17. CASE ProcessAgentResult
  BY <1>17, StageFacts, TrailFacts DEF ProcessAgentResult, fixedVars,
     invokeVars, RoutingTyped, HooksSoFar, Through
<1>18. CASE AfterEventDone
  BY <1>18, StageFacts, TrailFacts DEF AfterEventDone, Invoked, fixedVars,
     queueVars, RoutingTyped, HooksSoFar, Through
<1>19. CASE UNCHANGED routingVars
  BY <1>19, StageFacts, TrailFacts DEF routingVars, invokeVars, handleVars,
     queueVars, fixedVars, RoutingTyped, HooksSoFar, Through
<1> QED
  BY <1>1, <1>2, <1>3, <1>4, <1>5, <1>6, <1>7, <1>8, <1>9, <1>10, <1>11, <1>12,
     <1>13, <1>14, <1>15, <1>16, <1>17, <1>18, <1>19 DEF RoutingNext, Loop, Run

(* While Invoke reads, nobody takes a callback out of the registry.        *)
LEMMA TodoStep ==
  ASSUME RoutingTyped, TodoRegistered, [RoutingNext]_routingVars
  PROVE  TodoRegistered'
<1>1. ASSUME NEW a \in Names, RegisterAgent(a)
      PROVE  TodoRegistered'
  BY <1>1, StageFacts DEF RegisterAgent, Change, queueVars, handleVars,
     invokeVars, RoutingTyped, Calling, TodoRegistered
<1>2. ASSUME NEW r \in Registrations, Register(r)
      PROVE  TodoRegistered'
  BY <1>2, StageFacts DEF Register, MayWrite, Change, queueVars, handleVars,
     invokeVars, RoutingTyped, Calling, TodoRegistered
<1>3. ASSUME NEW r \in Registrations, Unregister(r)
      PROVE  TodoRegistered'
  BY <1>3, StageFacts DEF Unregister, MayWrite, Change, queueVars, handleVars,
     invokeVars, RoutingTyped, Calling, TodoRegistered
<1>4. ASSUME NEW r \in Routes, NEW s \in {"none", "given"}, EmitEvent(r, s)
      PROVE  TodoRegistered'
  BY <1>4, StageFacts DEF EmitEvent, fixedVars, handleVars, invokeVars,
     RoutingTyped, Calling, TodoRegistered
<1>5. CASE TakeEvent
  BY <1>5, StageFacts DEF TakeEvent, fixedVars, RoutingTyped, Calling,
     TodoRegistered
<1>6. CASE Invoke
  <2>1. /\ stage \in DOMAIN HookOf /\ stage' = stage
        /\ todo' = Registered(stage)
        /\ callbacks' = callbacks
    BY <1>6 DEF Invoke, handleVars, fixedVars
  <2>2. callbacks[HookOf[stage]] \in Seq(RegisteredNames)
        /\ callbacks["AllHooks"] \in Seq(RegisteredNames)
    BY <2>1, StageFacts DEF RoutingTyped, RoutingTypeOK, RegisteredNames
  <2> DEFINE a == callbacks[HookOf[stage]]
             b == callbacks["AllHooks"]
  <2>3. \A i \in DOMAIN (a \o b) :
          \/ i \in DOMAIN a /\ (a \o b)[i] = a[i]
          \/ i - Len(a) \in DOMAIN b /\ (a \o b)[i] = b[i - Len(a)]
    <3> HIDE DEF a, b
    <3>1. a \in Seq(RegisteredNames) /\ b \in Seq(RegisteredNames)
      BY <2>2 DEF a, b
    <3> QED
      BY <3>1
  <2>4. \A i \in DOMAIN (a \o b) :
          Contains(a, (a \o b)[i]) \/ Contains(b, (a \o b)[i])
    <3> HIDE DEF a, b
    <3> QED
      BY <2>3 DEF Contains
  <2> QED
    BY <2>1, <2>4 DEF TodoRegistered, Registered
<1>7. CASE RunCallback
  <2>1. /\ reading /\ todo' = Tail(todo) /\ todo # <<>>
        /\ UNCHANGED <<callbacks, stage>>
    BY <1>7 DEF RunCallback, handleVars
  <2>2. todo \in Seq(RegisteredNames)
    BY DEF RoutingTyped, Calling
  <2>3. \A i \in DOMAIN todo' : i + 1 \in DOMAIN todo /\ todo'[i] = todo[i + 1]
    BY <2>1, <2>2
  <2> QED
    BY <2>1, <2>3 DEF TodoRegistered
<1>8. CASE BeforeEventDone
  BY <1>8, StageFacts DEF BeforeEventDone, Invoked, fixedVars, RoutingTyped,
     Calling, TodoRegistered
<1>9. CASE BeforeAgentDone
  BY <1>9, StageFacts DEF BeforeAgentDone, Invoked, fixedVars, queueVars,
     RoutingTyped, Calling, TodoRegistered
<1>10. CASE Dispatch
  BY <1>10, StageFacts DEF Dispatch, fixedVars, queueVars, invokeVars,
     RoutingTyped, Calling, TodoRegistered
<1>11. CASE BeforeRunDone
  BY <1>11, StageFacts DEF BeforeRunDone, Invoked, fixedVars, queueVars,
     RoutingTyped, Calling, TodoRegistered
<1>12. ASSUME NEW r \in Routes, AgentSucceeds(r)
      PROVE  TodoRegistered'
  BY <1>12, StageFacts DEF AgentSucceeds, Ran, Seen, fixedVars, invokeVars,
     RoutingTyped, Calling, TodoRegistered
<1>13. ASSUME NEW c \in Codes, AgentFails(c)
      PROVE  TodoRegistered'
  BY <1>13, StageFacts DEF AgentFails, Ran, fixedVars, invokeVars, queueVars,
     RoutingTyped, Calling, TodoRegistered
<1>14. CASE HandlerRetries
  BY <1>14, StageFacts DEF HandlerRetries, Ran, Seen, Emit, fixedVars,
     invokeVars, RoutingTyped, Calling, TodoRegistered
<1>15. CASE AfterRunDone
  BY <1>15, StageFacts DEF AfterRunDone, Invoked, fixedVars, queueVars,
     RoutingTyped, Calling, TodoRegistered
<1>16. CASE AgentErrorDone
  BY <1>16, StageFacts DEF AgentErrorDone, Invoked, fixedVars, queueVars,
     RoutingTyped, Calling, TodoRegistered
<1>17. CASE ProcessAgentResult
  BY <1>17, StageFacts DEF ProcessAgentResult, fixedVars, invokeVars,
     RoutingTyped, Calling, TodoRegistered
<1>18. CASE AfterEventDone
  BY <1>18, StageFacts DEF AfterEventDone, Invoked, fixedVars, queueVars,
     RoutingTyped, Calling, TodoRegistered
<1>19. CASE UNCHANGED routingVars
  BY <1>19, StageFacts DEF routingVars, invokeVars, handleVars, queueVars,
     fixedVars, RoutingTyped, Calling, TodoRegistered
<1> QED
  BY <1>1, <1>2, <1>3, <1>4, <1>5, <1>6, <1>7, <1>8, <1>9, <1>10, <1>11, <1>12,
     <1>13, <1>14, <1>15, <1>16, <1>17, <1>18, <1>19 DEF RoutingNext, Loop, Run

(* The callbacks registered at the start, as a list.                       *)
LEMMA InitialCallbacks ==
  ASSUME NEW some \in {{}, Registrations}, NEW h \in Hooks
  PROVE  SetToSeq({r.name : r \in {q \in some : q.hook = h}})
           \in Seq(RegisteredNames)
<1> DEFINE R == {q \in some : q.hook = h}
           S == {r.name : r \in R}
<1>1. IsFiniteSet(some)
  BY FS_EmptySet, EventRoutingAssumption
<1>2. IsFiniteSet(R)
  BY <1>1, FS_Subset
<1>3. S \subseteq RegisteredNames
  BY DEF RegisteredNames
<1>4. IsFiniteSet(S)
  <2> DEFINE f == [r \in R |-> r.name]
  <2>1. f \in Surjection(R, S)
    BY DEF Surjection
  <2> QED
    BY <1>2, <2>1, FS_Surjection
<1>5. \E g \in [1..Cardinality(S) -> S] : IsInjective(g)
  <2>1. PICK g : g \in Bijection(1..Cardinality(S), S)
    BY <1>4, FS_CardinalityType DEF ExistsBijection
  <2> QED
    BY <2>1 DEF Bijection, Injection, IsInjective
<1>6. SetToSeq(S) \in [1..Cardinality(S) -> S]
  BY <1>5 DEF SetToSeq
<1>7. Cardinality(S) \in Nat
  BY <1>4, FS_CardinalityType
<1> HIDE DEF S
<1> DEFINE f == SetToSeq(S)
<1> HIDE DEF f
<1>8. f \in [1..Cardinality(S) -> RegisteredNames]
  BY <1>3, <1>6 DEF f
<1>9. f \in Seq(RegisteredNames)
  BY <1>7, <1>8
<1> QED
  BY <1>9 DEF f, S

(* RInv holds at the start, is kept by every step, and so always holds.    *)
LEMMA RInvInit == RoutingInit => RInv /\ Counted
<1> SUFFICES ASSUME RoutingInit PROVE RInv /\ Counted
  OBVIOUS
<1>1. /\ waiting = <<>> /\ emitted = 0 /\ stage = "idle" /\ ~reading
      /\ todo = <<>> /\ ~lastErr /\ trail = <<>> /\ DOMAIN waiting = {}
  BY DEF RoutingInit
<1>2. callbacks \in [Hooks -> Seq(RegisteredNames)]
  <2>1. PICK some \in {{}, Registrations} :
          callbacks = [h \in Hooks |->
                         SetToSeq({r.name : r \in {q \in some : q.hook = h}})]
    BY DEF RoutingInit
  <2> QED
    BY <2>1, InitialCallbacks
<1>3. RoutingTypeOK
  <2>1. /\ waiting \in Seq(RoutedEvent) /\ emitted \in 0..MaxEmits
        /\ faults \in 0..MaxFaults /\ changes \in 0..MaxChanges
    BY RoutingFacts DEF RoutingInit
  <2>2. session \in [1..MaxEmits -> Sessions]
    BY DEF RoutingInit, Sessions
  <2>3. /\ router \in {"basic", "internal"} /\ handlers \subseteq Names
        /\ stage \in Stages /\ event \in {NoRoutedEvent}
        /\ reading \in BOOLEAN /\ lastErr \in BOOLEAN /\ vetoed \in BOOLEAN
        /\ error = "none" /\ route = "none" /\ route \in Routes
        /\ unanswered \subseteq 1..MaxEmits /\ lost \subseteq 1..MaxEmits
    BY StageFacts, RoutingFacts, EventRoutingAssumption DEF RoutingInit
  <2> QED
    BY <1>2, <2>1, <2>2, <2>3 DEF RoutingTypeOK, RegisteredNames
<1>4. Calling /\ Framed /\ Settling
  BY <1>1 DEF Calling, Framed, Settling
<1>5. OneThread /\ InSession /\ Counted
  BY <1>1 DEF OneThread, InSession, Counted, Owes
<1>6. HooksSoFar /\ TodoRegistered
  BY <1>1 DEF HooksSoFar, TodoRegistered
<1> QED
  BY <1>3, <1>4, <1>5, <1>6 DEF RInv, RoutingTyped

LEMMA RInvStep == RInv /\ [RoutingNext]_routingVars => RInv'
BY TypedStays, OneThreadStep, InSessionStep, HooksStep, TodoStep DEF RInv

LEMMA AlwaysRInv == RoutingSpec => []RInv
BY RInvInit, RInvStep, PTL DEF RoutingSpec

(* With a maximum of three or less the counts are always right as well.    *)
LEMMA AlwaysCounted ==
  ASSUME MaxRetries <= 3
  PROVE  RoutingSpec => [](RInv /\ Counted)
<1>1. RoutingInit => RInv /\ Counted
  BY RInvInit
<1>2. RInv /\ Counted /\ [RoutingNext]_routingVars => (RInv /\ Counted)'
  BY RInvStep, CountedStep DEF RInv
<1> QED
  BY <1>1, <1>2, PTL DEF RoutingSpec

(* What RInv says of the events and their follow-ups.                      *)
LEMMA RInvMeans == RInv => RoutingTypeOK /\ SessionKept /\ OneFollowUp
<1> SUFFICES ASSUME RInv PROVE RoutingTypeOK /\ SessionKept /\ OneFollowUp
  OBVIOUS
<1>1. waiting \in Seq(RoutedEvent) /\ emitted \in Nat
  BY DEF RInv, RoutingTyped, RoutingTypeOK
<1>2. DOMAIN waiting = 1..Len(waiting) /\ Len(waiting) \in Nat
  BY <1>1
<1>3. SessionKept
  BY <1>2 DEF RInv, InSession, SessionKept
<1>4. OneFollowUp
  BY <1>1, <1>2 DEF RInv, OneThread, OneFollowUp
<1> QED
  BY <1>3, <1>4 DEF RInv, RoutingTyped

(* The counts bound the retries of the event on top.                       *)
LEMMA CountedMeans == RInv /\ Counted => RetriesBounded
<1> SUFFICES ASSUME RInv, Counted PROVE RetriesBounded
  OBVIOUS
<1>1. waiting \in Seq(RoutedEvent)
  BY DEF RInv, RoutingTyped, RoutingTypeOK
<1> SUFFICES ASSUME NEW i \in 1..Len(waiting)
             PROVE  Head(waiting[i].frames).tries <= MaxRetries
  BY DEF RetriesBounded
<1>2. i \in DOMAIN waiting
  BY <1>1
<1>3. FramesOK(waiting[i].frames) /\ CountsOK(waiting[i].frames)
  BY <1>2 DEF RInv, RoutingTyped, Framed, Counted
<1> QED
  BY <1>3, FramesTop DEF CountsOK

(* Short sequences by their elements.                                      *)
LEMMA Listed ==
  ASSUME NEW S, NEW q \in Seq(S)
  PROVE  /\ Len(q) = 1 => q = <<q[1]>>
         /\ Len(q) = 2 => q = <<q[1], q[2]>>
         /\ Len(q) = 3 => q = <<q[1], q[2], q[3]>>
         /\ Len(q) = 4 => q = <<q[1], q[2], q[3], q[4]>>
<1>1. CASE Len(q) = 1
  BY <1>1
<1>2. CASE Len(q) = 2
  BY <1>2
<1>3. CASE Len(q) = 3
  BY <1>3
<1>4. CASE Len(q) = 4
  BY <1>4
<1> QED
  BY <1>1, <1>2, <1>3, <1>4

(* A sequence with an element appended.                                    *)
LEMMA Appended ==
  ASSUME NEW S, NEW q \in Seq(S), NEW e \in S, NEW r, r = Append(q, e)
  PROVE  /\ r \in Seq(S) /\ Len(r) = Len(q) + 1 /\ r[Len(q) + 1] = e
         /\ \A i \in 1..Len(q) : r[i] = q[i]
OBVIOUS

(* The parts of a trail.                                                   *)
LEMMA Windows ==
  ASSUME NEW S, NEW q \in Seq(S)
  PROVE  /\ Len(q) >= 2 => SubSeq(q, 1, 2) = <<q[1], q[2]>>
         /\ Len(q) >= 3 => SubSeq(q, 3, 3) = <<q[3]>>
         /\ Len(q) >= 5 => SubSeq(q, 3, 5) = <<q[3], q[4], q[5]>>
         /\ Len(q) >= 6 => SubSeq(q, 3, 6) = <<q[3], q[4], q[5], q[6]>>
<1>1. ASSUME Len(q) >= 2 PROVE SubSeq(q, 1, 2) = <<q[1], q[2]>>
  <2> DEFINE w == SubSeq(q, 1, 2)
  <2>1. w \in Seq(S) /\ Len(w) = 2 /\ w[1] = q[1] /\ w[2] = q[2]
    BY <1>1
  <2> QED
    BY <2>1, Listed
<1>2. ASSUME Len(q) >= 3 PROVE SubSeq(q, 3, 3) = <<q[3]>>
  <2> DEFINE w == SubSeq(q, 3, 3)
  <2>1. w \in Seq(S) /\ Len(w) = 1 /\ w[1] = q[3]
    BY <1>2
  <2> QED
    BY <2>1, Listed
<1>3. ASSUME Len(q) >= 5 PROVE SubSeq(q, 3, 5) = <<q[3], q[4], q[5]>>
  <2> DEFINE w == SubSeq(q, 3, 5)
  <2>1. w \in Seq(S) /\ Len(w) = 3 /\ w[1] = q[3] /\ w[2] = q[4] /\ w[3] = q[5]
    BY <1>3
  <2> QED
    BY <2>1, Listed
<1>4. ASSUME Len(q) >= 6 PROVE SubSeq(q, 3, 6) = <<q[3], q[4], q[5], q[6]>>
  <2> DEFINE w == SubSeq(q, 3, 6)
  <2>1. w \in Seq(S) /\ Len(w) = 4 /\ w[1] = q[3] /\ w[2] = q[4]
        /\ w[3] = q[5] /\ w[4] = q[6]
    BY <1>4
  <2> QED
    BY <2>1, Listed
<1> QED
  BY <1>1, <1>2, <1>3, <1>4

(* The two beginnings of a trail by their elements.                        *)
LEMMA OpenedIs ==
  /\ Opened \in Seq(Stages) /\ Len(Opened) = 2
  /\ Opened[1] = "beforeEvent" /\ Opened[2] = "beforeAgent"
<1> DEFINE t == <<"beforeEvent">>
<1>1. "beforeEvent" \in Stages /\ "beforeAgent" \in Stages
  BY StageFacts
<1>2. t \in Seq(Stages) /\ Len(t) = 1 /\ t[1] = "beforeEvent"
  BY <1>1
<1>3. Opened = Append(t, "beforeAgent")
  BY DEF Opened
<1> HIDE DEF t
<1>4. /\ Opened \in Seq(Stages) /\ Len(Opened) = Len(t) + 1
      /\ Opened[Len(t) + 1] = "beforeAgent"
      /\ \A i \in 1..Len(t) : Opened[i] = t[i]
  BY <1>1, <1>2, <1>3, Appended
<1> QED
  BY <1>2, <1>4

LEMMA HandRunIs ==
  /\ HandRun \in Seq(Stages) /\ Len(HandRun) = 4
  /\ HandRun[1] = "beforeEvent" /\ HandRun[2] = "beforeAgent"
  /\ HandRun[3] = "beforeRun" /\ HandRun[4] = "run"
<1> DEFINE t == Append(Opened, "beforeRun")
<1>1. /\ "beforeRun" \in Stages /\ "run" \in Stages
      /\ t = Append(Opened, "beforeRun") /\ HandRun = Append(t, "run")
  BY StageFacts DEF HandRun
<1> HIDE DEF t
<1>2. /\ t \in Seq(Stages) /\ Len(t) = 3 /\ t[1] = "beforeEvent"
      /\ t[2] = "beforeAgent" /\ t[3] = "beforeRun"
  <2>1. /\ t \in Seq(Stages) /\ Len(t) = Len(Opened) + 1
        /\ t[Len(Opened) + 1] = "beforeRun"
        /\ \A i \in 1..Len(Opened) : t[i] = Opened[i]
    BY <1>1, OpenedIs, Appended
  <2> QED
    BY <2>1, OpenedIs
<1>3. /\ HandRun \in Seq(Stages) /\ Len(HandRun) = Len(t) + 1
      /\ HandRun[Len(t) + 1] = "run"
      /\ \A i \in 1..Len(t) : HandRun[i] = t[i]
  BY <1>1, <1>2, Appended
<1> QED
  BY <1>2, <1>3

(* How every complete trail begins and ends.                               *)
LEMMA Framing ==
  ASSUME NEW q \in Seq(Stages), NEW n \in {4, 6, 7}, Len(q) = n,
         q[1] = "beforeEvent", q[2] = "beforeAgent", q[n] = "afterEvent"
  PROVE  /\ SubSeq(q, 1, 2) = <<"beforeEvent", "beforeAgent">>
         /\ Last(q) = "afterEvent" /\ Len(q) - 1 = n - 1
<1>1. Last(q) = "afterEvent"
  BY DEF Last
<1>2. SubSeq(q, 1, 2) = <<q[1], q[2]>>
  BY Windows
<1> QED
  BY <1>1, <1>2

(* What RInv says of the hooks of an event that has been handled.          *)
LEMMA HooksMean == RInv => HookInv
<1> SUFFICES ASSUME RInv PROVE HookInv
  OBVIOUS
<1>1. VetoHolds
  <2>1. ~Contains(<<>>, "run") /\ ~Contains(<<"beforeEvent">>, "run")
        /\ ~Contains(Opened, "run")
        /\ ~Contains(Append(Opened, "beforeRun"), "run")
        /\ ~Contains(Append(Opened, "agentError"), "run")
        /\ ~Contains(Append(Append(Opened, "agentError"), "afterEvent"), "run")
    BY DEF Opened, Contains
  <2> QED
    BY <2>1, StageFacts
       DEF RInv, RoutingTyped, RoutingTypeOK, HooksSoFar, Through, VetoHolds
<1>2. HooksPaired
  <2> SUFFICES ASSUME stage = "idle", trail # <<>>, trail # <<"beforeEvent">>
               PROVE  LET Body == SubSeq(trail, 3, Len(trail) - 1)
                      IN /\ SubSeq(trail, 1, 2)
                              = <<"beforeEvent", "beforeAgent">>
                         /\ Last(trail) = "afterEvent"
                         /\ IF error = "none"
                            THEN Body = <<"beforeRun", "run", "afterRun">>
                            ELSE Body \in {<<"agentError">>,
                             <<"beforeRun", "run", "runError", "agentError">>}
    BY DEF HooksPaired
  <2>0. /\ "afterRun" \in Stages /\ "runError" \in Stages
        /\ "agentError" \in Stages /\ "afterEvent" \in Stages
    BY StageFacts
  <2>1. PICK t \in {Append(HandRun, "afterRun"), Append(Opened, "agentError"),
              Append(Append(HandRun, "runError"), "agentError")} :
                Through(t) /\ trail = Append(t, "afterEvent")
    BY DEF RInv, HooksSoFar
  <2>2. CASE error = "none"
    <3>1. t = Append(HandRun, "afterRun") /\ trail = Append(t, "afterEvent")
      BY <2>1, <2>2 DEF Through
    <3>2. /\ t \in Seq(Stages) /\ Len(t) = 5 /\ t[1] = "beforeEvent"
          /\ t[2] = "beforeAgent" /\ t[3] = "beforeRun" /\ t[4] = "run"
          /\ t[5] = "afterRun"
      <4>1. /\ t \in Seq(Stages) /\ Len(t) = Len(HandRun) + 1
            /\ t[Len(HandRun) + 1] = "afterRun"
            /\ \A i \in 1..Len(HandRun) : t[i] = HandRun[i]
        <5>1. HandRun \in Seq(Stages)
          BY HandRunIs
        <5> QED
          BY <2>0, <3>1, <5>1, Appended
      <4> QED
        BY HandRunIs, <4>1
    <3>3. /\ trail \in Seq(Stages) /\ Len(trail) = 6
          /\ trail[1] = "beforeEvent" /\ trail[2] = "beforeAgent"
          /\ trail[3] = "beforeRun" /\ trail[4] = "run"
          /\ trail[5] = "afterRun" /\ trail[6] = "afterEvent"
      <4>1. /\ trail \in Seq(Stages) /\ Len(trail) = Len(t) + 1
            /\ trail[Len(t) + 1] = "afterEvent"
            /\ \A i \in 1..Len(t) : trail[i] = t[i]
        BY <2>0, <3>1, <3>2, Appended
      <4> QED
        BY <3>2, <4>1
    <3>4. SubSeq(trail, 3, 5) = <<"beforeRun", "run", "afterRun">>
      <4>1. SubSeq(trail, 3, 5) = <<trail[3], trail[4], trail[5]>>
        <5>1. trail \in Seq(Stages) /\ Len(trail) >= 5
          BY <3>3
        <5> QED
          BY <5>1, Windows
      <4> QED
        BY <3>3, <4>1
    <3> QED
      BY <2>2, <3>3, <3>4, Framing
  <2>3. CASE error # "none" /\ t = Append(Opened, "agentError")
    <3>1. t = Append(Opened, "agentError") /\ trail = Append(t, "afterEvent")
      BY <2>1, <2>3
    <3>2. /\ t \in Seq(Stages) /\ Len(t) = 3 /\ t[1] = "beforeEvent"
          /\ t[2] = "beforeAgent" /\ t[3] = "agentError"
      <4>1. /\ t \in Seq(Stages) /\ Len(t) = Len(Opened) + 1
            /\ t[Len(Opened) + 1] = "agentError"
            /\ \A i \in 1..Len(Opened) : t[i] = Opened[i]
        BY <2>0, <3>1, OpenedIs, Appended
      <4> QED
        BY OpenedIs, <4>1
    <3>3. /\ trail \in Seq(Stages) /\ Len(trail) = 4
          /\ trail[1] = "beforeEvent" /\ trail[2] = "beforeAgent"
          /\ trail[3] = "agentError" /\ trail[4] = "afterEvent"
      <4>1. /\ trail \in Seq(Stages) /\ Len(trail) = Len(t) + 1
            /\ trail[Len(t) + 1] = "afterEvent"
            /\ \A i \in 1..Len(t) : trail[i] = t[i]
        BY <2>0, <3>1, <3>2, Appended
      <4> QED
        BY <3>2, <4>1
    <3>4. SubSeq(trail, 3, 3) = <<"agentError">>
      BY <3>3, Windows
    <3> QED
      BY <2>3, <3>3, <3>4, Framing
  <2>4. CASE error # "none"
             /\ t = Append(Append(HandRun, "runError"), "agentError")
    <3> DEFINE u == Append(HandRun, "runError")
    <3>1. /\ u = Append(HandRun, "runError") /\ t = Append(u, "agentError")
          /\ trail = Append(t, "afterEvent")
      BY <2>1, <2>4
    <3> HIDE DEF u
    <3>2. /\ u \in Seq(Stages) /\ Len(u) = 5 /\ u[1] = "beforeEvent"
          /\ u[2] = "beforeAgent" /\ u[3] = "beforeRun" /\ u[4] = "run"
          /\ u[5] = "runError"
      <4>1. /\ u \in Seq(Stages) /\ Len(u) = Len(HandRun) + 1
            /\ u[Len(HandRun) + 1] = "runError"
            /\ \A i \in 1..Len(HandRun) : u[i] = HandRun[i]
        <5>1. HandRun \in Seq(Stages)
          BY HandRunIs
        <5> QED
          BY <2>0, <3>1, <5>1, Appended
      <4> QED
        BY HandRunIs, <4>1
    <3>3. /\ t \in Seq(Stages) /\ Len(t) = 6 /\ t[1] = "beforeEvent"
          /\ t[2] = "beforeAgent" /\ t[3] = "beforeRun" /\ t[4] = "run"
          /\ t[5] = "runError" /\ t[6] = "agentError"
      <4>1. /\ t \in Seq(Stages) /\ Len(t) = Len(u) + 1
            /\ t[Len(u) + 1] = "agentError"
            /\ \A i \in 1..Len(u) : t[i] = u[i]
        BY <2>0, <3>1, <3>2, Appended
      <4> QED
        BY <3>2, <4>1
    <3>4. /\ trail \in Seq(Stages) /\ Len(trail) = 7
          /\ trail[1] = "beforeEvent" /\ trail[2] = "beforeAgent"
          /\ trail[3] = "beforeRun" /\ trail[4] = "run"
          /\ trail[5] = "runError" /\ trail[6] = "agentError"
          /\ trail[7] = "afterEvent"
      <4>1. /\ trail \in Seq(Stages) /\ Len(trail) = Len(t) + 1
            /\ trail[Len(t) + 1] = "afterEvent"
            /\ \A i \in 1..Len(t) : trail[i] = t[i]
        BY <2>0, <3>1, <3>3, Appended
      <4> QED
        BY <3>3, <4>1
    <3>5. SubSeq(trail, 3, 6)
            = <<"beforeRun", "run", "runError", "agentError">>
      <4>1. SubSeq(trail, 3, 6)
              = <<trail[3], trail[4], trail[5], trail[6]>>
        <5>1. trail \in Seq(Stages) /\ Len(trail) >= 6
          BY <3>4
        <5> QED
          BY <5>1, Windows
      <4> QED
        BY <3>4, <4>1
    <3> QED
      BY <2>4, <3>4, <3>5, Framing
  <2> QED
    BY <2>1, <2>2, <2>3, <2>4 DEF Through
<1> QED
  BY <1>1, <1>2 DEF HookInv

(* Only RunCallback takes a callback from the list, and it is registered.  *)
LEMMA LateStep ==
  ASSUME RInv, RoutingNext, reading, reading', todo' # todo
  PROVE  \E h \in {HookOf[stage], "AllHooks"} :
           Contains(callbacks[h], Head(todo))
<1>1. RunCallback
  <2>1. ~Invoke
    BY DEF Invoke
  <2>2. \A t : ~Invoked(t)
    BY DEF Invoked
  <2>3. todo # todo' => ~TakeEvent /\ ~Dispatch /\ ~Run /\ ~ProcessAgentResult
    BY DEF TakeEvent, Dispatch, Run, AgentSucceeds, AgentFails, HandlerRetries,
           Ran, invokeVars, ProcessAgentResult
  <2>4. /\ \A a : ~RegisterAgent(a)
        /\ \A r : ~Register(r) /\ ~Unregister(r)
        /\ \A r, t : ~EmitEvent(r, t)
    BY DEF RegisterAgent, Register, Unregister, EmitEvent, invokeVars
  <2> QED
    BY <2>1, <2>2, <2>3, <2>4
       DEF RoutingNext, Loop, BeforeEventDone, BeforeAgentDone, BeforeRunDone,
           AfterRunDone, AgentErrorDone, AfterEventDone
<1>2. todo # <<>> /\ todo \in Seq(RegisteredNames)
  BY <1>1 DEF RunCallback, RInv, RoutingTyped, Calling
<1>3. 1 \in DOMAIN todo /\ Head(todo) = todo[1]
  BY <1>2, EmptySeq
<1> QED
  BY <1>3 DEF RInv, TodoRegistered

-----------------------------------------------------------------------------
(* Whatever the maximum of retries: what the loop emits is in the session  *)
(* of the caller's event it descends from, and no event has two follow-ups *)
(* (runner.go:451), for any configuration and any number of events,        *)
(* routes, failures and registrations.                                     *)
THEOREM FollowUpsRight ==
  RoutingSpec => [](RoutingTypeOK /\ SessionKept /\ OneFollowUp)
BY AlwaysRInv, RInvMeans, PTL

(* Nor is an event retried more often than MaxRetries says. The metadata's *)
(* count is understood up to "3" only (error_routing.go:126), hence the    *)
(* assumption; 3 is the default.                                           *)
THEOREM RoutedRight ==
  ASSUME MaxRetries <= 3
  PROVE  RoutingSpec => []RoutingInv
<1>1. RInv /\ Counted => RoutingInv
  BY RInvMeans, CountedMeans DEF RoutingInv
<1> QED
  BY <1>1, AlwaysCounted, PTL

(* The hooks of an event come in their order and a veto holds, for any     *)
(* callbacks, whichever of them fail and whoever registers meanwhile.      *)
THEOREM HooksInOrder == RoutingSpec => []HookInv
BY AlwaysRInv, HooksMean, PTL

(* No callback is called once its Unregister has returned.                 *)
THEOREM CalledWhileRegistered == RoutingSpec => NoLateCallback
<1>1. RInv /\ [RoutingNext]_routingVars =>
        [reading /\ reading' /\ todo' # todo =>
           \E h \in {HookOf[stage], "AllHooks"} :
             Contains(callbacks[h], Head(todo))]_routingVars
  BY LateStep
<1> QED
  BY <1>1, AlwaysRInv, PTL DEF RoutingSpec, NoLateCallback
=============================================================================
