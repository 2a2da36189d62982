---------------------------- MODULE SubWorkflow ----------------------------
(***************************************************************************)
(* The stream of a workflow used as an agent: RunStream of                 *)
(* v1beta/subworkflow.go and the wrapper it puts around the workflow's own *)
(* stream.  A forwarder, started by Chunks(), takes the chunks of the      *)
(* inner stream, adds the sub-workflow's name to each and puts them into a *)
(* channel of its own; a span of the trace is ended once, by whichever of  *)
(* forwarder, Wait and Cancel comes first.                                 *)
(*                                                                         *)
(* The inner stream is any stream that keeps StreamContract, as Stream is  *)
(* shown to; the variables of the contract are its state.  The client is a *)
(* program, or the step of the parent workflow that runs this agent.       *)
(***************************************************************************)
EXTENDS Naturals, Sequences, FiniteSets

CONSTANTS
  Writers, Outcomes,  \* of the inner stream
  MaxChunks,          \* bound: chunks each writer makes
  OutSize,            \* capacity of the forwarder's channel
  MaxDepth            \* maxDepth

ASSUME SubWorkflowAssumption ==
  /\ IsFiniteSet(Writers) /\ Outcomes # {}
  /\ MaxChunks \in Nat /\ OutSize \in Nat \ {0} /\ MaxDepth \in Nat \ {0}

VARIABLES
  made, cut, flight, got, cancelled, outcome, told,  \* the inner stream
  depth,      \* the agent's depth field
  status,     \* of RunStream: "new", "refused", "failed" or "open"
  forwarder,  \* "none", "ranging", "closing" or "ended"
  hand,       \* the chunk the forwarder holds, if any
  out,        \* the forwarder's channel
  received,   \* history: what the client took from it
  client,     \* "new", "ranging", "left", "waiting", "told" or "gone"
  did,        \* history: whether the client left its loop, called Cancel
  chunkCount,
  span        \* "none", "open", or what was recorded at its end

innerVars  == <<made, cut, flight, got, cancelled, outcome, told>>
relayVars  == <<forwarder, hand, out, chunkCount>>
clientVars == <<client, did, received>>
vars == <<innerVars, relayVars, clientVars, depth, status, span>>

Inner == INSTANCE StreamContract

ChunkIds == Writers \X (1..MaxChunks)
Total == MaxChunks * Cardinality(Writers)
Span(s, n) == [status |-> s, chunks |-> n]
Ended == {Span(s, n) : s \in {"error", "ok"}, n \in 0..Total}

TypeOK ==
  /\ made \in [Writers -> 0..MaxChunks] /\ cut \subseteq Writers
  /\ {flight, got, hand, out, received} \subseteq Seq(ChunkIds)
  /\ outcome \subseteq Outcomes /\ told \subseteq outcome
  /\ cancelled \in BOOLEAN /\ depth \in 0..(MaxDepth + 1)
  /\ status \in {"new", "refused", "failed", "open"}
  /\ forwarder \in {"none", "ranging", "closing", "ended"}
  /\ Len(hand) <= 1 /\ Len(out) <= OutSize
  /\ client \in {"new", "ranging", "left", "waiting", "told", "gone"}
  /\ did \subseteq {"left", "cancel"}
  /\ chunkCount = Len(got)
  /\ span \in Ended \cup {Span("none", 0), Span("open", 0)}
  /\ status = "new" <=> span.status = "none"

Init ==
  /\ Inner!Init
  /\ depth \in 0..(MaxDepth + 1)
  /\ status = "new" /\ forwarder = "none" /\ client = "new" /\ did = {}
  /\ hand = <<>> /\ out = <<>> /\ received = <<>> /\ chunkCount = 0
  /\ span = Span("none", 0)
-----------------------------------------------------------------------------
(* RunStream                                                               *)

Start(s, sp) ==
  /\ status = "new" /\ status' = s
  /\ span' = Span(sp, 0)
  /\ UNCHANGED <<innerVars, relayVars, did, received, depth>>

TooDeep == depth > 0 /\ depth >= MaxDepth

Refuse == TooDeep /\ Start("refused", "error") /\ client' = "gone"

(* The wrapped workflow's RunStream fails.                                 *)
FailToStart == ~TooDeep /\ Start("failed", "error") /\ client' = "gone"

(* The client ranges over Chunks(), which starts the forwarder, or goes    *)
(* straight to Wait.                                                       *)
OpenStream ==
  /\ ~TooDeep /\ Start("open", "open")
  /\ client' \in {"left", "ranging"}

CallChunks ==
  /\ status = "open" /\ client = "ranging" /\ forwarder = "none"
  /\ forwarder' = "ranging"
  /\ UNCHANGED <<innerVars, hand, out, chunkCount, clientVars, depth, status,
                 span>>
-----------------------------------------------------------------------------
(* The inner stream; what Deliver hands over goes to the forwarder, and    *)
(* Tell is its Wait.                                                       *)
InnerStep(A) ==
  /\ status = "open" /\ A
  /\ UNCHANGED <<relayVars, clientVars, depth, status, span>>

InnerMakes ==
  \E w \in Writers :
    /\ made[w] < MaxChunks
    /\ InnerStep(\/ Inner!Produce(w)
                 \/ cancelled' = TRUE /\ Inner!Lose(w))

InnerEnds == \E o \in Outcomes : InnerStep(Inner!End(o))

(* The caller's context is done, a timeout fires: nobody calls Cancel.     *)
ContextDone == InnerStep(Inner!CancelStream)
-----------------------------------------------------------------------------
(* streamFinalizeOnce                                                      *)
Finalize ==
  span' = IF span.status = "open" THEN Span("ok", chunkCount) ELSE span

Forward == UNCHANGED <<clientVars, depth, status>>

Take ==
  /\ forwarder = "ranging" /\ hand = <<>>
  /\ Inner!Deliver
  /\ hand' = <<Head(flight)>>
  /\ chunkCount' = chunkCount + 1
  /\ Forward /\ UNCHANGED <<forwarder, out, span>>

(* Slip: a chunk that finds the channel full is dropped.                   *)
PutOrDrop ==
  /\ hand # <<>>
  /\ out' = IF Len(out) < OutSize THEN out \o hand ELSE out

(* The send has no other case: neither a done context nor Cancel ends it.  *)
PutWhenRoom ==
  /\ hand # <<>> /\ Len(out) < OutSize
  /\ out' = out \o hand

Put ==
  /\ PutWhenRoom
  /\ hand' = <<>>
  /\ Forward /\ UNCHANGED <<innerVars, forwarder, chunkCount, span>>

(* The inner channel is closed and empty.                                  *)
InnerOver == outcome # {} /\ flight = <<>>

(* Slip: the forwarder closes its channel and leaves the span to others.   *)
EndSpanLater ==
  /\ forwarder = "ranging" /\ hand = <<>>
  /\ InnerOver
  /\ forwarder' = "closing"
  /\ Forward /\ UNCHANGED <<innerVars, hand, out, chunkCount, span>>

(* The deferred calls run last first: the span is ended, then the channel  *)
(* closed.                                                                 *)
EndSpan ==
  /\ forwarder = "ranging" /\ hand = <<>>
  /\ InnerOver
  /\ Finalize
  /\ forwarder' = "closing"
  /\ Forward /\ UNCHANGED <<innerVars, hand, out, chunkCount>>

CloseOut ==
  /\ forwarder = "closing"
  /\ forwarder' = "ended"
  /\ Forward /\ UNCHANGED <<innerVars, hand, out, chunkCount, span>>
-----------------------------------------------------------------------------
(* The client                                                              *)
ClientTo(c) ==
  /\ client' = c
  /\ UNCHANGED <<received, relayVars, depth, status>>

Receive ==
  /\ client = "ranging" /\ out # <<>>
  /\ received' = Append(received, Head(out))
  /\ out' = Tail(out)
  /\ UNCHANGED <<innerVars, forwarder, hand, chunkCount, client, did, depth,
                 status, span>>

SeeEnd ==
  /\ client = "ranging" /\ forwarder = "ended" /\ out = <<>>
  /\ ClientTo("waiting")
  /\ UNCHANGED <<innerVars, did, span>>

LeaveLoop ==
  /\ client = "ranging" /\ forwarder # "none"
  /\ ClientTo("left") /\ did' = did \cup {"left"}
  /\ UNCHANGED <<innerVars, span>>

(* A client that has left its loop, or never ranged, calls Wait; or it     *)
(* just returns, as a parent's step does whose context is done.            *)
CallWait ==
  /\ client = "left"
  /\ ClientTo("waiting")
  /\ UNCHANGED <<innerVars, did, span>>

JustReturn ==
  /\ client = "left" /\ "left" \in did
  /\ ClientTo("gone")
  /\ UNCHANGED <<innerVars, did, span>>

InnerWait ==
  /\ client = "waiting"
  /\ Inner!Tell
  /\ ClientTo("told")
  /\ UNCHANGED <<did, span>>

(* Slip: Wait is the inner stream's, and nothing more.                     *)
WaitReturnsOnly ==
  /\ client = "told"
  /\ ClientTo("gone")
  /\ UNCHANGED <<innerVars, did, span>>

WaitReturns ==
  /\ client = "told"
  /\ Finalize
  /\ ClientTo("gone")
  /\ UNCHANGED <<innerVars, did>>

(* Any goroutine of the client's may call it, a deferred call too.         *)
Cancel ==
  /\ status = "open" /\ "cancel" \notin did
  /\ did' = did \cup {"cancel"}
  /\ IF cancelled THEN UNCHANGED innerVars ELSE Inner!CancelStream
  /\ Finalize
  /\ UNCHANGED <<client, received, relayVars, depth, status>>
-----------------------------------------------------------------------------
RunStream == Refuse \/ FailToStart \/ OpenStream
Relay     == Take \/ Put \/ EndSpan \/ CloseOut
Consume   == CallChunks \/ Receive \/ SeeEnd \/ CallWait \/ InnerWait
               \/ WaitReturns

Next ==
  \/ RunStream \/ InnerMakes \/ InnerEnds \/ ContextDone
  \/ Relay \/ Consume \/ LeaveLoop \/ JustReturn \/ Cancel

Spec == Init /\ [][Next]_vars

(* The inner stream ends, as Stream's does (WaitEnds there); a client that *)
(* ranges or waits goes on doing so.  Nobody has to leave or to cancel.    *)
FairSpec ==
  /\ Spec
  /\ WF_vars(RunStream) /\ WF_vars(InnerEnds)
  /\ WF_vars(Relay) /\ WF_vars(Consume)
-----------------------------------------------------------------------------
(* The wrapped stream is a stream again, so that sub-workflows nest: what  *)
(* is on its way is in the channel, in the forwarder's hand or still in    *)
(* the inner stream.                                                       *)
Wrapped == INSTANCE StreamContract WITH
  flight <- out \o hand \o flight,
  got    <- received

KeepsContract == Wrapped!Spec

(* A client that ranged to the end and called no Cancel finds a trace that *)
(* tells of exactly the chunks it received (finalizeStream); a Wait or a   *)
(* Cancel that comes sooner ends the span with a part of them.             *)
SpanExact ==
  client \in {"waiting", "told", "gone"} /\ status = "open" /\ did = {}
    /\ forwarder # "none" =>
      span = Span("ok", Len(received))

SpanInv == TypeOK /\ SpanExact

(* Every span that is begun is ended, unless the client walks away from    *)
(* the stream: with neither Wait nor Cancel it stays open as long as the   *)
(* forwarder is stuck.                                                     *)
SpanEnds == <>(span \in Ended \/ did = {"left"})

(* The forwarder ends when its client ranges to the end, cancelled or not. *)
ForwarderEnds ==
  (forwarder = "ranging") ~> (forwarder = "ended" \/ "left" \in did)

(* Neither the span nor the goroutine outlives the stream.                 *)
Finishes == SpanEnds /\ ForwarderEnds
=============================================================================
