--------------------------- MODULE CompositeProofs ---------------------------
(***************************************************************************)
(* Proofs about the agents made of others.  First SubWorkflow, for any     *)
(* inner stream that keeps the contract, any number of its writers and     *)
(* chunks and any capacity of the forwarder's channel; then Ensemble, for  *)
(* any members in any order, and any number of dispatches and rounds.      *)
(***************************************************************************)
EXTENDS SubWorkflow, Ensemble, SequenceTheorems, FiniteSetTheorems, TLAPS


(* What the forwarder took from the inner stream and what is still there.  *)
Made == got \o flight

Typed ==
  /\ made \in [Writers -> 0..MaxChunks] /\ cut \subseteq Writers
  /\ flight \in Seq(ChunkIds) /\ got \in Seq(ChunkIds)
  /\ hand \in Seq(ChunkIds) /\ out \in Seq(ChunkIds)
  /\ received \in Seq(ChunkIds)
  /\ outcome \subseteq Outcomes /\ told \subseteq outcome
  /\ cancelled \in BOOLEAN /\ depth \in 0..(MaxDepth + 1)
  /\ status \in {"new", "refused", "failed", "open"}
  /\ forwarder \in {"none", "ranging", "closing", "ended"}
  /\ Len(hand) <= 1 /\ Len(out) <= OutSize
  /\ client \in {"new", "ranging", "left", "waiting", "told", "gone"}
  /\ did \subseteq {"left", "cancel"}
  /\ chunkCount = Len(got)

(* No chunk is made twice, so that there are Total of them at most.        *)
Once ==
  /\ \A i \in 1..Len(Made) : Made[i][2] <= made[Made[i][1]]
  /\ \A i, j \in 1..Len(Made) : Made[i] = Made[j] => i = j

(* How far the parts of the relay and its client have come.                *)
Phases ==
  /\ status = "new" <=> client = "new"
  /\ status # "open" => forwarder = "none"
  /\ forwarder = "none" => hand = <<>> /\ got = <<>>
  /\ forwarder \in {"closing", "ended"} => hand = <<>> /\ InnerOver
  /\ client = "left" /\ did = {} => forwarder = "none"
  /\ Len(got) = Len(received) + Len(out) + Len(hand)

(* The span is open until the forwarder ends it, and then tells of what    *)
(* the forwarder took; a client that ranged to the end has all of that.    *)
Spans ==
  /\ span \in Ended \cup {Span("none", 0), Span("open", 0)}
  /\ status = "new" <=> span.status = "none"
  /\ status = "open" /\ did = {} /\ client = "ranging" =>
       span = IF forwarder \in {"closing", "ended"} THEN Span("ok", chunkCount)
              ELSE Span("open", 0)
  /\ /\ client \in {"waiting", "told", "gone"} /\ status = "open" /\ did = {}
     /\ forwarder # "none"
     => forwarder = "ended" /\ out = <<>> /\ span = Span("ok", chunkCount)

IInv == Typed /\ Once /\ Phases /\ Spans

-----------------------------------------------------------------------------
(* The number of chunks                                                    *)

LEMMA MadeSeq ==
  ASSUME got \in Seq(ChunkIds), flight \in Seq(ChunkIds)
  PROVE  /\ Made \in Seq(ChunkIds) /\ Len(Made) = Len(got) + Len(flight)
         /\ Len(got) \in Nat /\ Len(flight) \in Nat /\ Len(Made) \in Nat
         /\ \A i \in 1..Len(Made) : Made[i] \in ChunkIds
BY ConcatProperties, LenProperties, ElementOfSeq DEF Made

LEMMA TotalNat == /\ Total \in Nat /\ IsFiniteSet(ChunkIds)
                  /\ Cardinality(ChunkIds) = Total
<1>1. Cardinality(Writers) \in Nat
  BY SubWorkflowAssumption, FS_CardinalityType
<1>2. IsFiniteSet(1..MaxChunks) /\ Cardinality(1..MaxChunks) = MaxChunks
  BY SubWorkflowAssumption, FS_Interval
<1>3. /\ IsFiniteSet(ChunkIds)
      /\ Cardinality(ChunkIds) = Cardinality(Writers) * MaxChunks
  BY <1>2, SubWorkflowAssumption, FS_Product DEF ChunkIds
<1> QED
  BY <1>1, <1>3, SubWorkflowAssumption DEF Total

LEMMA CountBounded ==
  ASSUME Typed, Once
  PROVE  Len(got) \in 0..Total
<1>1. /\ Made \in Seq(ChunkIds) /\ Len(Made) = Len(got) + Len(flight)
      /\ Len(got) \in Nat /\ Len(flight) \in Nat
  BY MadeSeq DEF Typed
<1>2. /\ IsFiniteSet(1..Len(Made))
      /\ Cardinality(1..Len(Made)) = Len(Made)
  BY <1>1, FS_Interval
<1>3. Made \in Injection(1..Len(Made), ChunkIds)
  <2>1. Made \in [1..Len(Made) -> ChunkIds]
    BY <1>1, LenProperties
  <2> QED
    BY <2>1 DEF Once, Injection, IsInjective
<1>4. Cardinality(1..Len(Made)) <= Cardinality(ChunkIds)
  BY <1>3, TotalNat, FS_Injection
<1> QED
  BY <1>1, <1>2, <1>4, TotalNat

-----------------------------------------------------------------------------
(* The sequences: a chunk that moves on from one to the next               *)

LEMMA MoveHead ==
  ASSUME NEW S, NEW s \in Seq(S), NEW t \in Seq(S), t # <<>>
  PROVE  /\ Append(s, Head(t)) \o Tail(t) = s \o t
         /\ s \o <<Head(t)>> = Append(s, Head(t))
         /\ Head(t) \in S /\ Tail(t) \in Seq(S)
<1>1. Head(t) \in S /\ Tail(t) \in Seq(S)
  BY HeadTailProperties
<1>2. t = <<Head(t)>> \o Tail(t)
  BY <1>1
<1>3. Append(s, Head(t)) = s \o <<Head(t)>> /\ <<Head(t)>> \in Seq(S)
  BY <1>1, AppendIsConcat
<1> QED
  BY <1>1, <1>2, <1>3, ConcatAssociative

LEMMA PutLast ==
  ASSUME NEW S, NEW s \in Seq(S), NEW t \in Seq(S), NEW e \in S
  PROVE  s \o Append(t, e) = Append(s \o t, e)
<1>1. Append(t, e) = t \o <<e>> /\ <<e>> \in Seq(S) /\ s \o t \in Seq(S)
  BY AppendIsConcat, ConcatProperties
<1>2. Append(s \o t, e) = (s \o t) \o <<e>>
  BY <1>1, AppendIsConcat
<1> QED
  BY <1>1, <1>2, ConcatAssociative

-----------------------------------------------------------------------------
(* The inner stream                                                        *)

LEMMA ProduceOnce ==
  ASSUME Typed, Once, NEW w \in Writers, made[w] < MaxChunks,
         Inner!Produce(w)
  PROVE  /\ flight' \in Seq(ChunkIds) /\ made' \in [Writers -> 0..MaxChunks]
         /\ Once'
<1> DEFINE c == <<w, made[w] + 1>>
<1>1. /\ made' = [made EXCEPT ![w] = @ + 1] /\ flight' = Append(flight, c)
      /\ got' = got
  BY DEF Inner!Produce
<1>2. made[w] \in 0..MaxChunks /\ made[w] + 1 \in 1..MaxChunks
  BY SubWorkflowAssumption DEF Typed
<1>3. c \in ChunkIds
  BY <1>2 DEF ChunkIds
<1>4. flight' \in Seq(ChunkIds) /\ made' \in [Writers -> 0..MaxChunks]
  BY <1>1, <1>2, <1>3 DEF Typed
<1>5. Made' = Append(Made, c)
  BY SMTT(20), <1>1, <1>3, PutLast DEF Made, Typed
<1>6. /\ Made \in Seq(ChunkIds) /\ Len(Made) \in Nat
      /\ \A i \in 1..Len(Made) : Made[i] \in ChunkIds
  BY MadeSeq DEF Typed
<1>7. /\ Len(Made') = Len(Made) + 1 /\ Made'[Len(Made) + 1] = c
      /\ \A i \in 1..Len(Made) : Made'[i] = Made[i]
  BY <1>3, <1>5, <1>6, AppendProperties
<1>8. \A i \in 1..Len(Made) : Made[i] # c
  <2> SUFFICES ASSUME NEW i \in 1..Len(Made), Made[i] = c PROVE FALSE
    OBVIOUS
  <2>1. Made[i][2] = made[w] + 1 /\ Made[i][1] = w
    OBVIOUS
  <2> QED
    BY <1>2, <2>1 DEF Once
<1>9. \A i \in 1..Len(Made') : i \in 1..Len(Made) \/ i = Len(Made) + 1
  BY <1>6, <1>7
<1>10. \A i \in 1..Len(Made') : Made'[i][2] <= made'[Made'[i][1]]
  <2> TAKE i \in 1..Len(Made')
  <2>1. CASE i = Len(Made) + 1
    BY <1>1, <1>2, <1>7, <2>1 DEF Typed
  <2>2. CASE i \in 1..Len(Made)
    <3>1. Made[i][1] \in Writers /\ Made[i][2] \in Nat
      BY <1>6, <2>2, SubWorkflowAssumption DEF ChunkIds
    <3>2. Made[i][2] <= made[Made[i][1]] /\ made[Made[i][1]] \in Nat
      BY <2>2, <3>1 DEF Once, Typed
    <3>3. made'[Made[i][1]] >= made[Made[i][1]]
      BY <1>1, <1>2, <3>1, <3>2 DEF Typed
    <3>4. made'[Made[i][1]] \in Nat
      BY <1>4, <3>1
    <3> QED
      BY <1>7, <2>2, <3>1, <3>2, <3>3, <3>4
  <2> QED
    BY <1>9, <2>1, <2>2
<1>11. \A i, j \in 1..Len(Made') : Made'[i] = Made'[j] => i = j
  BY <1>6, <1>7, <1>8, <1>9 DEF Once
<1> QED
  BY <1>4, <1>10, <1>11 DEF Once

(* A step that neither makes nor moves a chunk between got and flight.     *)
LEMMA SameOnce ==
  ASSUME Typed, Once, Made' = Made,
         made' = made \/ \E w \in Writers : made' = [made EXCEPT ![w] = @ + 1]
  PROVE  Once'
<1>1. \A i \in 1..Len(Made) : Made[i][1] \in Writers /\ Made[i][2] \in Nat
  BY SMTT(20), MadeSeq, SubWorkflowAssumption DEF Typed, ChunkIds
<1>2. \A w \in Writers : /\ made[w] \in Nat /\ made'[w] \in Nat
                         /\ made'[w] >= made[w]
  BY SMTT(20), SubWorkflowAssumption DEF Typed
<1>3. \A i \in 1..Len(Made) : Made[i][2] <= made'[Made[i][1]]
  BY <1>1, <1>2 DEF Once
<1> QED
  BY <1>3 DEF Once
-----------------------------------------------------------------------------
(* The steps                                                               *)

LEMMA SpanFacts ==
  /\ \A s, n : Span(s, n).status = s /\ Span(s, n).chunks = n
  /\ \A n \in 0..Total : Span("ok", n) \in Ended /\ Span("error", n) \in Ended
  /\ \A e \in Ended : e.status \in {"ok", "error"}
<1>1. \A s, n : Span(s, n).status = s /\ Span(s, n).chunks = n
  BY DEF Span
<1>2. \A n \in 0..Total : Span("ok", n) \in Ended /\ Span("error", n) \in Ended
  BY DEF Ended
<1>3. \A e \in Ended : e.status \in {"ok", "error"}
  BY <1>1 DEF Ended
<1> QED
  BY <1>1, <1>2, <1>3

LEMMA Finalized ==
  ASSUME Typed, Once, Spans, Finalize
  PROVE  /\ span' \in Ended \cup {Span("none", 0), Span("open", 0)}
         /\ span'.status = "none" <=> span.status = "none"
         /\ span = Span("open", 0) => span' = Span("ok", chunkCount)
         /\ span.status # "open" => span' = span
BY CountBounded, SpanFacts DEF Finalize, Spans, Typed

LEMMA StartStep == ASSUME IInv, RunStream PROVE IInv'
<1>1. PICK s \in {"refused", "failed", "open"}, sp \in {"error", "open"} :
        /\ Start(s, sp) /\ (s = "open" <=> sp = "open")
        /\ client' \in {"left", "ranging", "gone"}
        /\ s = "open" => client' \in {"left", "ranging"}
  BY DEF RunStream, Refuse, FailToStart, OpenStream
<1>2. /\ status = "new" /\ status' = s /\ span' = Span(sp, 0)
      /\ UNCHANGED <<innerVars, relayVars, did, received, depth>>
  BY <1>1 DEF Start
<1>3. Typed'
  BY <1>1, <1>2 DEF IInv, Typed, innerVars, relayVars
<1>4. Once'
  BY <1>2, SameOnce DEF IInv, innerVars, Made
<1>5. Phases'
  BY <1>1, <1>2 DEF IInv, Phases, innerVars, relayVars, InnerOver
<1>6. Spans'
  <2>1. 0 \in 0..Total
    BY TotalNat
  <2>2. span' \in Ended \cup {Span("open", 0)} /\ span'.status = sp
    BY <1>1, <1>2, <2>1, SpanFacts
  <2>3. forwarder' = "none"
    BY <1>2 DEF IInv, Phases, relayVars
  <2> QED
    BY <1>1, <1>2, <2>2, <2>3 DEF Spans
<1> QED
  BY <1>3, <1>4, <1>5, <1>6 DEF IInv

LEMMA InnerSteps ==
  ASSUME IInv, InnerMakes \/ InnerEnds \/ ContextDone
  PROVE  IInv'
<1>1. /\ UNCHANGED <<relayVars, clientVars, depth, status, span, got, told>>
      /\ status = "open"
  BY DEF InnerMakes, InnerEnds, ContextDone, InnerStep, Inner!Produce,
     Inner!Lose, Inner!End, Inner!CancelStream
<1>2. CASE InnerMakes
  <2>1. PICK w \in Writers :
          /\ made[w] < MaxChunks
          /\ \/ Inner!Produce(w)
             \/ cancelled' = TRUE /\ Inner!Lose(w)
    BY <1>2 DEF InnerMakes, InnerStep
  <2>2. /\ outcome = {} /\ outcome' = {}
        /\ cut' \subseteq Writers /\ cancelled' \in BOOLEAN
        /\ forwarder \notin {"closing", "ended"}
    BY <2>1 DEF Inner!Produce, Inner!Lose, IInv, Typed, Phases, InnerOver
  <2>3. /\ flight' \in Seq(ChunkIds) /\ made' \in [Writers -> 0..MaxChunks]
        /\ Once'
    <3>1. CASE Inner!Produce(w)
      BY <2>1, <3>1, ProduceOnce DEF IInv
    <3>2. CASE Inner!Lose(w)
      <4>1. /\ made' = [made EXCEPT ![w] = @ + 1]
            /\ flight' = flight /\ got' = got
        BY <3>2 DEF Inner!Lose
      <4>2. made[w] + 1 \in 0..MaxChunks
        BY <2>1, SubWorkflowAssumption DEF IInv, Typed
      <4> QED
        BY <4>1, <4>2, SameOnce DEF IInv, Typed, Made
    <3> QED
      BY <2>1, <3>1, <3>2
  <2>4. Typed'
    BY <1>1, <2>2, <2>3 DEF IInv, Typed, relayVars, clientVars
  <2>5. Phases' /\ Spans'
    BY <1>1, <2>2 DEF IInv, Phases, Spans, relayVars, clientVars
  <2> QED
    BY <2>3, <2>4, <2>5 DEF IInv
<1>3. CASE InnerEnds
  <2>1. PICK o \in Outcomes : Inner!End(o)
    BY <1>3 DEF InnerEnds, InnerStep
  <2>2. /\ outcome = {} /\ outcome' = {o} /\ told = {}
        /\ UNCHANGED <<made, cut, flight, cancelled>>
        /\ forwarder \notin {"closing", "ended"}
    BY <2>1 DEF Inner!End, IInv, Typed, Phases, InnerOver
  <2>3. Once'
    BY <1>1, <2>2, SameOnce DEF IInv, Made
  <2>4. Typed'
    BY <1>1, <2>2 DEF IInv, Typed, relayVars, clientVars
  <2>5. Phases' /\ Spans'
    BY <1>1, <2>2 DEF IInv, Phases, Spans, relayVars, clientVars
  <2> QED
    BY <2>3, <2>4, <2>5 DEF IInv
<1>4. CASE ContextDone
  <2>1. cancelled' = TRUE /\ UNCHANGED <<made, cut, flight, outcome>>
    BY <1>4 DEF ContextDone, InnerStep, Inner!CancelStream
  <2>2. Once'
    BY <1>1, <2>1, SameOnce DEF IInv, Made
  <2>3. Typed'
    BY <1>1, <2>1 DEF IInv, Typed, relayVars, clientVars
  <2>4. Phases' /\ Spans'
    BY <1>1, <2>1 DEF IInv, Phases, Spans, relayVars, clientVars, InnerOver
  <2> QED
    BY <2>2, <2>3, <2>4 DEF IInv
<1> QED
  BY <1>2, <1>3, <1>4

LEMMA TakeStep == ASSUME IInv, Take PROVE IInv'
<1>1. /\ forwarder = "ranging" /\ hand = <<>> /\ flight # <<>>
      /\ hand' = <<Head(flight)>> /\ chunkCount' = chunkCount + 1
      /\ got' = Append(got, Head(flight)) /\ flight' = Tail(flight)
      /\ UNCHANGED <<made, cut, cancelled, outcome, told, clientVars, depth,
                     status, forwarder, out, span>>
  BY DEF Take, Forward, Inner!Deliver
<1>2. /\ Made' = Made /\ Head(flight) \in ChunkIds
      /\ flight' \in Seq(ChunkIds) /\ got' \in Seq(ChunkIds)
      /\ Len(got') = Len(got) + 1
  <2>1. Head(flight) \in ChunkIds /\ Tail(flight) \in Seq(ChunkIds)
    BY <1>1, HeadTailProperties DEF IInv, Typed
  <2>2. Append(got, Head(flight)) \o Tail(flight) = got \o flight
    BY SMTT(20), <1>1, MoveHead DEF IInv, Typed
  <2> QED
    BY <1>1, <2>1, <2>2, AppendProperties DEF IInv, Typed, Made
<1>3. Once'
  BY <1>1, <1>2, SameOnce DEF IInv
<1>4. hand' \in Seq(ChunkIds) /\ Len(hand') = 1 /\ Len(hand) = 0
  BY <1>1, <1>2
<1>5. Typed'
  BY <1>1, <1>2, <1>4 DEF IInv, Typed, clientVars
<1>6. Phases'
  <2>1. /\ Len(got) \in Nat /\ Len(received) \in Nat /\ Len(out) \in Nat
        /\ Len(got) = Len(received) + Len(out)
    BY <1>4, LenProperties DEF IInv, Typed, Phases
  <2> QED
    BY <1>1, <1>2, <1>4, <2>1 DEF IInv, Phases, clientVars
<1>7. Spans'
  BY <1>1 DEF IInv, Spans, clientVars
<1> QED
  BY <1>3, <1>5, <1>6, <1>7 DEF IInv

LEMMA PutStep == ASSUME IInv, Put PROVE IInv'
<1>1. /\ hand # <<>> /\ Len(out) < OutSize /\ out' = out \o hand
      /\ hand' = <<>>
      /\ UNCHANGED <<innerVars, forwarder, chunkCount, clientVars, depth,
                     status, span>>
  BY DEF Put, PutWhenRoom, Forward
<1>2. /\ out' \in Seq(ChunkIds) /\ Len(out') = Len(out) + Len(hand)
      /\ Len(hand) = 1 /\ Len(out) \in Nat
  <2>1. /\ hand \in Seq(ChunkIds) /\ out \in Seq(ChunkIds) /\ Len(hand) <= 1
    BY DEF IInv, Typed
  <2>2. Len(hand) = 1
    <3>1. Len(hand) \in Nat
      BY <2>1, LenProperties
    <3>2. Len(hand) # 0
      BY <1>1, <2>1, EmptySeq, Zenon
    <3>3. \A n \in Nat : n # 0 /\ n <= 1 => n = 1
      OBVIOUS
    <3> QED
      BY <2>1, <3>1, <3>2, <3>3, Zenon
  <2>3. Len(out) \in Nat
    BY <2>1, LenProperties
  <2> QED
    BY <1>1, <2>1, <2>2, <2>3, ConcatProperties
<1>3. Once'
  BY <1>1, SameOnce DEF IInv, innerVars, Made
<1>4. Typed'
  BY <1>1, <1>2, SubWorkflowAssumption
     DEF IInv, Typed, innerVars, clientVars
<1>5. Phases'
  <2>1. Len(received) \in Nat /\ forwarder # "none"
    BY <1>1, LenProperties DEF IInv, Typed, Phases
  <2> QED
    BY <1>1, <1>2, <2>1 DEF IInv, Phases, innerVars, clientVars, InnerOver
<1>6. Spans'
  <2>1. forwarder # "ended"
    BY <1>1 DEF IInv, Phases
  <2> QED
    BY <1>1, <2>1 DEF IInv, Spans, clientVars
<1> QED
  BY <1>3, <1>4, <1>5, <1>6 DEF IInv

LEMMA EndSpanStep == ASSUME IInv, EndSpan \/ CloseOut PROVE IInv'
<1>1. /\ UNCHANGED <<innerVars, hand, out, chunkCount, clientVars, depth,
                     status>>
      /\ \/ /\ forwarder = "ranging" /\ forwarder' = "closing" /\ Finalize
            /\ hand = <<>> /\ InnerOver
         \/ forwarder = "closing" /\ forwarder' = "ended" /\ span' = span
  BY DEF EndSpan, CloseOut, Forward
<1>2. Once'
  BY <1>1, SameOnce DEF IInv, innerVars, Made
<1>3. Typed'
  BY <1>1 DEF IInv, Typed, innerVars, clientVars
<1>4. Phases'
  BY <1>1 DEF IInv, Phases, innerVars, clientVars, InnerOver
<1>5. Spans'
  BY <1>1, Finalized DEF IInv, Spans, Phases, clientVars
<1> QED
  BY <1>2, <1>3, <1>4, <1>5 DEF IInv

LEMMA ReceiveStep == ASSUME IInv, Receive PROVE IInv'
<1>1. /\ client = "ranging" /\ out # <<>> /\ out' = Tail(out)
      /\ received' = Append(received, Head(out))
      /\ UNCHANGED <<innerVars, forwarder, hand, chunkCount, client, did,
                     depth, status, span>>
  BY DEF Receive
<1>2. /\ out' \in Seq(ChunkIds) /\ received' \in Seq(ChunkIds)
      /\ Len(out') = Len(out) - 1 /\ Len(received') = Len(received) + 1
      /\ Len(out) \in Nat /\ Len(received) \in Nat /\ Len(hand) \in Nat
  <2>1. Head(out) \in ChunkIds
    BY <1>1, HeadTailProperties DEF IInv, Typed
  <2> QED
    BY <1>1, <2>1, HeadTailProperties, AppendProperties, LenProperties
       DEF IInv, Typed
<1>3. Once'
  BY <1>1, SameOnce DEF IInv, innerVars, Made
<1>4. Typed'
  BY <1>1, <1>2, SubWorkflowAssumption DEF IInv, Typed, innerVars
<1>5. Phases'
  <2>1. Len(got) = Len(received) + Len(out) + Len(hand)
    BY DEF IInv, Phases
  <2>2. Len(got') = Len(received') + Len(out') + Len(hand')
    BY <1>1, <1>2, <2>1 DEF innerVars
  <2> QED
    BY <1>1, <2>2 DEF IInv, Phases, innerVars, InnerOver
<1>6. Spans'
  BY <1>1 DEF IInv, Spans
<1> QED
  BY <1>3, <1>4, <1>5, <1>6 DEF IInv

LEMMA ClientSteps ==
  ASSUME IInv,
         \/ CallChunks \/ SeeEnd \/ LeaveLoop \/ CallWait \/ JustReturn
         \/ InnerWait \/ WaitReturns \/ Cancel
  PROVE  IInv'
<1>1. /\ UNCHANGED <<made, cut, flight, got, outcome, hand, out, received,
                     chunkCount, depth, status>>
      /\ told' \in {told, outcome} /\ cancelled' \in BOOLEAN
      /\ forwarder' = forwarder \/ CallChunks
      /\ client' \in {"ranging", "left", "waiting", "told", "gone"}
                       \cup {client}
      /\ did' \in {did, did \cup {"left"}, did \cup {"cancel"}}
  BY DEF CallChunks, SeeEnd, LeaveLoop, CallWait, JustReturn, InnerWait,
     WaitReturns, Cancel, ClientTo, innerVars, relayVars, clientVars,
     Inner!Tell, Inner!CancelStream, IInv, Typed
<1>2. Typed'
  BY <1>1 DEF IInv, Typed, CallChunks
<1>3. Once'
  BY <1>1, SameOnce DEF IInv, Made
<1>4. CASE CallChunks
  BY <1>1, <1>2, <1>3, <1>4 DEF CallChunks, clientVars, IInv, Phases, Spans
<1>5. CASE SeeEnd
  BY <1>1, <1>2, <1>3, <1>5
     DEF SeeEnd, ClientTo, relayVars, IInv, Phases, Spans, InnerOver
<1>6. CASE LeaveLoop
  BY <1>1, <1>2, <1>3, <1>6
     DEF LeaveLoop, ClientTo, relayVars, IInv, Phases, Spans, InnerOver
<1>7. CASE CallWait \/ JustReturn \/ InnerWait
  BY <1>1, <1>2, <1>3, <1>7 DEF CallWait, JustReturn, InnerWait, ClientTo,
     relayVars, IInv, Phases, Spans, InnerOver
<1>8. CASE WaitReturns
  <2>1. /\ client = "told" /\ client' = "gone" /\ did' = did
        /\ forwarder' = forwarder
        /\ span' \in Ended \cup {Span("none", 0), Span("open", 0)}
        /\ span'.status = "none" <=> span.status = "none"
        /\ span.status # "open" => span' = span
    BY <1>8, Finalized DEF WaitReturns, ClientTo, relayVars, IInv
  <2>2. Phases'
    BY <1>1, <2>1 DEF IInv, Phases, InnerOver
  <2>3. Spans'
    BY <1>1, <2>1, SpanFacts DEF IInv, Spans
  <2> QED
    BY <1>2, <1>3, <2>2, <2>3 DEF IInv
<1>9. CASE Cancel
  <2>1. /\ client' = client /\ did' = did \cup {"cancel"}
        /\ forwarder' = forwarder /\ status = "open"
        /\ span' \in Ended \cup {Span("none", 0), Span("open", 0)}
        /\ span'.status = "none" <=> span.status = "none"
    BY <1>9, Finalized DEF Cancel, relayVars, IInv
  <2>2. Phases' /\ Spans'
    BY <1>1, <2>1 DEF IInv, Phases, Spans, InnerOver
  <2> QED
    BY <1>2, <1>3, <2>2 DEF IInv
<1> QED
  BY <1>4, <1>5, <1>6, <1>7, <1>8, <1>9

LEMMA InitIInv == Init => IInv
<1> SUFFICES ASSUME Init PROVE IInv
  OBVIOUS
<1>1. /\ made = [w \in Writers |-> 0] /\ cut = {} /\ flight = <<>>
      /\ got = <<>> /\ cancelled = FALSE /\ outcome = {} /\ told = {}
  BY DEF Init, Inner!Init
<1>2. Typed
  <2>1. /\ made \in [Writers -> 0..MaxChunks] /\ outcome \subseteq Outcomes
        /\ flight \in Seq(ChunkIds) /\ got \in Seq(ChunkIds)
    BY <1>1, SubWorkflowAssumption
  <2>2. /\ hand \in Seq(ChunkIds) /\ out \in Seq(ChunkIds)
        /\ received \in Seq(ChunkIds)
        /\ Len(hand) = 0 /\ Len(out) = 0 /\ chunkCount = Len(got)
    BY <1>1 DEF Init
  <2>3. /\ Len(hand) <= 1 /\ Len(out) <= OutSize
        /\ depth \in 0..(MaxDepth + 1)
    BY <2>2, SubWorkflowAssumption DEF Init
  <2>4. /\ status = "new" /\ forwarder = "none" /\ client = "new"
        /\ did = {} /\ cut \subseteq Writers /\ told \subseteq outcome
        /\ cancelled \in BOOLEAN
    BY <1>1 DEF Init
  <2> QED
    BY <2>1, <2>2, <2>3, <2>4 DEF Typed
<1>3. Made = <<>>
  BY <1>1 DEF Made
<1>4. Once
  BY <1>3 DEF Once
<1>5. Phases
  BY <1>1 DEF Init, Phases
<1>6. Spans
  BY SpanFacts DEF Init, Spans
<1> QED
  BY <1>2, <1>4, <1>5, <1>6 DEF IInv

LEMMA NextIInv == IInv /\ [Next]_vars => IInv'
<1> SUFFICES ASSUME IInv, [Next]_vars PROVE IInv'
  OBVIOUS
<1>1. CASE UNCHANGED vars
  <2>1. Once'
    BY <1>1, SameOnce DEF IInv, vars, innerVars, Made
  <2>2. Typed'
    BY <1>1 DEF IInv, Typed, vars, innerVars, relayVars, clientVars
  <2>3. Phases' /\ Spans'
    BY <1>1 DEF IInv, Phases, Spans, vars, innerVars, relayVars, clientVars,
       InnerOver
  <2> QED
    BY <2>1, <2>2, <2>3 DEF IInv
<1> QED
  BY <1>1, StartStep, InnerSteps, TakeStep, PutStep, EndSpanStep, ReceiveStep,
     ClientSteps DEF Next, Relay, Consume

LEMMA Inductive == Spec => []IInv
BY InitIInv, NextIInv, PTL DEF Spec

(* Every variable keeps its type, and a client that ranged to the end and  *)
(* called no Cancel finds a trace that tells of exactly the chunks it      *)
(* received, whatever the inner stream, its writers and the channel.       *)
THEOREM SpanInvHolds == Spec => []SpanInv
<1>1. ASSUME IInv PROVE SpanInv
  <2>1. TypeOK
    BY <1>1 DEF IInv, Typed, Spans, TypeOK
  <2>2. SpanExact
    <3> SUFFICES ASSUME client \in {"waiting", "told", "gone"},
                        status = "open", did = {}, forwarder # "none"
                 PROVE  span = Span("ok", Len(received))
      BY DEF SpanExact
    <3>1. /\ forwarder = "ended" /\ out = <<>>
          /\ span = Span("ok", chunkCount) /\ hand = <<>>
      BY <1>1 DEF IInv, Spans, Phases
    <3>2. chunkCount = Len(received) /\ Len(received) \in Nat
      BY <1>1, <3>1, LenProperties DEF IInv, Typed, Phases
    <3> QED
      BY <3>1, <3>2
  <2> QED
    BY <2>1, <2>2 DEF SpanInv
<1> QED
  BY <1>1, Inductive, PTL

-----------------------------------------------------------------------------
(* Refinement: the wrapped stream is a stream again                        *)

OnWay == out \o hand \o flight
mapped == <<made, cut, OnWay, received, cancelled, outcome, told>>

LEMMA WrappedVars == Wrapped!vars = mapped /\ Wrapped!vars' = mapped'
BY DEF Wrapped!vars, mapped, OnWay

LEMMA OnWaySeq ==
  ASSUME Typed
  PROVE  out \o hand \in Seq(ChunkIds) /\ OnWay \in Seq(ChunkIds)
BY ConcatProperties DEF Typed, OnWay

(* The forwarder takes a chunk and puts it into its channel: no chunk is   *)
(* passed by another, and none is dropped.                                 *)
LEMMA Relayed ==
  ASSUME IInv, Take \/ Put
  PROVE  OnWay' = OnWay
<1>1. CASE Take
  <2>1. /\ hand = <<>> /\ hand' = <<Head(flight)>> /\ flight' = Tail(flight)
        /\ out' = out /\ flight # <<>>
    BY <1>1 DEF Take, Inner!Deliver
  <2>2. /\ out \in Seq(ChunkIds) /\ flight \in Seq(ChunkIds)
        /\ Head(flight) \in ChunkIds /\ Tail(flight) \in Seq(ChunkIds)
    BY <2>1, HeadTailProperties DEF IInv, Typed
  <2>3. /\ out \o <<Head(flight)>> = Append(out, Head(flight))
        /\ Append(out, Head(flight)) \o Tail(flight) = out \o flight
    BY <2>1, <2>2, MoveHead
  <2>4. out \o <<>> = out
    BY <2>2, ConcatEmptySeq
  <2> QED
    BY <2>1, <2>3, <2>4 DEF OnWay
<1>2. CASE Put
  <2>1. hand' = <<>> /\ out' = out \o hand /\ flight' = flight
    BY <1>2 DEF Put, PutWhenRoom, innerVars
  <2>2. (out \o hand) \o <<>> = out \o hand
    BY OnWaySeq, ConcatEmptySeq DEF IInv
  <2> QED
    BY <2>1, <2>2 DEF OnWay
<1> QED
  BY <1>1, <1>2

(* The client's receive is the delivery of the oldest chunk on its way.    *)
LEMMA Delivered ==
  ASSUME IInv, Receive
  PROVE  Wrapped!Deliver
<1>1. /\ out # <<>> /\ out' = Tail(out)
      /\ received' = Append(received, Head(out))
      /\ UNCHANGED <<innerVars, hand>>
  BY DEF Receive
<1>2. /\ out \in Seq(ChunkIds) /\ hand \in Seq(ChunkIds)
      /\ flight \in Seq(ChunkIds)
      /\ hand \o flight \in Seq(ChunkIds)
      /\ Head(out) \in ChunkIds /\ Tail(out) \in Seq(ChunkIds)
  BY <1>1, HeadTailProperties, ConcatProperties DEF IInv, Typed
<1>3. OnWay = out \o (hand \o flight)
  BY SMTT(20), <1>2, ConcatAssociative DEF OnWay
<1>4. OnWay' = Tail(out) \o (hand \o flight)
  BY SMTT(20), <1>1, <1>2, ConcatAssociative DEF OnWay, innerVars
<1>5. out = <<Head(out)>> \o Tail(out) /\ <<Head(out)>> \in Seq(ChunkIds)
  BY <1>1, <1>2
<1>6. OnWay = <<Head(out)>> \o OnWay'
  BY <1>2, <1>3, <1>4, <1>5, ConcatAssociative
<1>7. OnWay' \in Seq(ChunkIds)
  BY <1>2, <1>4, ConcatProperties
<1>8. OnWay # <<>> /\ Head(OnWay) = Head(out) /\ Tail(OnWay) = OnWay'
  BY <1>2, <1>6, <1>7
<1> QED
  BY <1>1, <1>8 DEF Wrapped!Deliver, OnWay, innerVars

LEMMA MadeOnWay ==
  ASSUME IInv, NEW w \in Writers, made[w] < MaxChunks, Inner!Produce(w),
         UNCHANGED relayVars, UNCHANGED received
  PROVE  Wrapped!Produce(w)
<1>1. made[w] \in 0..MaxChunks
  BY DEF IInv, Typed
<1>2. <<w, made[w] + 1>> \in ChunkIds
  BY <1>1, SubWorkflowAssumption DEF ChunkIds
<1>3. /\ flight' = Append(flight, <<w, made[w] + 1>>)
      /\ out' = out /\ hand' = hand
  BY DEF Inner!Produce, relayVars
<1>4. OnWay' = Append(OnWay, <<w, made[w] + 1>>)
  <2>1. out \o hand \in Seq(ChunkIds) /\ flight \in Seq(ChunkIds)
    BY OnWaySeq DEF IInv, Typed
  <2>2. (out \o hand) \o Append(flight, <<w, made[w] + 1>>)
          = Append((out \o hand) \o flight, <<w, made[w] + 1>>)
    BY <1>2, <2>1, PutLast
  <2> QED
    BY <1>3, <2>2 DEF OnWay
<1> QED
  BY <1>4 DEF Inner!Produce, Wrapped!Produce, OnWay

(* The contract's steps are the inner stream's, but for the delivery,      *)
(* which is the client's own receive; what the forwarder does is unseen.   *)
THEOREM SubKeepsContract == Spec => KeepsContract
<1>1. Init => Wrapped!Init
  BY DEF Init, Inner!Init, Wrapped!Init
<1>2. ASSUME IInv, Next PROVE Wrapped!Next \/ UNCHANGED mapped
  <2>1. CASE InnerMakes
    <3>1. PICK w \in Writers :
            /\ made[w] < MaxChunks
            /\ Inner!Produce(w) \/ (cancelled' = TRUE /\ Inner!Lose(w))
            /\ UNCHANGED <<relayVars, received>>
      BY <2>1 DEF InnerMakes, InnerStep, clientVars
    <3>2. CASE Inner!Produce(w)
      BY <1>2, <3>1, <3>2, MadeOnWay DEF Wrapped!Next
    <3>3. CASE cancelled' = TRUE /\ Inner!Lose(w)
      BY <3>1, <3>3 DEF Inner!Lose, Wrapped!Lose, Wrapped!Next, relayVars
    <3> QED
      BY <3>1, <3>2, <3>3
  <2>2. CASE InnerEnds
    <3>1. PICK o \in Outcomes : /\ Inner!End(o)
                                /\ UNCHANGED <<relayVars, received>>
      BY <2>2 DEF InnerEnds, InnerStep, clientVars
    <3> QED
      BY <3>1 DEF Inner!End, Wrapped!End, Wrapped!Next, relayVars
  <2>3. CASE ContextDone
    BY <2>3 DEF ContextDone, InnerStep, Inner!CancelStream,
       Wrapped!CancelStream, Wrapped!Next, relayVars, clientVars
  <2>4. CASE Take \/ Put
    <3>1. OnWay' = OnWay
      BY <1>2, <2>4, Relayed
    <3> QED
      BY <2>4, <3>1 DEF Take, Put, PutWhenRoom, Forward, Inner!Deliver,
         mapped, innerVars, clientVars
  <2>5. CASE Receive
    BY <1>2, <2>5, Delivered DEF Wrapped!Next
  <2>6. CASE InnerWait
    BY <2>6 DEF InnerWait, ClientTo, Inner!Tell, Wrapped!Tell, Wrapped!Next,
       relayVars
  <2>7. CASE Cancel
    BY <2>7 DEF Cancel, Inner!CancelStream, Wrapped!CancelStream,
       Wrapped!Next, mapped, OnWay, innerVars, relayVars
  <2>8. CASE \/ RunStream \/ EndSpan \/ CloseOut \/ CallChunks \/ SeeEnd
             \/ CallWait \/ WaitReturns \/ LeaveLoop \/ JustReturn
    <3>1. UNCHANGED <<innerVars, hand, out, received>>
      BY <2>8 DEF RunStream, Refuse, FailToStart, OpenStream, Start, EndSpan,
         CloseOut, Forward, CallChunks, SeeEnd, CallWait, WaitReturns,
         LeaveLoop, JustReturn, ClientTo, relayVars, clientVars
    <3> QED
      BY <3>1 DEF mapped, OnWay, innerVars
  <2> QED
    BY <1>2, <2>1, <2>2, <2>3, <2>4, <2>5, <2>6, <2>7, <2>8
       DEF Next, Relay, Consume
<1>3. IInv /\ [Next]_vars => [Wrapped!Next]_(Wrapped!vars)
  <2> SUFFICES ASSUME IInv, [Next]_vars
               PROVE  Wrapped!Next \/ UNCHANGED mapped
    BY WrappedVars
  <2>1. CASE UNCHANGED vars
    BY <2>1 DEF vars, innerVars, relayVars, clientVars, mapped, OnWay
  <2> QED
    BY <1>2, <2>1
<1> QED
  BY <1>1, <1>3, Inductive, PTL DEF Spec, KeepsContract, Wrapped!Spec
-----------------------------------------------------------------------------
(* Ensemble.                                                               *)

(* What a member can come to: the error, or a State.                       *)
Outcome == {Failure} \cup [how : {"same", "own"}, state : SUBSET Marks]

(* Everything has its type, the history included.                          *)
EnsembleTyped ==
  /\ EnsembleTypeOK
  /\ output \in [Members -> Outcome] /\ ran \in Seq(DOMAIN Order)

(* Who is at work in each phase, and which kinds come to it.               *)
AtWork ==
  /\ at \notin {"gather", "running"} => \A m \in Members : member[m] = "off"
  /\ at = "running" =>
       /\ \A m \in Members : member[m] # "sent"
       /\ \A m, n \in Members :
            member[m] = "running" /\ member[n] = "running" => m = n
       /\ kind = "SequentialAgent" =>
            pos \in line /\ \A m \in Members :
                              member[m] = "running" => m = Order[pos]
  /\ at = "gather" => Concurrent
  /\ at \in {"chain", "running"} =>
       kind \notin {"collaborative", "ParallelAgent"}

(* The positions run so far: those with a handler up to pos, in order.     *)
RanSoFar ==
  kind \in {"sequential", "SequentialAgent"} /\ Busy =>
    /\ kind = "SequentialAgent" => \A i \in line : Order[i] \in registered
    /\ ToSet(ran) = {i \in Registered(line) : i <= pos}
    /\ \A j, k \in DOMAIN ran : j < k => ran[j] < ran[k]

(* What is kept of a member that succeeded is merged once it is collected. *)
Kept(m) == IF output[m].how = "same" THEN View(m) \cap {m} ELSE output[m].state
Merged ==
  /\ at = "gather" =>
       \A m \in Members : /\ member[m] = "running" => output[m] = Failure
                          /\ member[m] = "off" /\ output[m] # Failure =>
                               Kept(m) \subseteq combined
  /\ at \in {"chain", "running"} /\ kind = "mixed" =>
       \A m \in Members :
          output[m].how = "own" => output[m].state \subseteq combined
  /\ SuccessesKept

(* Who has failed so far, and in the mixed one not alone.                  *)
Failures ==
  /\ at = "gather" =>
       /\ \A m \in failed : member[m] = "off" /\ output[m] = Failure
       /\ kind = "mixed" =>
            \A m \in Members : member[m] # "off" \/ output[m] # Failure =>
                                 m \in Collaborative
       /\ kind = "mixed" => failed \subseteq Collaborative
  /\ at \in {"chain", "running"} =>
       IF kind = "mixed"
       THEN /\ failed \subseteq Collaborative
            /\ failed # {} => \E m \in Collaborative : output[m] # Failure
       ELSE failed = {}
  /\ ErrorsSurface

(* Clones: a member's State holds the input and what those before it did.  *)
Private ==
  /\ kind = "ParallelAgent" /\ at = "gather" =>
       /\ \A m \in Members : /\ given[m] \subseteq {"input", m}
                             /\ output[m].state \subseteq {"input", m}
       /\ combined \subseteq
            {"input"} \cup {m \in Members : output[m] # Failure}
  /\ kind = "SequentialAgent" /\ at \in {"chain", "running"} =>
       /\ object \subseteq {"input"} \cup
            {Order[i] : i \in {j \in DOMAIN Order :
                                 j <= pos /\ (at = "running" => j # pos)}}
       /\ at = "running" =>
            given[Order[pos]] \subseteq {"input"} \cup
              {Order[i] : i \in {j \in DOMAIN Order : j <= pos}}
  /\ FailedLeaveNothing

(* The inductive invariant of the dispatch.                                *)
EInv == EnsembleTyped /\ AtWork /\ RanSoFar /\ Merged /\ Failures /\ Private

(* The names are given once each, and there is at least one.               *)
LEMMA OrderFacts ==
  /\ Len(Order) \in Nat /\ Len(Order) > 0 /\ DOMAIN Order = 1..Len(Order)
  /\ \A i \in DOMAIN Order : Order[i] \in Members
  /\ \A i, j \in DOMAIN Order : Order[i] = Order[j] => i = j
  /\ 1 \in DOMAIN Order /\ "input" \notin Members /\ MaxIterations \in Nat
BY EnsembleAssumption, EmptySeq, LenProperties DEF IsInjective

(* Every step keeps the types.                                             *)
LEMMA TypedStep ==
  ASSUME EnsembleTyped, EnsembleNext PROVE EnsembleTyped'
<1> USE OrderFacts, EnsembleAssumption
    DEF EnsembleTyped, EnsembleTypeOK, Outcome, Failure, Kinds, Orchestrators,
        Agents, Marks, Errors, Busy, Locked, Clones, Concurrent, Loops, Return,
        setup, dispatchVars
<1>1. ASSUME NEW m \in Members, RegisterAgent(m) PROVE EnsembleTyped'
  BY <1>1 DEF RegisterAgent
<1>2. ASSUME NEW m \in Members, Write(m) PROVE EnsembleTyped'
  <2>1. CASE Clones
    <3>1. /\ given' \in [Members -> SUBSET Marks]
          /\ UNCHANGED <<object, combined>>
      BY <1>2, <2>1 DEF Write
    <3> QED
      BY <1>2, <3>1 DEF Write
  <2>2. CASE ~Clones
    BY <1>2, <2>2 DEF Write
  <2> QED
    BY <2>1, <2>2
<1>3. ASSUME NEW m \in Members, FinishOnTeam(m) PROVE EnsembleTyped'
  BY <1>3 DEF FinishOnTeam, Arrives, Outputs, View
<1>4. ASSUME NEW m \in Members, Collect(m) PROVE EnsembleTyped'
  BY <1>4 DEF Collect, Content, View
<1>5. ASSUME NEW m \in Members, MemberFails(m) PROVE EnsembleTyped'
  BY <1>5 DEF MemberFails
<1>6. ASSUME NEW m \in Members, MemberSucceeds(m) PROVE EnsembleTyped'
  <2>1. View(m) \in SUBSET Marks
    BY DEF View
  <2>2. object' \in SUBSET Marks /\ fresh' \in BOOLEAN
    BY <1>6, <2>1 DEF MemberSucceeds
  <2>3. /\ at' \in {"chain", "returned"}
        /\ answer' \in [error : Errors, state : SUBSET Marks,
                        completed : BOOLEAN]
    <3>1. CASE at' = "chain" /\ UNCHANGED answer
      BY <3>1
    <3>2. CASE Complete(object', TRUE)
      <4>1. PICK e \in Errors, t \in SUBSET Marks, b \in BOOLEAN :
              Return(e, t, b)
        BY <3>2, <2>2 DEF Complete
      <4> QED
        BY <4>1
    <3> QED
      BY <1>6, <3>1, <3>2 DEF MemberSucceeds
  <2> QED
    BY <1>6, <2>2, <2>3 DEF MemberSucceeds
<1>7. ASSUME Stop PROVE EnsembleTyped'
  BY <1>7 DEF Stop
<1>8. ASSUME Dispatch PROVE EnsembleTyped'
  <2>1. /\ at' \in {"chain", "returned", "gather"}
        /\ answer' \in [error : Errors, state : SUBSET Marks,
                        completed : BOOLEAN]
        /\ member' \in [Members -> {"off", "running", "sent"}]
    <3>1. CASE Return("setup", {}, FALSE) /\ UNCHANGED member
      BY <3>1
    <3>2. CASE Return("none", {"input"}, FALSE) /\ UNCHANGED member
      BY <3>2
    <3>3. CASE /\ at' = IF Team = {} THEN "chain" ELSE "gather"
               /\ member' = [m \in Members |-> IF m \in Team THEN "running"
                                                             ELSE "off"]
               /\ answer' = NoAnswer
      BY <3>3 DEF NoAnswer
    <3> QED
      BY <1>8, <3>1, <3>2, <3>3 DEF Dispatch
  <2>2. line' \in SUBSET DOMAIN Order
    BY <1>8 DEF Dispatch, Sequence, Registered, Remaining
  <2>3. /\ output' \in [Members -> Outcome]
        /\ given' \in [Members -> SUBSET Marks]
    BY <1>8 DEF Dispatch
  <2>4. pos' \in 0..(IF Loops' THEN MaxIterations ELSE Len(Order))
    BY <1>8 DEF Dispatch
  <2>5. ran' \in Seq(DOMAIN Order) /\ dispatches' \in 0..MaxDispatches
    BY <1>8 DEF Dispatch
  <2>6. /\ kind' \in Kinds /\ enabled' \in BOOLEAN /\ stopped' \in BOOLEAN
        /\ registered' \subseteq Members
    BY <1>8 DEF Dispatch
  <2>7. /\ fresh' \in BOOLEAN /\ object' \subseteq Marks
        /\ combined' \subseteq Marks
        /\ failed' \subseteq Members /\ ctxDone' \in BOOLEAN
    BY <1>8 DEF Dispatch
  <2> HIDE DEF Failure
  <2> QED
    BY <2>1, <2>2, <2>3, <2>4, <2>5, <2>6, <2>7
<1>9. ASSUME ContextEnds PROVE EnsembleTyped'
  BY <1>9 DEF ContextEnds
<1>10. ASSUME Gathered PROVE EnsembleTyped'
  <2>1. CASE \E e \in Errors, t \in SUBSET Marks, b \in BOOLEAN :
               Return(e, t, b) /\ UNCHANGED <<object, combined, line>>
    BY <1>10, <2>1 DEF Gathered
  <2>2. CASE /\ at' = "chain" /\ object' = object \cup combined
             /\ combined' = object \cup combined /\ line' = Sequence
             /\ UNCHANGED answer
    <3>1. Sequence \in SUBSET DOMAIN Order
      BY DEF Sequence, Registered, Remaining
    <3> QED
      BY <1>10, <2>2, <3>1 DEF Gathered
  <2> QED
    BY <1>10, <2>1, <2>2 DEF Gathered
<1>11. ASSUME ChainCancelled PROVE EnsembleTyped'
  BY <1>11 DEF ChainCancelled
<1>12. ASSUME ChainEnds PROVE EnsembleTyped'
  <2>1. PICK e \in Errors, t \in SUBSET Marks, b \in BOOLEAN : Return(e, t, b)
    BY <1>12 DEF ChainEnds, Complete
  <2> QED
    BY <1>12, <2>1 DEF ChainEnds
<1>13. ASSUME NEW i \in DOMAIN Order, SkipMissing(i) PROVE EnsembleTyped'
  BY <1>13 DEF SkipMissing, IsNext, Left, Ahead
<1>14. ASSUME NEW i \in DOMAIN Order, RunMember(i) PROVE EnsembleTyped'
  BY <1>14 DEF RunMember, IsNext, Left, Ahead
<1> QED
  BY <1>1, <1>2, <1>3, <1>4, <1>5, <1>6, <1>7, <1>8, <1>9, <1>10, <1>11, <1>12,
     <1>13, <1>14
     DEF EnsembleNext, TeamStep, ChainStep, ChainDone

(* Nobody is at work outside the two phases in which members run.          *)
LEMMA AtWorkStep ==
  ASSUME EnsembleTyped, AtWork, EnsembleNext PROVE AtWork'
<1> USE OrderFacts
    DEF EnsembleTyped, EnsembleTypeOK, Orchestrators, Agents, Kinds, AtWork,
        Busy, Locked, Clones, Concurrent, Loops, Return, setup, dispatchVars
<1>1. ASSUME NEW m \in Members, RegisterAgent(m) PROVE AtWork'
  BY <1>1 DEF RegisterAgent
<1>2. ASSUME NEW m \in Members, Write(m) PROVE AtWork'
  BY <1>2 DEF Write
<1>3. ASSUME NEW m \in Members, FinishOnTeam(m) PROVE AtWork'
  BY <1>3 DEF FinishOnTeam, Arrives, Outputs
<1>4. ASSUME NEW m \in Members, Collect(m) PROVE AtWork'
  BY <1>4 DEF Collect, Content
<1>5. ASSUME NEW m \in Members, MemberFails(m) PROVE AtWork'
  BY <1>5 DEF MemberFails
<1>6. ASSUME NEW m \in Members, MemberSucceeds(m) PROVE AtWork'
  BY <1>6 DEF MemberSucceeds, Complete
<1>7. ASSUME Stop PROVE AtWork'
  BY <1>7 DEF Stop
<1>8. ASSUME Dispatch PROVE AtWork'
  BY <1>8 DEF Dispatch, NoAnswer, Refused, PassedThrough, Team
<1>9. ASSUME ContextEnds PROVE AtWork'
  BY <1>9 DEF ContextEnds
<1>10. ASSUME Gathered PROVE AtWork'
  BY <1>10 DEF Gathered
<1>11. ASSUME ChainCancelled PROVE AtWork'
  BY <1>11 DEF ChainCancelled
<1>12. ASSUME ChainEnds PROVE AtWork'
  BY <1>12 DEF ChainEnds, Complete, Left, Ahead
<1>13. ASSUME NEW i \in DOMAIN Order, SkipMissing(i) PROVE AtWork'
  BY <1>13 DEF SkipMissing, IsNext, Left, Ahead
<1>14. ASSUME NEW i \in DOMAIN Order, RunMember(i) PROVE AtWork'
  BY <1>14 DEF RunMember, IsNext, Left, Ahead
<1> QED
  BY <1>1, <1>2, <1>3, <1>4, <1>5, <1>6, <1>7, <1>8, <1>9, <1>10, <1>11, <1>12,
     <1>13, <1>14
     DEF EnsembleNext, TeamStep, ChainStep, ChainDone

(* The elements of a sequence with one appended.                           *)
LEMMA ToSetAppend ==
  ASSUME NEW S, NEW q \in Seq(S), NEW e
  PROVE  ToSet(Append(q, e)) = ToSet(q) \cup {e}
<1>1. /\ Len(q) \in Nat /\ DOMAIN q = 1..Len(q)
      /\ DOMAIN Append(q, e) = 1..(Len(q) + 1)
      /\ \A i \in 1..Len(q) : Append(q, e)[i] = q[i]
      /\ Append(q, e)[Len(q) + 1] = e
  OBVIOUS
<1> HIDE DEF ToSet
<1>2. ASSUME NEW x PROVE x \in ToSet(Append(q, e)) <=> x \in ToSet(q) \cup {e}
  <2>1. ASSUME x \in ToSet(q) \cup {e} PROVE x \in ToSet(Append(q, e))
    BY <1>1, <2>1 DEF ToSet
  <2>2. ASSUME x \in ToSet(Append(q, e)) PROVE x \in ToSet(q) \cup {e}
    BY <1>1, <2>2 DEF ToSet
  <2> QED
    BY <2>1, <2>2
<1> QED
  BY <1>2

(* What a sequential dispatch has run depends on these five alone.         *)
LEMMA RanSame ==
  ASSUME RanSoFar, Busy' => Busy,
         UNCHANGED <<kind, line, pos, ran, registered>>
  PROVE  RanSoFar'
BY DEF RanSoFar, Registered

(* A chain moves to the next position, past the missing ones.              *)
LEMMA RanStep ==
  ASSUME EnsembleTyped, AtWork, RanSoFar, EnsembleNext PROVE RanSoFar'
<1> USE OrderFacts
    DEF EnsembleTyped, EnsembleTypeOK, Orchestrators, Agents, Kinds, AtWork,
        RanSoFar, Busy, Locked, Clones, Concurrent, Loops, Return, setup,
        dispatchVars
<1>1. ASSUME NEW m \in Members, RegisterAgent(m) PROVE RanSoFar'
  BY <1>1 DEF RegisterAgent
<1>2. ASSUME NEW m \in Members, Write(m) PROVE RanSoFar'
  BY <1>2, RanSame DEF Write
<1>3. ASSUME NEW m \in Members, FinishOnTeam(m) PROVE RanSoFar'
  BY <1>3 DEF FinishOnTeam, Arrives, Outputs
<1>4. ASSUME NEW m \in Members, Collect(m) PROVE RanSoFar'
  BY <1>4 DEF Collect, Content
<1>5. ASSUME NEW m \in Members, MemberFails(m) PROVE RanSoFar'
  BY <1>5 DEF MemberFails
<1>6. ASSUME NEW m \in Members, MemberSucceeds(m) PROVE RanSoFar'
  BY <1>6, RanSame DEF MemberSucceeds
<1>7. ASSUME Stop PROVE RanSoFar'
  BY <1>7 DEF Stop
<1>8. ASSUME Dispatch PROVE RanSoFar'
  <2> SUFFICES ASSUME kind \in {"sequential", "SequentialAgent"}
               PROVE  RanSoFar'
    BY <1>8 DEF Dispatch
  <2>1. ran' = <<>> /\ pos' = 0 /\ line' \subseteq DOMAIN Order
        /\ UNCHANGED <<kind, registered>>
    BY <1>8 DEF Dispatch, Sequence, Registered
  <2>2. kind = "SequentialAgent" => \A i \in line' : Order[i] \in registered
    BY <1>8 DEF Dispatch, Sequence, Registered
  <2>3. ToSet(ran') = {} /\ {i \in Registered(line)' : i <= pos'} = {}
    BY <2>1 DEF Registered, ToSet
  <2> QED
    BY <2>1, <2>2, <2>3
<1>9. ASSUME ContextEnds PROVE RanSoFar'
  BY <1>9, RanSame DEF ContextEnds
<1>10. ASSUME Gathered PROVE RanSoFar'
  BY <1>10 DEF Gathered
<1>11. ASSUME ChainCancelled PROVE RanSoFar'
  BY <1>11 DEF ChainCancelled
<1>12. ASSUME ChainEnds PROVE RanSoFar'
  BY <1>12 DEF ChainEnds, Complete, Left, Ahead
<1>13. ASSUME NEW i \in DOMAIN Order, SkipMissing(i) PROVE RanSoFar'
  <2> SUFFICES ASSUME kind = "sequential" PROVE RanSoFar'
    BY <1>13 DEF SkipMissing
  <2>1. /\ pos' = i /\ i > pos /\ Order[i] \notin registered
        /\ \A j \in line : j > pos => i <= j
        /\ UNCHANGED <<kind, registered, line, ran>> /\ Busy
    BY <1>13 DEF SkipMissing, IsNext, Ahead
  <2>2. {j \in Registered(line) : j <= i} = {j \in Registered(line) : j <= pos}
    BY <2>1 DEF Registered
  <2> QED
    BY <2>1, <2>2 DEF Registered
<1>14. ASSUME NEW i \in DOMAIN Order, RunMember(i) PROVE RanSoFar'
  <2> SUFFICES ASSUME kind \in {"sequential", "SequentialAgent"}
               PROVE  RanSoFar'
    BY <1>14 DEF RunMember
  <2>1. /\ pos' = i /\ i > pos /\ Order[i] \in registered
        /\ i \in line /\ \A j \in line : j > pos => i <= j
        /\ ran' = Append(ran, i)
        /\ UNCHANGED <<kind, registered, line>> /\ Busy
    BY <1>14 DEF RunMember, IsNext, Ahead
  <2>2. {j \in Registered(line) : j <= i} =
          {j \in Registered(line) : j <= pos} \cup {i}
    <3>1. i \in Nat /\ pos \in Nat /\ \A j \in line : j \in Nat
      OBVIOUS
    <3>2. \A j \in line : j <= i <=> j <= pos \/ j = i
      <4> SUFFICES ASSUME NEW j \in line
                   PROVE  j <= i <=> j <= pos \/ j = i
        OBVIOUS
      <4>1. j > pos => i <= j
        BY <2>1
      <4> HIDE DEF EnsembleTyped, AtWork, RanSoFar
      <4> QED
        BY <2>1, <3>1, <4>1
    <3>3. i \in Registered(line)
      BY <2>1 DEF Registered
    <3>4. Registered(line) \subseteq line
      BY DEF Registered
    <3> QED
      BY <3>2, <3>3, <3>4
  <2>3. ToSet(ran') = ToSet(ran) \cup {i}
    BY <2>1, ToSetAppend
  <2>4. \A j \in DOMAIN ran : ran[j] <= pos /\ ran[j] \in DOMAIN Order
    BY <2>1 DEF ToSet
  <2>5. \A j, k \in DOMAIN ran' : j < k => ran'[j] < ran'[k]
    <3>1. /\ Len(ran) \in Nat /\ DOMAIN ran = 1..Len(ran)
          /\ DOMAIN ran' = 1..(Len(ran) + 1) /\ ran'[Len(ran) + 1] = i
          /\ \A j \in 1..Len(ran) : ran'[j] = ran[j]
      BY <2>1
    <3>2. \A j, k \in DOMAIN ran : j < k => ran[j] < ran[k]
      BY <2>1
    <3>3. /\ i > pos /\ i \in Nat /\ pos \in Nat
          /\ \A j \in DOMAIN ran : ran[j] \in Nat /\ ran[j] <= pos
      BY <2>1, <2>4
    <3> HIDE DEF EnsembleTyped, AtWork, RanSoFar
    <3> QED
      BY <3>1, <3>2, <3>3
  <2> QED
    BY <2>1, <2>2, <2>3, <2>5 DEF Registered
<1> QED
  BY <1>1, <1>2, <1>3, <1>4, <1>5, <1>6, <1>7, <1>8, <1>9, <1>10, <1>11, <1>12,
     <1>13, <1>14
     DEF EnsembleNext, TeamStep, ChainStep, ChainDone

(* A success is merged when it is collected, and no merge takes away.      *)
LEMMA MergedStep ==
  ASSUME EnsembleTyped, AtWork, Merged, EnsembleNext PROVE Merged'
<1> USE OrderFacts
    DEF EnsembleTyped, EnsembleTypeOK, Orchestrators, Agents, Kinds, AtWork,
        Merged, Kept, SuccessesKept, View, Failure, Outcome, Busy, Locked,
        Clones, Concurrent, Loops, Return, setup, dispatchVars
<1>1. ASSUME NEW m \in Members, RegisterAgent(m) PROVE Merged'
  BY <1>1 DEF RegisterAgent
<1>2. ASSUME NEW m \in Members, Write(m) PROVE Merged'
  BY <1>2 DEF Write, Aliased
<1>3. ASSUME NEW m \in Members, FinishOnTeam(m) PROVE Merged'
  <2>1. /\ at = "gather" /\ member[m] = "running" /\ at' = "gather"
        /\ UNCHANGED <<kind, given, object, combined, answer>>
        /\ \A n \in Members \ {m} : /\ output'[n] = output[n]
                                    /\ member'[n] = member[n]
        /\ member'[m] = "sent"
    BY <1>3 DEF FinishOnTeam
  <2> HIDE DEF Failure
  <2> QED
    BY <2>1
<1>4. ASSUME NEW m \in Members, Collect(m) PROVE Merged'
  BY <1>4 DEF Collect, Content
<1>5. ASSUME NEW m \in Members, MemberFails(m) PROVE Merged'
  BY <1>5 DEF MemberFails
<1>6. ASSUME NEW m \in Members, MemberSucceeds(m) PROVE Merged'
  BY <1>6 DEF MemberSucceeds, Complete
<1>7. ASSUME Stop PROVE Merged'
  BY <1>7 DEF Stop
<1>8. ASSUME Dispatch PROVE Merged'
  BY <1>8 DEF Dispatch, NoAnswer, Refused, PassedThrough, Team
<1>9. ASSUME ContextEnds PROVE Merged'
  BY <1>9 DEF ContextEnds
<1>10. ASSUME Gathered PROVE Merged'
  <2>1. /\ \A m \in Members : output[m] # Failure => Kept(m) \subseteq combined
        /\ UNCHANGED <<kind, given, output, member>>
    BY <1>10 DEF Gathered
  <2>2. CASE kind = "ParallelAgent"
    BY <1>10, <2>1, <2>2 DEF Gathered
  <2>3. CASE kind = "collaborative"
    BY <1>10, <2>1, <2>3 DEF Gathered
  <2>4. CASE kind = "mixed"
    <3>1. CASE Return("all", {}, FALSE)
      BY <1>10, <2>1, <2>4, <3>1 DEF Gathered
    <3>2. CASE at' = "chain"
      BY <1>10, <2>1, <2>4, <3>2 DEF Gathered
    <3> QED
      BY <1>10, <2>4, <3>1, <3>2 DEF Gathered
  <2> QED
    BY <1>10, <2>2, <2>3, <2>4 DEF Gathered
<1>11. ASSUME ChainCancelled PROVE Merged'
  BY <1>11 DEF ChainCancelled
<1>12. ASSUME ChainEnds PROVE Merged'
  <2>1. CASE kind = "mixed"
    <3>1. /\ answer'.state = combined \cup object
          /\ UNCHANGED <<kind, object, output, given>>
      BY <1>12, <2>1 DEF ChainEnds, Complete
    <3>2. SuccessesKept'
      BY <2>1, <3>1, <1>12 DEF ChainEnds
    <3> QED
      BY <1>12, <3>2 DEF ChainEnds, Complete
  <2>2. CASE kind # "mixed"
    BY <1>12, <2>2 DEF ChainEnds, Complete
  <2> QED
    BY <2>1, <2>2
<1>13. ASSUME NEW i \in DOMAIN Order, SkipMissing(i) PROVE Merged'
  BY <1>13 DEF SkipMissing, IsNext, Left, Ahead
<1>14. ASSUME NEW i \in DOMAIN Order, RunMember(i) PROVE Merged'
  BY <1>14 DEF RunMember, IsNext, Left, Ahead
<1> QED
  BY <1>1, <1>2, <1>3, <1>4, <1>5, <1>6, <1>7, <1>8, <1>9, <1>10, <1>11, <1>12,
     <1>13, <1>14
     DEF EnsembleNext, TeamStep, ChainStep, ChainDone

(* A failure is counted when it is collected, and not forgotten.           *)
LEMMA FailuresStep ==
  ASSUME EnsembleTyped, AtWork, Failures, EnsembleNext PROVE Failures'
<1> USE OrderFacts
    DEF EnsembleTyped, EnsembleTypeOK, Orchestrators, Agents, Kinds, AtWork,
        Failures, ErrorsSurface, Busy, Locked, Clones, Concurrent, Loops,
        Return, setup, dispatchVars
<1>1. ASSUME NEW m \in Members, RegisterAgent(m) PROVE Failures'
  BY <1>1 DEF RegisterAgent
<1>2. ASSUME NEW m \in Members, Write(m) PROVE Failures'
  BY <1>2 DEF Write
<1>3. ASSUME NEW m \in Members, FinishOnTeam(m) PROVE Failures'
  BY <1>3 DEF FinishOnTeam, Arrives, Outputs
<1>4. ASSUME NEW m \in Members, Collect(m) PROVE Failures'
  BY <1>4 DEF Collect, Content
<1>5. ASSUME NEW m \in Members, MemberFails(m) PROVE Failures'
  BY <1>5 DEF MemberFails
<1>6. ASSUME NEW m \in Members, MemberSucceeds(m) PROVE Failures'
  BY <1>6 DEF MemberSucceeds, Complete
<1>7. ASSUME Stop PROVE Failures'
  BY <1>7 DEF Stop
<1>8. ASSUME Dispatch PROVE Failures'
  BY <1>8 DEF Dispatch, NoAnswer, Refused, PassedThrough, Team
<1>9. ASSUME ContextEnds PROVE Failures'
  BY <1>9 DEF ContextEnds
<1>10. ASSUME Gathered PROVE Failures'
  BY <1>10 DEF Gathered, Succeeded
<1>11. ASSUME ChainCancelled PROVE Failures'
  BY <1>11 DEF ChainCancelled
<1>12. ASSUME ChainEnds PROVE Failures'
  BY <1>12 DEF ChainEnds, Complete, Left, Ahead
<1>13. ASSUME NEW i \in DOMAIN Order, SkipMissing(i) PROVE Failures'
  BY <1>13 DEF SkipMissing, IsNext, Left, Ahead
<1>14. ASSUME NEW i \in DOMAIN Order, RunMember(i) PROVE Failures'
  BY <1>14 DEF RunMember, IsNext, Left, Ahead
<1> QED
  BY <1>1, <1>2, <1>3, <1>4, <1>5, <1>6, <1>7, <1>8, <1>9, <1>10, <1>11, <1>12,
     <1>13, <1>14
     DEF EnsembleNext, TeamStep, ChainStep, ChainDone

(* A clone passes to the next member what the chain's State holds, and     *)
(* nothing of the members that failed.                                     *)
LEMMA PrivateStep ==
  ASSUME EnsembleTyped, AtWork, Merged, Failures, Private, EnsembleNext
  PROVE  Private'
<1> USE OrderFacts
    DEF EnsembleTyped, EnsembleTypeOK, Orchestrators, Agents, Kinds, AtWork,
        Failures, Private, FailedLeaveNothing, View, Failure, Outcome, Busy,
        Locked, Clones, Concurrent, Loops, Return, setup, dispatchVars
<1>1. ASSUME NEW m \in Members, RegisterAgent(m) PROVE Private'
  BY <1>1 DEF RegisterAgent
<1>2. ASSUME NEW m \in Members, Write(m) PROVE Private'
  <2>1. CASE kind = "ParallelAgent"
    <3>1. /\ at = "gather" /\ given' = [given EXCEPT ![m] = @ \cup {m}]
          /\ UNCHANGED <<kind, at, combined, failed, member, output>>
      BY <1>2, <2>1 DEF Write
    <3> HIDE DEF Failure
    <3> QED
      BY <2>1, <3>1
  <2>2. CASE kind = "SequentialAgent" /\ at = "running"
    <3>1. m = Order[pos] /\ pos \in DOMAIN Order
      BY <1>2, <2>2 DEF Write
    <3>2. /\ given' = [given EXCEPT ![m] = @ \cup {m}]
          /\ UNCHANGED <<object, at, pos, kind>>
      BY <1>2, <2>2 DEF Write
    <3>3. given'[m] = given[m] \cup {Order[pos]}
      BY <3>1, <3>2
    <3> QED
      BY <2>2, <3>1, <3>2, <3>3
  <2> QED
    BY <1>2, <2>1, <2>2 DEF Write
<1>3. ASSUME NEW m \in Members, FinishOnTeam(m) PROVE Private'
  <2>1. CASE kind = "ParallelAgent"
    <3>1. PICK o \in Arrives(m) : output' = [output EXCEPT ![m] = o]
      BY <1>3 DEF FinishOnTeam
    <3>2. o.state \subseteq {"input", m}
      BY <1>3, <2>1 DEF Arrives, Outputs, FinishOnTeam
    <3>3. m \notin failed /\ output[m] = Failure
      BY <1>3 DEF FinishOnTeam, Merged
    <3> HIDE DEF Failure
    <3> QED
      BY <1>3, <2>1, <3>1, <3>2, <3>3 DEF FinishOnTeam
  <2> QED
    BY <1>3, <2>1 DEF FinishOnTeam
<1>4. ASSUME NEW m \in Members, Collect(m) PROVE Private'
  BY <1>4 DEF Collect, Content
<1>5. ASSUME NEW m \in Members, MemberFails(m) PROVE Private'
  BY <1>5 DEF MemberFails
<1>6. ASSUME NEW m \in Members, MemberSucceeds(m) PROVE Private'
  <2>1. CASE kind = "SequentialAgent"
    <3>1. m = Order[pos] /\ pos \in DOMAIN Order /\ at' = "chain"
      BY <1>6, <2>1 DEF MemberSucceeds
    <3>2. object' \subseteq given[m] \cup {m} /\ UNCHANGED <<kind, pos>>
      BY <1>6, <2>1 DEF MemberSucceeds
    <3>3. Order[pos] \in {Order[i] : i \in {j \in DOMAIN Order : j <= pos}}
      BY <3>1
    <3> QED
      BY <1>6, <2>1, <3>1, <3>2, <3>3 DEF MemberSucceeds
  <2>2. CASE kind = "ParallelAgent"
    BY <1>6, <2>2 DEF MemberSucceeds
  <2> QED
    BY <1>6, <2>1, <2>2 DEF MemberSucceeds
<1>7. ASSUME Stop PROVE Private'
  BY <1>7 DEF Stop
<1>8. ASSUME Dispatch PROVE Private'
  BY <1>8 DEF Dispatch, NoAnswer, Refused, PassedThrough, Team, Sequence
<1>9. ASSUME ContextEnds PROVE Private'
  BY <1>9 DEF ContextEnds
<1>10. ASSUME Gathered PROVE Private'
  BY <1>10 DEF Gathered, Succeeded
<1>11. ASSUME ChainCancelled PROVE Private'
  BY <1>11 DEF ChainCancelled
<1>12. ASSUME ChainEnds PROVE Private'
  BY <1>12 DEF ChainEnds, Complete, Left, Ahead
<1>13. ASSUME NEW i \in DOMAIN Order, SkipMissing(i) PROVE Private'
  BY <1>13 DEF SkipMissing, IsNext, Left, Ahead
<1>14. ASSUME NEW i \in DOMAIN Order, RunMember(i) PROVE Private'
  <2>1. CASE kind = "SequentialAgent"
    <3>1. /\ pos' = i /\ i > pos /\ at = "chain" /\ at' = "running"
          /\ given' = [given EXCEPT ![Order[i]] = object]
          /\ UNCHANGED <<kind, object, failed, answer>>
      BY <1>14, <2>1 DEF RunMember, IsNext, Ahead
    <3>2. object \subseteq {"input"} \cup
            {Order[k] : k \in {j \in DOMAIN Order : j <= pos}}
      BY <2>1, <3>1
    <3>3. \A j \in DOMAIN Order : j <= pos => j <= i /\ j # i
      BY <2>1, <3>1
    <3>4. given'[Order[i]] = object
      BY <3>1
    <3>5. object \subseteq {"input"} \cup
            {Order[k] : k \in {j \in DOMAIN Order : j <= i /\ j # i}}
      BY <3>2, <3>3
    <3>6. object \subseteq {"input"} \cup
            {Order[k] : k \in {j \in DOMAIN Order : j <= i}}
      BY <3>2, <3>3
    <3>7. FailedLeaveNothing'
      BY <1>14, <2>1, <3>1 DEF FailedLeaveNothing
    <3> HIDE DEF FailedLeaveNothing
    <3> QED
      BY <2>1, <3>1, <3>4, <3>5, <3>6, <3>7 DEF Private
  <2>2. CASE kind # "SequentialAgent"
    BY <1>14, <2>2 DEF RunMember, IsNext
  <2> QED
    BY <2>1, <2>2
<1> QED
  BY <1>1, <1>2, <1>3, <1>4, <1>5, <1>6, <1>7, <1>8, <1>9, <1>10, <1>11, <1>12,
     <1>13, <1>14
     DEF EnsembleNext, TeamStep, ChainStep, ChainDone

(* EInv holds at the start, is kept by every step, and so always holds.    *)
LEMMA EInvInit == EnsembleInit => EInv
<1> SUFFICES ASSUME EnsembleInit PROVE EInv
  OBVIOUS
<1> USE OrderFacts, EnsembleAssumption
    DEF EnsembleInit, Orchestrators, Agents, Kinds, Failure, NoAnswer
<1>1. EnsembleTyped
  <2>1. {} \in SUBSET Marks /\ <<>> \in Seq(DOMAIN Order)
    OBVIOUS
  <2>2. answer \in [error : Errors, state : SUBSET Marks, completed : BOOLEAN]
    BY DEF Errors
  <2>3. /\ output \in [Members -> Outcome]
        /\ member \in [Members -> {"off", "running", "sent"}]
        /\ given \in [Members -> SUBSET Marks]
    BY DEF Outcome
  <2>4. pos \in 0..(IF Loops THEN MaxIterations ELSE Len(Order))
    BY DEF Loops
  <2>5. /\ kind \in Kinds /\ enabled \in BOOLEAN /\ stopped \in BOOLEAN
        /\ registered \subseteq Members /\ at = "idle" /\ line = {}
        /\ fresh \in BOOLEAN /\ object = {} /\ combined = {} /\ failed = {}
        /\ ctxDone \in BOOLEAN /\ dispatches \in 0..MaxDispatches
        /\ ran = <<>>
    <3>1. enabled \in BOOLEAN /\ kind \in Kinds
      BY Zenon
    <3>2. /\ registered \subseteq Members /\ stopped \in BOOLEAN
          /\ fresh \in BOOLEAN /\ ctxDone \in BOOLEAN
      BY Zenon
    <3>3. dispatches \in 0..MaxDispatches
      BY DEF EnsembleAssumption
    <3> QED
      BY <3>1, <3>2, <3>3
  <2> HIDE DEF EnsembleInit, Failure, Kinds
  <2> QED
    BY <2>1, <2>2, <2>3, <2>4, <2>5 DEF EnsembleTyped, EnsembleTypeOK
<1>2. AtWork /\ RanSoFar /\ Merged /\ Failures /\ Private
  BY DEF AtWork, RanSoFar, Merged, Failures, Private, Busy, SuccessesKept,
         ErrorsSurface, FailedLeaveNothing
<1> QED
  BY <1>1, <1>2 DEF EInv

LEMMA EInvStep == EInv /\ [EnsembleNext]_ensembleVars => EInv'
<1>1. ASSUME EInv, EnsembleNext PROVE EInv'
  BY <1>1, TypedStep, AtWorkStep, RanStep, MergedStep, FailuresStep,
     PrivateStep DEF EInv
<1>2. ASSUME EInv, UNCHANGED ensembleVars PROVE EInv'
  BY <1>2 DEF EInv, ensembleVars, setup, dispatchVars, EnsembleTyped,
     EnsembleTypeOK, AtWork, RanSoFar, Merged, Failures, Private, Busy, Kept,
     View, Clones, Concurrent, Loops, Registered, SuccessesKept,
     ErrorsSurface, FailedLeaveNothing
<1> QED
  BY <1>1, <1>2

LEMMA AlwaysEInv == EnsembleSpec => []EInv
BY EInvInit, EInvStep, PTL DEF EnsembleSpec

(* A dispatch that has returned is over, and says so if it went wrong, for *)
(* any set of members and any sequence of them.                            *)
THEOREM EnsembleCorrect == EnsembleSpec => []EnsembleInv
<1>1. EInv => EnsembleInv
  BY DEF EInv, EnsembleTyped, AtWork, NobodyLeft, Failures, EnsembleInv
<1> QED
  BY <1>1, AlwaysEInv, PTL

(* What successful members returned is in the answer of a concurrent       *)
(* dispatch, and nothing of failed ones is in what an agent returns.       *)
THEOREM AnswersWhole == EnsembleSpec => []StateReturned
<1>1. EInv => StateReturned
  BY DEF EInv, Merged, Private, StateReturned
<1> QED
  BY <1>1, AlwaysEInv, PTL

(* A sequential dispatch that succeeds has run each name with a handler,   *)
(* once and in order, whoever registers and stops meanwhile.               *)
THEOREM NobodySkipped == EnsembleSpec => EveryoneRan
<1> DEFINE Everyone ==
      Busy /\ at' = "returned" /\ answer'.error = "none" =>
        (kind \in {"sequential", "SequentialAgent"} =>
           /\ ToSet(ran) = Registered(line)
           /\ \A j, k \in DOMAIN ran : j < k => ran[j] < ran[k])
<1>1. ASSUME EInv, EnsembleNext PROVE Everyone
  <2> SUFFICES ASSUME Busy, at' = "returned", answer'.error = "none",
                      kind \in {"sequential", "SequentialAgent"}
               PROVE  /\ ToSet(ran) = Registered(line)
                      /\ \A j, k \in DOMAIN ran : j < k => ran[j] < ran[k]
    OBVIOUS
  <2>1. ToSet(ran) = {i \in Registered(line) : i <= pos}
    BY <1>1 DEF EInv, RanSoFar
  <2>2. ChainEnds
    <3> USE DEF Return, Loops, Concurrent, Busy, setup, dispatchVars
    <3>1. kind \notin {"loop", "LoopAgent", "mixed"} /\ at # "gather"
      BY <1>1 DEF EInv, AtWork
    <3>2. ASSUME NEW m \in Members,
                 RegisterAgent(m) \/ Write(m) \/ TeamStep(m) \/ ChainDone(m)
          PROVE  FALSE
      <4>1. ~RegisterAgent(m) /\ ~Write(m)
        BY DEF RegisterAgent, Write
      <4>2. ~FinishOnTeam(m) /\ ~Collect(m)
        BY <3>1 DEF FinishOnTeam, Collect
      <4>3. ~MemberFails(m)
        BY DEF MemberFails
      <4>4. ~MemberSucceeds(m)
        BY <3>1 DEF MemberSucceeds
      <4> QED
        BY <3>2, <4>1, <4>2, <4>3, <4>4 DEF TeamStep, ChainDone
    <3>3. ~Stop /\ ~Dispatch /\ ~ContextEnds /\ ~Gathered
      BY <3>1 DEF Stop, Dispatch, ContextEnds, Gathered
    <3>4. ChainStep
      BY <1>1, <3>2, <3>3 DEF EnsembleNext
    <3>5. ~ChainCancelled /\ \A i : ~SkipMissing(i) /\ ~RunMember(i)
      BY DEF ChainCancelled, SkipMissing, RunMember, IsNext
    <3> QED
      BY <3>4, <3>5 DEF ChainStep
  <2>3. {i \in line : i > pos} = {} /\ line \subseteq Nat /\ pos \in Nat
    BY <1>1, <2>2, OrderFacts
       DEF ChainEnds, Left, Ahead, Loops, EInv, EnsembleTyped, EnsembleTypeOK
  <2>4. {i \in Registered(line) : i <= pos} = Registered(line)
    <3>1. \A i \in line : i <= pos
      BY <2>3
    <3>2. Registered(line) \subseteq line
      BY DEF Registered
    <3> QED
      BY <3>1, <3>2
  <2> QED
    BY <1>1, <2>1, <2>4 DEF EInv, RanSoFar
<1>2. EInv /\ [EnsembleNext]_ensembleVars => [Everyone]_ensembleVars
  BY <1>1
<1> QED
  BY <1>2, AlwaysEInv, PTL DEF EnsembleSpec, EveryoneRan
=============================================================================
